SPECIFICATION Spec
CONSTANTS
    a = a
    b = b
    c = c
    n = n
    m = m
    Cards <- ThreeCards
    NoteOf <- TwoNotes
    PreviewCards <- None
    Presets <- NoBurying
    StartRows <- NewOrReview
    Delays <- Steps
    LearnAhead = 1
    DayLength = 2
    MaxNow = 3
    MaxSteps = 1
    MaxBuilds = 1
    Refetches = TRUE
INVARIANT StepStaysOpen
CHECK_DEADLOCK FALSE
