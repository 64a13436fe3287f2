SPECIFICATION Spec
CONSTANTS
    a = a
    b = b
    c = c
    n = n
    m = m
    Cards <- ThreeCards
    NoteOf <- TwoNotes
    PreviewCards <- OnlyC
    Presets <- Monotone
    StartRows <- NewOrReview
    Delays <- Steps
    LearnAhead = 1
    DayLength = 2
    MaxNow = 2
    MaxSteps = 2
    MaxBuilds = 2
    Refetches = TRUE
INVARIANT CountsMatch
INVARIANT QueuedCardsUnmodified
PROPERTY UndoShowsCardAgain
SYMMETRY Swap
CHECK_DEADLOCK FALSE
