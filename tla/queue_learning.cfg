SPECIFICATION Spec
CONSTANTS
    a = a
    b = b
    c = c
    n = n
    m = m
    Cards <- ThreeCards
    NoteOf <- TwoNotes
    PreviewCards <- None
    Presets <- NoBurying
    StartRows <- AnyQueue
    Delays <- Steps
    LearnAhead = 4
    DayLength = 2
    MaxNow = 2
    MaxSteps = 1
    MaxBuilds = 2
    Refetches = FALSE
INVARIANT QueuesWellFormed
PROPERTY NotShownAgain
PROPERTY RequeuedInOrder
PROPERTY RedoIsNotRefused
SYMMETRY Swap
CHECK_DEADLOCK FALSE
