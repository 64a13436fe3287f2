SPECIFICATION Spec
CONSTANTS
    n1 = n1
    n2 = n2
    d1 = d1
    Absent = Absent
    Notes <- TwoNotes
    Decks <- None
    Values <- AllValues
    Features <- Editing
    UndoLimit = 3
    CoalesceSecs = 2
    MaxNow = 4
INVARIANT NumbersDescend
INVARIANT QueuesWithinLimit
PROPERTY IsHistory
