SPECIFICATION Spec
CONSTANTS
    n1 = n1
    n2 = n2
    d1 = d1
    Absent = Absent
    Notes <- OneNote
    Decks <- OneDeck
    Values <- AllValues
    Features <- Outside
    UndoLimit = 2
    CoalesceSecs = 2
    MaxNow = 3
INVARIANT StepsAreReplayable
INVARIANT PendingIsVisible
PROPERTY IsHistory
