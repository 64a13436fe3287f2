SPECIFICATION Spec
CONSTANTS
    front = front
    back = back
    default = default
    other = other
    cram = cram
    NoDeck = NoDeck
    NoCard = NoCard
    Cards <- TwoCards
    HomeDecks <- TwoHomes
    FilteredDecks <- OneCram
    DefaultDeck = default
    Positions <- TwoPositions
    Days <- OneDay
    Times <- OneTime
    BuryModes <- SuspendOrBury
    ShiftPreviewed = FALSE
INVARIANT TypeOK
INVARIANT HomeKept
INVARIANT QueueMatchesType
PROPERTY KeepsSchedules
SYMMETRY Swap
