SPECIFICATION Spec
CONSTANTS
    phone = phone
    desktop = desktop
    k = k
    l = l
    d = d
    Nobody = Nobody
    Clients <- TwoClients
    Cards <- OneCard
    Decks <- None
    Start <- None
    Faults <- OvertakenOrCrash
    MaxEdits = 2
    MaxSyncs = 3
    MaxFaults = 1
    ChunkSize = 1
    MsPerSec = 1
INVARIANT ReviewsKept
PROPERTY SyncEnds
CHECK_DEADLOCK FALSE
