SPECIFICATION Spec
CONSTANTS
    phone = phone
    desktop = desktop
    k = k
    l = l
    d = d
    Nobody = Nobody
    Clients <- TwoClients
    Cards <- TwoCards
    Decks <- OneDeck
    Start <- OneCard
    Faults <- LostOnly
    MaxEdits = 2
    MaxSyncs = 4
    MaxFaults = 1
    ChunkSize = 1
    MsPerSec = 1
INVARIANT TypeOK
INVARIANT NoChangesIsTrue
INVARIANT SentIsKept
INVARIANT WillBeSent
INVARIANT SanityHolds
PROPERTY SyncedAlike
PROPERTY IsLastWriterWins
SYMMETRY Swap
CHECK_DEADLOCK FALSE
