SPECIFICATION Spec
CONSTANTS
    phone = phone
    desktop = desktop
    k = k
    l = l
    d = d
    Nobody = Nobody
    Clients <- TwoClients
    Cards <- OneCard
    Decks <- OneDeck
    Start <- CardAndDeck
    Faults <- Overtaken
    MaxEdits = 2
    MaxSyncs = 3
    MaxFaults = 0
    ChunkSize = 1
    MsPerSec = 1
PROPERTY SyncedAlike
CHECK_DEADLOCK FALSE
