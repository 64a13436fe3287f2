SPECIFICATION Spec
CONSTANTS
    phone = phone
    desktop = desktop
    x = x
    y = y
    a = a
    b = b
    Clients <- TwoClients
    Names <- TwoNames
    Data <- TwoContents
    ChunkLimit = 1
    ZipFiles = 1
    Faults <- FaultKinds
    MaxEdits = 3
    MaxFaults = 1
INVARIANT TypeOK
INVARIANT NothingToDoIsTrue
INVARIANT PassedIsKnown
PROPERTY KeptUnlessRemoved
SYMMETRY Swap
