SPECIFICATION Spec
CONSTANTS
    c1 = c1
    c2 = c2
    Nobody = Nobody
    Callers <- TwoCallers
    Kinds <- AllKinds
    MaxCalls = 2
    MaxMedia = 1
    MaxBackups = 2
    MaxNow = 1
    FreshFor = 1
INVARIANT LocksAreHeld
INVARIANT FoundSyncIsOver
INVARIANT CancelsAreFresh
INVARIANT CachedStatusIsCurrent
INVARIANT FailuresAreReported
PROPERTY CallsReturn
CHECK_DEADLOCK FALSE
