SPECIFICATION FairSpec
CONSTANTS
    Requests = {r1, r2}
    Workers = {w1}
    OldRun = old
    Texts <- MCTexts
    Hash <- MCHash
    Malformed = {"e"}
    Invalid = {"d"}
    OldText = "a"
    Keys = {k}
    LockModes = {"off", "process", "redis"}
    Faults = {"store", "broker", "task"}
    MaxRetries = 1
    None = None
INVARIANTS
    TypeOK
    LocksSound
    KeyDispatchedOnce
    PinnedStored
    SavedRunConsistent
PROPERTIES
    ReleaseByOwner
    VersionsFinal
    Settles
