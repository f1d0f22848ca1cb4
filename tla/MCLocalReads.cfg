SPECIFICATION LocalSpec
CONSTANTS
    Window = 3
    Hashes = {0, 1}
    TagRange = 2
    FilterBits = 2
    FilterShift = 2
    MaxKeys = 2
    MaxOps = 4
    NThreads = 3
    Owner <- MCOwner
    KeysAt <- MCKeysAt
    Cell <- MCCell
    Fingerprint <- MCFingerprint
    CountMax = 3
    RingCap = 2
    BatchCap = 1
    Attempts = 2
    MaxTables = 4
    Groups <- MCGroups
    Scenes <- MCScenes
INVARIANTS
    LocalReadsPassNoWrite
    NothingReadIsReclaimed
    LocalReadsAreCurrent
PROPERTIES
    ForcedGraceEnds
CHECK_DEADLOCK FALSE
