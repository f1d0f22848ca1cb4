SPECIFICATION Spec
CONSTANTS
    NumShards = 2
    NumThreads = 2
    Keys = {a}
    ChanCap = 1
    Workloads <- MCWorkloads
INVARIANTS   GroupsAreAllOrNothing FailuresAreExplained
CHECK_DEADLOCK FALSE
