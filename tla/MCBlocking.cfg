CONSTANTS
    Keys = {"a", "b"}
    Shards = {1, 2}
    ShardOf <- MCShardOf
    Programs <- MCPrograms
SPECIFICATION Spec
INVARIANTS
    WaitersAreServed
    
    DoneWhenFinished
CHECK_DEADLOCK FALSE
