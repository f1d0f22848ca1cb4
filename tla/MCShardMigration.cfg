CONSTANTS
    i1 = i1
    i2 = i2
    IOs = {i1, i2}
    Executors = {e1, e2}
    Shards = {s1}
    Coordinator = i1
    LaneCap = 1
    MaxTasks <- MCTasks
    MaxReleases <- MCReleases
    MaxEpochs = 2
    MaxFlips = 1
SPECIFICATION Spec
SYMMETRY Symmetry
 
INVARIANT TasksInOrder
INVARIANT NothingLost
