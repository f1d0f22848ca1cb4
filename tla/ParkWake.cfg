CONSTANTS
    Producers = {p1, p2}
    LaneCap = 2
    SpinBudget = 2
    MaxPosts = 2
SPECIFICATION FairSpec
INVARIANT SleepOnlyWhenWakeIsOwed
PROPERTY EveryTaskTaken
