CONSTANTS
    Conns = {c1}
    Executors = {e1, e2}
    NumSlots = 1
    BatchCap = 2
    MaxOps = 2
SPECIFICATION FairSpec
INVARIANT NoStrandedCompletion
INVARIANT CorpseIsUnreferenced
PROPERTY EverythingEnds
