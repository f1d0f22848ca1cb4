CONSTANTS
    Size <- MCSize
    Wide = 8
    IndexCutover = 2
    FirstBytes = 8
    Grain = 4
    EmbedMax = 12
    ListEntries = 4
    ListBytes = 20
    NodeMaxEntries = 2
    SetEntries = 3
    SetMaxValue = 8
    IntsetMax = 3
    TableMin = 4
    HashEntries = 3
    HashMaxValue = 8
    FieldMin = 4
    RehashBuckets = 2
    MaxInt = 3
    ZsetEntries = 3
    ZsetMaxValue = 8
    ScoreBytes = 2
    MaxLevel = 2
    MapMin = 4
    MapStep = 2
    ByteBits = 4
    IntLimit = 12
    EmbedThreshold = 4
    SlotBytes = 2
    MaxBulk = 7
    Scored <- MCScored
    MemberOf <- MCMemberOf
    ScoreOf <- MCScoreOf
    Precedes <- MCLess
    Never = 99
    IdBase = 4
    ScanFactor = 2
    stream_limits <- Small
    default_limits <- Default
    IsInt <- MCIsInt
    IsNumber <- MCIsInt
    Less <- MCLess
    WidthFor <- MCWidthFor
    HashOf <- MCHashOf
    Bin <- MCBin
    Unbin <- MCUnbin
    Pair <- MCPair
    FieldOf <- MCFieldOf
    ValueOf <- MCValueOf
    NoCommand <- MCNoCommand
    Programs <- MCPrograms
    Payloads <- MCPayloads
    Meaning <- MCMeaning
    RdbVersion = 12
    Registers = 8
    ZeroMax = 2
    RankMax = 3
    RunMax = 2
    RankTop = 4
    SparseMaxBytes = 9
    IndexOf <- MCIndexOf
    RankOf <- MCRankOf
    Estimate <- MCEstimate
    MaxFreq = 7
SPECIFICATION Spec
INVARIANT RepresentationIsSound
 
 
CHECK_DEADLOCK FALSE
