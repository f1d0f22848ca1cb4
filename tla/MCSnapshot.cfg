CONSTANTS
  Key = {1, 2, 3, 4, 20}
  NoKey = 0
  Hash <- MCHash
  MinCap = 4
  FlushCap = 8
  RehashSlots = 2
  ChunkRecs = 1
  ShardOf <- MCShardOf
  GroupKey <- MCGroupKey
  Programs <- MCPrograms
  ChanCap = 1
  MaxInflight = 2
SPECIFICATION Spec
INVARIANTS
  FileIsTheCut
  
  ScanSeesWhatStays
  AbortIsAnswered
