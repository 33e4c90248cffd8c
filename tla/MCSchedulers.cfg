SPECIFICATION SchedulersSpec
CONSTANTS
  NumBlocks = 3
  BlockSize = 2
  Seqs <- MCSeqs
  Token <- MCToken
  Prompts <- MCPrompts
  MaxLen = 7
  EOS = 1
  Requests <- MCRequests
  MaxNumSeqs = 2
  MaxBatchedTokens = 4
  MaxPrefillChunk = 2
  MinPrefillChunk = 2
INVARIANTS
  SchedulerTypeOK
  KVMatchesPrefix
  NoRequestLost
  EveryBatchWithinLimits
  PrefillShipsTokens
  ServedInOrder
PROPERTIES
  OldestNeverPreempted
  UsesBlockManager
  KeepsServiceSafe
  AllServed
CHECK_DEADLOCK FALSE
