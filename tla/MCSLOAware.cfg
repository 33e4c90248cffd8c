SPECIFICATION SLOSpec
CONSTANTS
  NumBlocks = 4
  BlockSize = 2
  Seqs <- MCSeqs
  Token <- MCToken
  Prompts <- MCPrompts
  MaxLen = 8
  EOS = 1
  Requests <- MCRequests
  MaxNumSeqs = 3
  MaxBatchedTokens = 7
  CalibrationTarget = 2
INVARIANTS
  KVMatchesPrefix
  HeldOnce
  BatchFitsTables
  CalibrationInRange
PROPERTIES
  UsesBlockManager
CHECK_DEADLOCK FALSE
