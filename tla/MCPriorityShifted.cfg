SPECIFICATION PrioritySpec
CONSTANTS
  NumBlocks = 3
  BlockSize = 2
  Seqs <- MCSeqs
  Token <- MCToken
  Prompts <- MCPrompts
  MaxLen = 7
  EOS = 1
  Requests <- MCRequests
  MaxNumSeqs = 2
  MaxBatchedTokens = 2
  Levels <- MCLevels
  MaxFailedAdds = 1
INVARIANTS
  OwnPriority
CHECK_DEADLOCK FALSE
