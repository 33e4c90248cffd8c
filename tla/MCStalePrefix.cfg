SPECIFICATION FailureSpec
CONSTANTS
  NumBlocks = 3
  BlockSize = 2
  Seqs <- MCSeqs
  Token <- MCToken
  Prompts <- MCPrompts
  MaxLen = 7
  EOS = 1
  Requests <- MCRequests
  MaxNumSeqs = 2
  MaxBatchedTokens = 3
  MaxFailures = 1
INVARIANTS
  LaterRequestsUnharmed
CHECK_DEADLOCK FALSE
