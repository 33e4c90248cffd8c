SPECIFICATION ChunkedSpec
CONSTANTS
  NumBlocks = 3
  BlockSize = 2
  Seqs <- MCSeqs
  Token <- MCToken
  Prompts <- MCPrompts
  MaxLen = 7
  EOS = 1
  Requests <- MCRequests
  MaxNumSeqs = 3
  MaxBatchedTokens = 4
  MaxPrefillChunk = 2
  MinPrefillChunk = 2
INVARIANTS
  RaisesOnlyWithoutWork
CHECK_DEADLOCK FALSE
