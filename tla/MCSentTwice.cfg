SPECIFICATION AsyncSpec
CONSTANTS
  Requests <- MCRequests
  MaxTokens <- MCMaxTokens
  MaxQueueDepth = 1
  MaxNumSeqs = 1
  MaxFailures = 1
INVARIANTS
  SentOnce
CHECK_DEADLOCK FALSE
