SPECIFICATION AsyncSpec
CONSTANTS
  Requests <- MCRequests
  MaxTokens <- MCMaxTokens
  MaxQueueDepth = 1
  MaxNumSeqs = 1
  MaxFailures = 1
INVARIANTS
  AsyncTypeOK
  RoutedToOwner
  NothingSkipped
  EndedComplete
  BacklogBounded
  MapHoldsLive
PROPERTIES
  StreamsClose
CHECK_DEADLOCK FALSE
