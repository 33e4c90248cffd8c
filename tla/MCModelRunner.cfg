SPECIFICATION RunnerSpec
CONSTANTS
  WorldSize = 3
  NumHeads = 12
  NumKVHeads = 6
  HeadDim = 2
  IntermediateSize = 6
  VocabSize = 6
  Checkpoints <- MCCheckpoints
  MaxNumSeqs = 4
  Batches <- MCBatches
  MaxCalls = 2
INVARIANTS
  RunnerTypeOK
  HeadsGrouped
  FeaturesMeetColumns
  VocabularyInOrder
  RanksInStep
  OpenedWhileThere
  ReplayIsEager
PROPERTIES
  CallsReturn
CHECK_DEADLOCK FALSE
