SPECIFICATION BMSpec
CONSTANTS
  NumBlocks = 3
  BlockSize = 2
  Seqs = {s1, s2, s3}
  Token <- MCToken
  Prompts <- MCPrompts
  MaxLen = 6
INVARIANTS
  BMTypeOK
  BlockAccounting
  TablesLabelled
  IndexSound
  AllocateFindsBlocks
PROPERTIES
  HeldLabelsStable
SYMMETRY MCSymmetry
CHECK_DEADLOCK FALSE
