SPECIFICATION Spec
CONSTANTS
  Seqs = {1, 2}
  Prompt <- MCPrompt
  VocabSize = 2
  NumLayers = 2
  MaxPos = 5
  Capacity = 4
  MaxNew = 2
  MaxFaults = 1
INVARIANTS OptimizedMatchesReference CacheIsHistory RowsMeetSequences
CHECK_DEADLOCK FALSE
