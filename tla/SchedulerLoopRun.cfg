CONSTANTS
  BlockSize = 2
  MaxNumSeqs = 3
  MaxBatchedTokens = 4
  Requests = {1, 2, 3, 4}
  MaxTokens = 3
  MaxFree = 3
SPECIFICATION Spec
INVARIANTS
  LoopMatchesPolicy
  BlocksAccounted
CHECK_DEADLOCK FALSE
