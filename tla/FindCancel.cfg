CONSTANTS
  BlockSize = 2
  MaxNumSeqs = 2
  MaxBatchedTokens = 4
  NumBlocks = 2
  MaxModelLen = 4
  MaxRequests = 1
  PromptLens = {2}
  TokenLimits = {2, 3}
  MaxCancels = 1
  MaxExternal = 0
  Faults = FALSE
SPECIFICATION Spec
INVARIANTS
  NoTokenAfterCancel
