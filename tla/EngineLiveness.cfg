CONSTANTS
  BlockSize = 2
  MaxNumSeqs = 3
  MaxBatchedTokens = 9
  NumBlocks = 3
  MaxModelLen = 9
  MaxRequests = 3
  \* One that fits, and one that fits the context but never the pool.
  PromptLens = {2, 7}
  TokenLimits = {3}
  MaxCancels = 0
  MaxExternal = 0
  Faults = FALSE
SPECIFICATION FairSpec
INVARIANTS
  NeverExhausted
  StepAdvances
PROPERTIES
  OldestKeepsRunning
  EveryRequestCloses
  StopClosesAll
