CONSTANTS
  BlockSize = 2
  MaxNumSeqs = 2
  MaxBatchedTokens = 8
  NumBlocks = 3
  MaxModelLen = 4
  MaxRequests = 2
  \* Empty, short, and one longer than the token budget and the pool can take.
  PromptLens = {0, 1, 2, 7}
  TokenLimits = {0, 1, 3}
  MaxCancels = 1
  MaxExternal = 1
  Faults = TRUE
SPECIFICATION Spec
INVARIANTS
  TypeOK
  QueuesPartitionLive
  StreamsInOrder
  KvAligned
  OpenChannelsOwned
  BlocksOnlyWhileRunning
  CancelLatency
PROPERTIES
  LegalTransitions
  ImplementsStreams
