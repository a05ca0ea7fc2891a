CONSTANTS
  c1 = c1
  c2 = c2
  Caches = {c1, c2}
  NumLayers = 2
  BlockSize = 2
  NumBlocks = 2
  Contents <- MCByCache
  Batches <- MCBatches
  Shareable = {0}
  MaxShares = 1
  AnyRollback = FALSE
SPECIFICATION Spec
SYMMETRY MCSymmetry
INVARIANTS
  PoolExact
  NoAliasing
PROPERTIES
  ImplementsContract
