CONSTANTS
  Caches <- MCOneCache
  NumLayers = 2
  BlockSize = 2
  NumBlocks = 2
  Contents <- MCByForward
  Batches <- MCBatches
  Shareable = {}
  MaxShares = 0
  AnyRollback = TRUE
SPECIFICATION MirrorSpec
INVARIANT MirrorsSimple
