CONSTANTS
  TokenBytes <- MCTokenBytes
  Special = {6, 8}
  EosIds = {6}
  StopTokenIds = {7}
  StopLists <- MCStopLists
  Limits = {1, 4}
  Prompts <- MCPrompts
  Capacity = 6
  MaxCalls = 2
SPECIFICATION Spec
INVARIANTS
  StreamingIsBatch
  StopsHonoured
  ForwardsInPlace
CHECK_DEADLOCK FALSE
