SPECIFICATION Spec
CONSTANTS
  Callers = {c1, c2}
  NumThreads = 2
  \* Nothing to do, the inline path, two chunks, and the five chunks whose fold
  \* carries an odd element twice.
  Sizes = {0, 2, 3, 9}
  Grains = {2}
  GenerationSpan = 2
  NoCaller = NoCaller
INVARIANTS RegionComplete RegionOwned
PROPERTIES RegionReturns DestructorJoins
CHECK_DEADLOCK FALSE
