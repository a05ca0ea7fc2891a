SPECIFICATION AllocatorSpec
CONSTANTS
  Threads = {t1, t2}
  Addresses = {a1, a2, a3}
  Capacity = 32
  \* Of one class, of two powers of two, one past the large step, and one near the
  \* end of size_t, which only fits into an empty pool.
  Requests = {1, 2, 3, 9, 30}
  \* The table scaled down: classes 2, 4 and 8, then steps of 8, in a 5-bit size_t.
  MinClassBytes = 2
  LargeStepBytes = 8
  SizeMax = 31
INVARIANTS StatsExact BlocksSound
CHECK_DEADLOCK FALSE
