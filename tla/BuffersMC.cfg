\* What was written has been read.
CHECK_DEADLOCK FALSE
SPECIFICATION PartsSpec
CONSTANTS
  Callers = {t1, t2}
  Addresses = {a1, a2, a3, a4}
  Buffers = 2
  Lengths <- MCLengths
  Nothing = Nothing
  Bytes <- MCBytes
  Words <- MCWords
  MaxOps = 3
  Sample <- MCSample
  Headers <- MCHeaders
  MaxObjects = 2
SYMMETRY PoolSymmetry
INVARIANTS
  RecentTextsStay
  PoolIsOwned
  WrittenIsRead
