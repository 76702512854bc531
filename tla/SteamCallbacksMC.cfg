\* A run whose iterators dangle is not followed any further.
CHECK_DEADLOCK FALSE
SPECIFICATION PartsSpec
CONSTANTS
  Threads = {t1, t2}
  MaxCalls = 3
  MaxCallbacks = 2
  Bodies <- MCBodies
  Length = 3
  Names <- MCNames
  Start = 10
  Size = 4
  Text <- MCText
  Strings <- MCStrings
SYMMETRY ThreadSymmetry
INVARIANTS
  ResultsReach
  MethodsFound
