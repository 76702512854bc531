\* A call whose clean-up reads above its stack is not followed any further.
CHECK_DEADLOCK FALSE
SPECIFICATION PartsSpec
CONSTANTS
  s1 = s1
  s2 = s2
  s3 = s3
  Ids = {1, 2}
  Slots = {s1, s2, s3}
  MaxRefs = 2
  MaxBorn = 2
  StackSize = 5
  MaxArgs = 5
  MaxDepth = 2
SYMMETRY SlotSymmetry
INVARIANTS
  CountsMatch
  SameObject
  ReferencesGivenBack
  CallsNest
