\* The program may end.
CHECK_DEADLOCK FALSE
SPECIFICATION SidesSpec
CONSTANTS
  o1 = o1
  o2 = o2
  Names <- MCNames
  Entities = {o1, o2}
  MaxListeners = 3
  MaxDepth = 2
  a = a
  b = b
  readme = readme
  Files = {a, b, readme}
  Chai = {a, b}
  Heard = {"damage"}
  Hearers = {"player"}
  MaxFiles = 3
  MaxHeard = 2
  MaxNotified = 2
  MaxNested = 2
SYMMETRY Symmetry
INVARIANTS
  ScriptsHear
PROPERTIES
  DispatchIsRight
