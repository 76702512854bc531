\* The search of an import table may go on for ever, and the other parts stop.
CHECK_DEADLOCK FALSE
SPECIFICATION PartsSpec
CONSTANTS
  Flags <- MCFlags
  Variants <- MCVariants
  MaxArgs = 2
  MaxCalls = 2
INVARIANTS
  MenuDecides
  PatchedRight
PROPERTIES
  LoadedRight
  SteamIsTold
