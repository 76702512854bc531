SPECIFICATION ShutdownSpec
CONSTANTS
  Modules = 3
  Threads = {main, worker}
  Main = main
  ConsoleModule = 2
  PipeSize = 2
  MaxTexts = 4
CHECK_DEADLOCK FALSE
INVARIANTS
  DestroyedBeforeDeleted
  UntoldOnlyUnderLoop
  NothingLost
PROPERTIES
  ShutdownEnds
