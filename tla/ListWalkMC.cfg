SPECIFICATION PartsSpec
CONSTANTS
  w1 = w1
  w2 = w2
  Walkers = {w1, w2}
  MaxElements = 4
  MaxCallbacks = 3
  MaxErrors = 2
  MaxTasks = 2
  MaxNow = 3
CHECK_DEADLOCK FALSE
INVARIANTS
  VisitsRight
PROPERTIES
  VisitsOnce
  WorkIsDone
  FramesRight
  TasksInTime
  WalksTheList
