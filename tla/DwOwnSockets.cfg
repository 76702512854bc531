SPECIFICATION Spec
CONSTANTS
  t1 = t1
  t2 = t2
  s1 = s1
  s2 = s2
  v1 = v1
  v2 = v2
  None = None
  Threads = {t1, t2}
  Sockets = {s1, s2}
  Functions <- AllFunctions
  Order <- OneServer
  Requests <- NoRequests
  MaxRequests <- NoneBusy
  MaxDatagrams = 1
SYMMETRY Symmetric
CONSTRAINT NoWorker
CHECK_DEADLOCK FALSE
INVARIANTS
  OwnSocketsKept
  SystemShadowed
