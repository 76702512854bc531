SPECIFICATION FairSpec
CONSTANTS
  t1 = t1
  t2 = t2
  s1 = s1
  s2 = s2
  v1 = v1
  v2 = v2
  None = None
  Threads = {t1, t2}
  Sockets = {s1}
  Functions <- StreamFunctions
  Order <- TwoServers
  Requests <- AllRequests
  MaxRequests <- OneBusy
  MaxDatagrams = 0
CHECK_DEADLOCK FALSE
INVARIANTS
  ClearedAfterJoin
PROPERTIES
  BlockedRecvReturns
  JoinEnds
  JoinHangs
