SPECIFICATION Spec
CONSTANTS
  t1 = t1
  t2 = t2
  t3 = t3
  Threads = {t1, t2, t3}
  Closers = {t3}
  Copiers = {t1}
  Nobody = Nobody
  CloseRaces = FALSE
  PeerGrows = FALSE
  FirstPages = 1
  MaxPages = 2
  MaxBegins = 3
INVARIANTS
  TypeOK
  BegunTxnIsMapped
  SnapshotIsMapped
  OneWriter
  NoMapIsLost
PROPERTIES
  EveryCallReturns
CHECK_DEADLOCK FALSE
