SPECIFICATION Spec
CONSTANTS
  p1 = p1
  p2 = p2
  t1 = t1
  t2 = t2
  t3 = t3
  NoPid = NoPid
  Procs = {p1, p2}
  Threads = {t1, t2, t3}
  Home <- HomeTwoAndOne
  Checkers = {p1}
  KilledAt <- NotMidRelease
  NumSlots = 2
  MaxTxnid = 1
INVARIANTS
  TypeOK
  SlotHasOneOwner
  LiveReaderIsRegistered
  FreelistIsBounded
  NoSlotIsLost
  CheckClearsOnlyStale
CHECK_DEADLOCK FALSE
