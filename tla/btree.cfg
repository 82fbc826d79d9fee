SPECIFICATION Spec
CONSTANTS
  r1 = r1
  Keys = {1, 2, 3, 4, 5}
  Vals = {"small", "big", "huge"}
  NoVal = NoVal
  KeyLen <- ShortKeys
  ValLen <- Lengths
  Room = 6
  Puts <- SomeBigPuts
  Readers = {r1}
  NoSnap = NoSnap
  WriteMap = FALSE
  MaxTxns = 2
  MaxCalls = 5
  MaxDelHeight = 2
INVARIANTS
  TypeOK
  TreeHoldsTheMap
  CallsSucceed
  SnapshotTreesAreImmutable
  PagesAreUsedOnce
  ShapeIsCounted
CHECK_DEADLOCK FALSE
