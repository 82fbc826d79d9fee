SPECIFICATION Spec
CONSTANTS
  t1 = t1
  t2 = t2
  Txns = {t1, t2}
  Unused = Unused
  InitBuckets = 4
  WordBits = 2
  SegmentCap = 3
  IndexMod = 8
  FirstPages = 3
  MaxMapped = 6
  MaxTxns = 2
  MaxCalls = 5
SYMMETRY Symmetry
INVARIANTS
  TypeOK
  PagesOwnTheirData
  LookupIsLatest
  CommitWritesEveryPage
  FreeSlotsAreFound
CHECK_DEADLOCK FALSE
