SPECIFICATION CursorSpec
CONSTANTS
  r1 = r1
  writer = writer
  Keys = {1, 2, 3, 4, 5}
  Vals = {"v"}
  NoVal = NoVal
  KeyLen <- ShortKeys
  ValLen <- ShortVals
  Room = 6
  Puts <- AllPuts
  Readers = {r1}
  NoSnap = NoSnap
  WriteMap = TRUE
  MaxTxns = 1
  MaxCalls = 3
  MaxDelHeight = 2
  Writer = writer
  Levels = 3
  Preloads <- BothOrders
  Value = "v"
  Clients <- Pruning
INVARIANT
  WriterSkipsNothing
CHECK_DEADLOCK FALSE
