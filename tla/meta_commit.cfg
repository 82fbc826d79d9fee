SPECIFICATION FairSpec
CONSTANTS
  p1 = p1
  p2 = p2
  r1 = r1
  NoProc = NoProc
  Procs = {p1}
  Readers = {r1}
  Home <- HomeP1
  WriteMapModes = {FALSE}
  SyncModes = {TRUE, FALSE}
  MaxAttempts = 3
  MaxUnsynced = 1
  MaxIOErrors = 1
INVARIANTS
  TypeOK
  FlushedCommitsSurvive
  BegunSnapshotIsCommitted
  ReaderSeesAcknowledged
PROPERTIES
  CommitEnds
  ImplementsCommitLog
