SPECIFICATION Spec
CONSTANTS
  n1 = n1
  n2 = n2
  r1 = r1
  NoName = NoName
  Names = {n1, n2}
  Readers = {r1}
  NumHandles = 2
  MaxUpdates = 1
  MaxCloses = 1
  ForeignCommits = TRUE
SYMMETRY NamesAreAlike
INVARIANTS
  TypeOK
  OneHandlePerName
  
  OnlyCommittedUpdatesVisible
  BegunTreesAreMapped
