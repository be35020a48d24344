CONSTANTS
  Procs = {p1, p2}
  NBUF = 2
  Sectors = {1, 2, 3}
  Values = {v1, v2}
  NoSector = 0
  None = none
  ReadOk = {TRUE}
  MAXPINS = 1
SPECIFICATION FairSpec
INVARIANTS SleeperHasWaker
PROPERTIES ImplementsStore IoReturns
