CONSTANTS
  Procs = {p1, p2, p3}
  Sectors = {s1, s2}
  Values = {v1, v2}
  MAXOPBLOCKS = 2
  LOGSIZE = 4
  NLOG = 4
  Preemptible = FALSE
SPECIFICATION FairSpec
INVARIANTS SleeperHasOp
PROPERTIES AllOrNothing OpsEnd
