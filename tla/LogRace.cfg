CONSTANTS
  Procs = {p1, p2}
  Sectors = {s1, s2}
  Values = {v1, v2}
  MAXOPBLOCKS = 1
  LOGSIZE = 3
  NLOG = 3
  Preemptible = TRUE
SPECIFICATION Spec
INVARIANT PinnedIsLogged
