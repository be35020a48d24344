SPECIFICATION Spec
CONSTANTS
  MAX_WINDOW_NUM = 4
  Procs = {p1, p2}
  NoProc = NoProc
  windowQueue = windowQueue
  NULL = NULL
SYMMETRY Symmetry
INVARIANTS QueueOK ScreenFresh
PROPERTIES ImplementsZOrder
