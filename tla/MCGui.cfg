CONSTANTS
  MAX_WINDOW_NUM = 3
  Procs = {p1, p2}
  NULL = NULL
  SCREEN_WIDTH = 2
  SCREEN_HEIGHT = 2
  CAPTION_HEIGHT = 1
  DRAW_EVERY = 2
  Frames <- MCFrames
  Motions <- MCMotions
SPECIFICATION Spec
SYMMETRY Symmetry
VIEW View
INVARIANTS OnScreen TopInPlace
PROPERTIES ClickReachesTop MovesOnlyHeld
