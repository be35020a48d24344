CONSTANTS
  SCREEN_WIDTH = 4
  SCREEN_HEIGHT = 4
  Desktop = desktop
  explorer = explorer
  dialog = dialog
  NULL = NULL
  Windows <- MCWindows
  owner <- MCOwner
  Frame <- MCFrame
  Widgets <- MCWidgets
  ICON = 2
  MOUSE_WIDTH = 2
  MOUSE_HEIGHT = 4
  Motions <- MCMotions
SPECIFICATION Spec
VIEW View
INVARIANTS Composed PointerClean IconsRestored
