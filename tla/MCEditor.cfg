CONSTANTS
  MAX_STRING_NUM = 6
  Letters = {a}
  NL = NL
  NUL = NUL
  WIDTH = 39
  CHARACTER_WIDTH = 9
  Columns <- MCColumns
SPECIFICATION Spec
INVARIANTS BoxOK ArrowsMoveByLine 
PROPERTIES TypedIsShown
