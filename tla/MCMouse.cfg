SPECIFICATION Spec
VIEW View
CONSTANTS
  BYTE = 2
  Movements <- MCMovements
  WRAP = 6
  DOUBLE_CLICK = 2
INVARIANTS Framed
PROPERTIES HandsOnAsSent DoubleClickHasFirstHalf ClickIsNoDrag
