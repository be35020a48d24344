SPECIFICATION FairSpec
CONSTANTS
  NOFILE = 7
  STDIO = 3
  MaxClicks = 3
  Saved = {"s", "u"}
  Kind <- MCKind
  Image <- MCImage
INVARIANTS ShowsAll OpensWhatWasClicked
PROPERTIES CloseCloses
