CONSTANTS
  NDIRECT = 1
  NINDIRECT = 2
  SIZE = 18
  DATASTART = 2
  BSIZE = 2
  NINODES = 6
  NINODE = 5
  Names = {"a", "b", "d"}
  Procs = {p1, p2}
  NFILE = 2
  NOFILE = 2
  MaxChunk = 4
  Modes = {"open", "openw"}
  Opens <- MCOpens
  Creates <- MCCreates
  Dirs <- MCDirs
  Devs <- MCDevs
  Links <- MCLinks
  Unlinks <- MCUnlinks
  Chdirs <- MCChdirs
  Writes = {7}
  Sizes = {10}
  MaxCalls = 4
  p1 = p1
  p2 = p2
SYMMETRY Symmetry
SPECIFICATION Spec
INVARIANTS NoPanic RefsCounted NamesCounted BlocksOwned SleeperHasHolder
