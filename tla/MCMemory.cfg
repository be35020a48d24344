CONSTANTS
  NPAGES = 13
  NPROC = 2
  PGSIZE = 2
  NPTENTRIES = 2
  NPDENTRIES = 3
  KTABLES = 1
  Texts <- MCTexts
  Amounts <- MCAmounts
  MAXCALLS = 6
SPECIFICATION Spec
INVARIANTS Accounted SizeIsMapped
