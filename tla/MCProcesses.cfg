CONSTANTS
  NPROC = 6
  PIPESIZE = 1
  WRAP = 3
  MAXARGS = 3
  Words = {"echo", "cat", "f"}
  NFILE = 3
  NOFILE = 4
  NPIPE = 1
  BYTES = 3
  READ = 2
  Lines <- MCLines
  ParserTokens = {"echo", "|", ";", "&", "(", ")", ">"}
  MaxTokens = 5
  MaxLines = 1
  MaxStarts = 1
  MaxKills = 1
SPECIFICATION FairSpec
INVARIANTS SleepsForReason EndsCounted OutputInOrder NothingDropped
PROPERTIES PromptReturns InitKeepsUp
