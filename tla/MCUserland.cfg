CONSTANTS
  MAXARGS = 3
  NPROC = 7
  NOFILE = 5
  PIPESIZE = 1
  Lines <- MCLines
  Programs <- MCPrograms
  MaxLines = 2
  MaxBytes = 1
  MaxFaults = 1
  MaxLen = 5
  HEAP = 8
  MINCORE = 3
  HDR = 2
  INT = 16
  Requests = {0, 1, 3, 9}
  MaxGaps = 1
  FDS = 6
  target = "t"
  MAXPATH = 8
  PATHBUF = 16
  NAMESIZE = 4
  StartLen = 1
  NameLen <- MCNameLen
  Dirs = {"d1", "d2", "d3", "d4", "d5"}
  root = "d1"
  Tree0 <- MCTree
  MaxChanges = 2
  BUF = 4
  Patterns <- MCPatterns
  Inputs <- MCInputs
SPECIFICATION MCSpec
INVARIANTS JobsInOrder Wired ParserInv HeapInv FindComplete PingBeforePong GrepExact
PROPERTIES PromptReturns PingpongEnds FailsOnlyWhenFull
CHECK_DEADLOCK FALSE
