CONSTANTS
  Procs = {"maker", "remover"}
  None = None
  NInodes = 4
  NINODE = 4
  Names = {"a", "b"}
  Calls <- SmallCalls
  MaxCalls = 4
  Images <- MCImages
SPECIFICATION FairSpec
INVARIANTS FsInv NoPanic
PROPERTIES RemovedEmpty CallsReturn
CHECK_DEADLOCK FALSE
