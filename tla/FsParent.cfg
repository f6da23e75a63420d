CONSTANTS
  Procs = {p1}
  None = None
  NInodes = 4
  NINODE = 4
  Names = {"a", "b"}
  Calls <- ParentCalls
  MaxCalls = 7
  Images <- MCImages
SPECIFICATION Spec
INVARIANT IlockFindsType
CHECK_DEADLOCK FALSE
