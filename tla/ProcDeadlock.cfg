CONSTANTS
  NPROC = 4
  NCPU = 2
  MaxPid = 5
  KillPids = {}
SPECIFICATION Spec
CONSTRAINT LastStaysUser
INVARIANT NoDeadlock
CHECK_DEADLOCK FALSE
