CONSTANTS
  NPROC = 4
  NCPU = 2
  MaxPid = 5
  KillPids = {3}
SPECIFICATION Spec
CONSTRAINT LastStaysUser
INVARIANTS ProcInv OrderedLocks KilledNeverSleeps
PROPERTIES WaitFailsOnlyChildless
CHECK_DEADLOCK FALSE
