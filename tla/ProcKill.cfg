CONSTANTS
  NPROC = 3
  NCPU = 2
  MaxPid = 4
  KillPids = {0}
SPECIFICATION Spec
INVARIANT OnlyVictimsKilled
CHECK_DEADLOCK FALSE
