CONSTANTS
  NCPU = 2
  NPROC = 2
  MaxN = 1
  MaxKilled = 1
SPECIFICATION Spec
INVARIANTS HartsInv NoPanic OneStack
