CONSTANTS
  Fan = 3
  PGSIZE = 2
  NPages = 17
  NPROC = 2
  NOFILE = 2
  NFILE = 3
  MaxSz = 8
  Programs <- SmallPrograms
  MaxArgs = 1
  MaxCalls = 5
SPECIFICATION Spec
INVARIANTS MemoryInv FileRefs
CHECK_DEADLOCK FALSE
