CONSTANTS
  Procs = {1, 2}
  None = None
  Inodes = {1, 2}
  Files = {1, 2, 3}
  FileOf <- ThreeFiles
  NBlocks = 6
  BPB = 1
  BSIZE = 2
  NDIRECT = 1
  NINDIRECT = 2
  MAXOPBLOCKS = 6
  UINT = 16
  Calls <- SmallCalls
  MaxCalls = 3
SPECIFICATION Spec
INVARIANT UnreadableFails

CHECK_DEADLOCK FALSE
