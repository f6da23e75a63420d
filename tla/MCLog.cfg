CONSTANTS
  Procs = {p1, p2}
  Blocks = {b1, b2, b3}
  Values = {v0, v1}
  Zero = v0
  NoData = NoData
  NoBlock = NoBlock
  MAXOPBLOCKS = 4
  LOGSIZE = 8
  NLog = 8
  OpBlocks = 2
SPECIFICATION SoundSpec
SYMMETRY Interchangeable
INVARIANT DataInv
PROPERTY CrashAtomic
