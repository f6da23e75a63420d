CONSTANTS
  Procs = {p1, p2}
  Blocks = {b1, b2, b3}
  Values = {v0}
  Zero = v0
  NoData = NoData
  NoBlock = NoBlock
  MAXOPBLOCKS = 1
  LOGSIZE = 3
  NLog = 3
  OpBlocks = 1
SPECIFICATION SoundSpec
SYMMETRY Interchangeable
INVARIANT NoPanic
