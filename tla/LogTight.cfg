CONSTANTS
  Procs = {p1, p2}
  Blocks = {b1, b2, b3, b4}
  Values = {v0}
  Zero = v0
  NoData = NoData
  NoBlock = NoBlock
  MAXOPBLOCKS = 2
  LOGSIZE = 4
  NLog = 5
  OpBlocks = 1
SPECIFICATION FairSpec
INVARIANT ControlInv
PROPERTY SleepersWake
