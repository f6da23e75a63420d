CONSTANTS
  Procs = {p1, p2, p3, p4}
  NUM = 8
  UINT16 = 16
  CacheProcs = {u1, u2}
  Nil = Nil
  Blocks = {k1, k2, k3, k4, k5}
  Indirect = k1
  Bitmap = k2
  Nested <- MCNested
  Deep = {u1}
  NBUF = 4
  MaxPinned = 1
  Values = 2
SPECIFICATION MCSpec
VIEW LiveState
INVARIANT CompletionsSeen
CHECK_DEADLOCK FALSE
