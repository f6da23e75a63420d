CONSTANTS
  Readers = {r1}
  Writers = {w1, w2}
  Bytes = {0, 1}
  PIPESIZE = 2
  UINT = 4
  MaxN = 3
SPECIFICATION FairSpec
INVARIANT PipeInv
PROPERTIES EofOnlyAfterClose PipeIsByteStream ClosedEndReleases
CHECK_DEADLOCK FALSE
