CONSTANTS
  Procs = {1, 2}
  None = None
  Typed = {"a", "cr", "eof", "erase", "kill"}
  INPUT_BUF = 3
  UART_TX_BUF_SIZE = 2
  UINT = 6
  First = 4
  Calls <- SmallCalls
  MaxTyped = 4
  MaxWritten = 2
  MaxKilled = 1
SPECIFICATION Spec
INVARIANT FullBufferBlocks
CHECK_DEADLOCK FALSE
