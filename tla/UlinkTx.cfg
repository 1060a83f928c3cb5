\* The same, bytes going out only, and nothing is asked about where the handler may come.
SPECIFICATION UartSpec
CONSTANTS
  PageSize = 2
  FifoSize = 2
  Chunk = 1
  Sizes = {1, 3}
  MostTx = 6
  MostRx = 0
  Most = 6
CHECK_DEADLOCK FALSE
INVARIANT PageFinished
