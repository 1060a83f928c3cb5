\* Pages of two bytes, the handler between any two statements of the main loop.
SPECIFICATION UartFairSpec
CONSTANTS
  PageSize = 2
  FifoSize = 2
  Chunk = 1
  Sizes = {1, 3}
  MostTx = 6
  MostRx = 6
  Most = 6
CHECK_DEADLOCK FALSE
INVARIANTS
  TxInOrder
  RxInOrder
  PagesInOrder
  FlagTellsTruth
PROPERTIES
  TxDrains
