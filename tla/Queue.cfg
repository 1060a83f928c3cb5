\* Three messages in one direction, or both directions at once on one memory.
SPECIFICATION FairSpec
CONSTANTS
  Q = 4
  Messages <- AllMessages
  Traffic <- ShortExchanges
INVARIANTS
  QueueTypeOK
  PointersInOrder
PROPERTIES
  InboundFifo
  InboundArrives
  OutboundFifo
  OutboundArrives
  SendersReturn
