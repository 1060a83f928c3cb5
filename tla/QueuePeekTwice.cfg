\* The size of one message asked for twice on the stream side.
SPECIFICATION CallerSpec
CONSTANTS
  Q = 4
  Messages <- OneWord
  Traffic <- OneOut
PROPERTIES
  PeekedIsRead
