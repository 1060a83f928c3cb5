\* Two threads send through one driver with uth locks.
SPECIFICATION SendersSpec
CONSTANTS
  Q = 4
  Messages <- Two
  Traffic <- ThreeOut
INVARIANTS
  MessagesWhole
