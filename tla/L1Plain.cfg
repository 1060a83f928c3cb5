\* Two sets, no aliasing lines.
SPECIFICATION Spec
CONSTANTS
  Sets = 2
  Ways = 2
  Words = 2
  Tags = {1, 2}
  Requests <- PlainRequests
  MaxWrites = 3
INVARIANTS
  SequentiallyConsistent
