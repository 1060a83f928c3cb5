\* Lines that compete for the two ways of one set.
SPECIFICATION Spec
CONSTANTS
  Sets = 1
  Ways = 2
  Words = 2
  Tags = {1, 2, 3}
  Requests <- AliasRequests
  MaxWrites = 2
INVARIANTS
  TypeOK
  SnoopReady
  NoDuplicateLines
  TagPortsDisjoint
  LinesCurrent
