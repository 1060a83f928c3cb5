\* One cached and one uncached word, both ports busy.
SPECIFICATION FairSpec
CONSTANTS
  Sets = 1
  Ways = 2
  Words = 2
  Tags = {1, 2}
  Requests <- FlagRequests
  MaxWrites = 2
INVARIANTS
  SequentiallyConsistent
PROPERTIES
  AccessServed
