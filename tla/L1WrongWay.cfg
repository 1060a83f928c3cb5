SPECIFICATION Spec
CONSTANTS
  Sets = 1
  Ways = 2
  Words = 2
  Tags = {1, 2}
  Requests <- WrongWayRequests
  MaxWrites = 2
INVARIANTS
  ReadsOwnLocation
