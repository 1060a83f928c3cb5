\* One line only, so a stale word is the only wrong answer there is.
SPECIFICATION IssueSpec
CONSTANTS
  Sets = 1
  Ways = 2
  Words = 2
  Tags = {1}
  Requests <- OneWordRequests
  MaxWrites = 2
INVARIANTS
  WriteInvalidate
