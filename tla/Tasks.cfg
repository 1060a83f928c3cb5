\* Three tasks on the cooperative scheduler.
SPECIFICATION TaskSpec
CONSTANTS
  Workers = {a, b, c}
  main = main
  null = null
  Bodies <- EnoughForAll
  MaxPut = 2
  Looks = 2
CHECK_DEADLOCK FALSE
INVARIANTS
  TaskTypeOK
  ListsSound
  WorkDone
PROPERTIES
  RunsInTurn
  SemaphoreServes
  RunReturns
