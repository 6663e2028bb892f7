SPECIFICATION FairSpec
CONSTANTS
  NumWorkers = 2
  NumTasks = 3
  Var = {1, 2}
  Accesses <- ThreeTasks
  CreateMayFail = TRUE
  MaxExecutes = 2
  MaxSpurious = 1
INVARIANTS
  TypeOK
  TasksRunOnce
  ReturnsWhenIdle
  NoFalseConflict
PROPERTIES
  ExecuteTerminates
CHECK_DEADLOCK FALSE
