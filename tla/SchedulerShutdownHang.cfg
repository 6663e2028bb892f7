SPECIFICATION FairSpec
CONSTANTS
  NumWorkers = 2
  NumTasks = 1
  Var = {1, 2}
  Accesses <- OneTask
  CreateMayFail = TRUE
  MaxExecutes = 1
  MaxSpurious = 0
PROPERTIES
  WorkersEnd
CHECK_DEADLOCK FALSE
