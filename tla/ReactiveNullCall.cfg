SPECIFICATION Spec
CONSTANTS
  x = x
  y = y
  d1 = d1
  e1 = e1
  d2 = d2
  e2 = e2
  w1 = w1
  Nowhere = Nowhere
  State <- MCVariable
  Derived = {}
  Effect <- MCFunction
  When = {}
  Created <- MCModuleCreated
  Reads <- MCFunctionReads
  Writes <- MCFunctionWrites
  Resets = {}
  Once = {}
  UserData <- MCFunction
  Disposable <- MCFunction
  BatchSize = 16
  MaxChanges = 2
INVARIANTS
  OnlyConditionsAreCalled
CHECK_DEADLOCK FALSE
