SPECIFICATION Spec
CONSTANTS
  MaxVars = 3
  MaxBorrows = 2
INVARIANTS
  TypeOK
  ExclusiveBorrow
  CountsMatchRegions
  BorrowedIsOwned
  UniqueOwner
  MovedChainEnds
PROPERTIES
  BorrowPinsState
  ImplementsDiscipline
