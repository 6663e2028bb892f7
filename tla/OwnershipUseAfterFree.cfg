SPECIFICATION Spec
CONSTANTS
  MaxVars = 2
  MaxBorrows = 1
INVARIANTS
  VerifiedMeansNoUseAfterFree
