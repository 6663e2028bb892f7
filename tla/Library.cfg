SPECIFICATION Spec
CONSTANTS
  key1 = key1
  key2 = key2
  key3 = key3
  Blank = Blank
INVARIANTS
  TypeOK
  ListsAreSound
  NothingFreedIsUsed
  DescriptorsAreOwned
  CountsAreRight
  NothingStaleIsUsed
  NothingIsLost
  LimitsAreKept
PROPERTIES
  StepsKeepPromises
CHECK_DEADLOCK FALSE
