SPECIFICATION FairSpec
CONSTANTS
  Nobody = Nobody
  p1 = p1
  p2 = p2
  c1 = c1
  c2 = c2
  closer = closer
  Thread <- MCThread
  Programs <- MCPrograms
  Capacity = 2
  CountModulus = 16
  MaxSends = 3
  MaxSpurious = 1
INVARIANTS
  TypeOK
  FirstInFirstOut
PROPERTIES
  ImplementsQueue
  SendReturns
  EverythingIsReceived
CHECK_DEADLOCK FALSE
