SPECIFICATION FairSpec
CONSTANTS
  Nobody = Nobody
  p1 = p1
  p2 = p2
  c1 = c1
  c2 = c2
  closer = closer
  Thread <- MCEnd
  Programs <- MCEndPrograms
  Capacity = 1
  CountModulus = 16
  MaxSends = 0
  MaxSpurious = 0
PROPERTIES
  CloseWakesWaiters
CHECK_DEADLOCK FALSE
