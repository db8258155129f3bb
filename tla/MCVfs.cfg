SPECIFICATION VfsSpec
CONSTANTS
  p1 = p1
  p2 = p2
  p3 = p3
  p4 = p4
  f1 = f1
  f2 = f2
  d1 = d1
  NONE = NONE
INVARIANTS
  WellFormed
  CallHeldOnce
  NoSleeperBesideData
  StreamExact
  
  
  DataKept
CHECK_DEADLOCK FALSE
