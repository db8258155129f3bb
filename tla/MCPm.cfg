SPECIFICATION PmSpec
CONSTANTS
  p1 = p1
  p2 = p2
  p3 = p3
  PM = PM
  FS = FS
  MM = MM
  ANY = ANY
  NONE = NONE
INVARIANTS
  
  NoSleepBesideEvent
  MaskRestored
PROPERTIES
  DoneAtOnce
CHECK_DEADLOCK FALSE
