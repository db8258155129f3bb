SPECIFICATION Spec
CONSTANTS
  Procs = {p1, p2}
  NULL = NULL
  MaxPages = 1
  MaxQueue = 2
  VfsFails = TRUE
  Kills = FALSE
  Traced = {}
INVARIANT RetryNotSuspended
CHECK_DEADLOCK FALSE
