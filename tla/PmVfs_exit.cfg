SPECIFICATION Spec
CONSTANTS
  PM = PM
  FS = FS
  MM = MM
  ANY = ANY
  NONE = NONE
  MaxCalls = 4
  Procs = {a,b}
  Born = {a,b}
  Calls = {"setid","exit"}
INVARIANTS
  FilesCleanedUp
CHECK_DEADLOCK FALSE
