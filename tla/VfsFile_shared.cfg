SPECIFICATION Spec
CONSTANTS
  Procs = {p1, p2}
  Born = {p1}
  Fds = {1, 2}
  NR_FILE_DESC = 2
  Pins = {1, 2}
  Inodes = {1}
  Devices = {}
  Threads = {p2}
  Calls = {"read", "close"}
  MaxReads = 1
  MaxLookups = 2
INVARIANT FdUnused
CHECK_DEADLOCK FALSE
