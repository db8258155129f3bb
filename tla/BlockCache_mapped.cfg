SPECIFICATION Spec
CONSTANTS
  Blocks = {1, 2}
  Bufs = {1}
  Pages = {1, 2, 3, 4, 5, 6}
  Mapped = {1}
  Written = {1}
  VmCache = TRUE
  ReadFaults = TRUE
  WriteFaults = FALSE
  MaxWrites = 2
  MaxHeld = 1
INVARIANT ReadThatBlock
CHECK_DEADLOCK FALSE
