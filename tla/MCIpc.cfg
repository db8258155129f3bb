SPECIFICATION IpcSpec
CONSTANTS
  N = 3
  MM = 3
  Bodies = {b1}
  Ints = {i1}
  BlockSenders = {1, 2}
  NbSenders = {3}
  AsyncSenders = {}
  Notifiers = {}
  Faulters = {1}
  Servers = {2, 3}
  Inhibited = {1}
  BadSend = {2}
  BadRecv = {1}
  MaxAsync = 1
INVARIANTS
  TypeOK
  QueueExact
  DeadlockIsWalk
  NoSendCycle
  NoOverwrite
  InterruptAnnounced
  FaultReported
  AsyncMarked
  NoMissedWakeup
PROPERTIES
  ServiceSpec
CHECK_DEADLOCK FALSE
