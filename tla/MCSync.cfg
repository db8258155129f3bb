SPECIFICATION SyncSpec
CONSTANTS
  NrThreads = 3
  a = a
  b = b
  c = c
  d = d
INVARIANTS
  Exclusion
  OneQueue
  HandedOver
  LocksExclude
  NoLostWakeup
  NobodyEarly
PROPERTIES
  WakesOwnWord
  EveryCallReturns
CHECK_DEADLOCK FALSE
