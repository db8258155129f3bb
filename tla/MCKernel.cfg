SPECIFICATION KernelSpec
CONSTANTS
  p1 = p1
  p2 = p2
  p3 = p3
  NONE = NONE
  ANY = ANY
  Lines <- TwoLines
  Edge <- EdgeLine
  Hooks <- ThreeHooks
  LineOf <- LineOfHook
  DriverOf <- DriverOfHook
  Reenable <- ByPolicy
  Devices <- FourDevices
  HookOf <- HookOfDevice
  MayStop <- Stopping
INVARIANTS
  WellFormed
  
  NotForgotten
  AnswerIsFresh
  CpusGoOn
  MasksExact
  
PROPERTIES
  RunsWithoutSignals
  
CHECK_DEADLOCK FALSE
