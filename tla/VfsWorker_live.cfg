SPECIFICATION LiveSpec
CONSTANTS
  Procs = {p1, p2}
  NrWorkers = 4
  Calls = {"dev", "wait"}
PROPERTIES
  CallsAnswered
