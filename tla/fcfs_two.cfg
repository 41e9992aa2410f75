\* Two processes of every kind and up to two kills.
SPECIFICATION Spec
CONSTANTS
  NoProcess = NoProcess
  Pids = {1, 2}
  BurstTimes = {0, 1, 2}
  IoStartTimes = {1, 2}
  IoDurations = {0, 1, 2}
  KillTimes = {0, 2, 3}
  MaxProcesses = 2
  MaxKills = 2
  DistinctPids = TRUE
  MemoryFails = TRUE
CHECK_DEADLOCK FALSE
INVARIANTS CpuExact WorkConserving
PROPERTIES IoTakesItsTime ImplementsLifecycle
