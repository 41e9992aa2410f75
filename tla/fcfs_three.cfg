\* Up to three processes on two ids.
SPECIFICATION FairSpec
CONSTANTS
  NoProcess = NoProcess
  Pids = {1, 2}
  BurstTimes = {0, 2}
  IoStartTimes = {1}
  IoDurations = {0, 2}
  KillTimes = {1, 2}
  MaxProcesses = 3
  MaxKills = 1
  DistinctPids = FALSE
  MemoryFails = TRUE
CHECK_DEADLOCK FALSE
INVARIANTS OnePlace FirstComeFirstServed ReportComplete
PROPERTIES KillsHold Terminates
