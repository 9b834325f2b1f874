SPECIFICATION FairSpec
CONSTANTS
  MaxTasks = 4
  Quantum = 2
  PitMaxMs = 3
  U32 = 4
  Priorities <- MCPriorities
  SleepMs <- MCSleepMs
INVARIANTS
  
  TimerCovers
  ScanIsRoundRobin
PROPERTIES
  BestPriorityNext
  ReadyTaskRuns
  SleeperWakes
