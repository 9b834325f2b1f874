SPECIFICATION Spec
CONSTANTS
  Tasks <- MCTasks
  Signals <- MCSignals
  SIGSEGV = 11
  MaxSent = 1
  MaxCalls = 1
INVARIANTS
  SavedIsUnder
  
CHECK_DEADLOCK FALSE
