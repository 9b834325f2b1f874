SPECIFICATION Spec
CONSTANTS
  MaxTasks = 4
  MaxChildren = 2
  PidMod = 16
  MaxCreated = 3
  MaxSent = 1
  Calls <- AllCalls
CHECK_DEADLOCK FALSE
INVARIANTS
  NeverPanics
  OneRunner
  
 
