SPECIFICATION Spec
CONSTANTS
  MaxTasks = 3
  MaxChildren = 2
  PidMod = 16
  MaxCreated = 3
  MaxSent = 1
  Calls <- Family
INVARIANT NoLostWakeup
