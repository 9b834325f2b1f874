SPECIFICATION Spec
CONSTANTS
  PageSize = 4
  PdeSize = 64
  MaxRef = 255
  Kernel = 0
  Taskbar = 9
  Tasks <- MCTasks
  Tables <- MCTables
  StackPages <- MCStackPages
  ElfPages <- MCElfPages
  Layouts <- MCLayouts
  Images <- MCImages
  StoredTo <- MCStoredTo
  MaxOps = 3
  WriteProtect = TRUE
INVARIANTS
  
  FreeIsFree
  NoLeak
  SignalStays
 
CHECK_DEADLOCK FALSE
