SPECIFICATION FairSpec
CONSTANTS
  Users <- FourTasks
  MaxWaiters = 4
  Units = 1
INVARIANTS
  UnitsConserved
  WaitersKnown
PROPERTIES
  WaiterEnters
