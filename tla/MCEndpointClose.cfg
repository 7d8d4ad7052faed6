SPECIFICATION FairSpec
CONSTANTS
  IdSpace = 2
  MaxBorn = 3
  Wrapped = FALSE
INVARIANTS
  EachListedIsShutDown
  NilLeavesNothingUp
PROPERTIES
  CloseEnds
