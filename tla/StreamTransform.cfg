\* Handlers that call back before they return, as those of this repository do,
\* and handlers that call back later, in any order, three at a time at most.
CONSTANTS
  NRows = 6
  Emits <- AllButThird
  Parallel = 3
  HWM = 2
SPECIFICATION StreamFairSpec
INVARIANTS
  StreamTypeOK
  WithinLimits
PROPERTIES
  RowStreamSpec
  Completes
CHECK_DEADLOCK FALSE
