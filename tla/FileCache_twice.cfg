CONSTANTS
  Clients = {c1}
  NPeriods = 2
  Requests <- Ranges
  Modes = {"LOCAL"}
  MaxAsks = 2
  MaxCrashes = 0
SPECIFICATION Spec
INVARIANT EveryAnswerIsExact
\* MaxAsks bounds the behaviours
CHECK_DEADLOCK FALSE
