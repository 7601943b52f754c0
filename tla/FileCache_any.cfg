CONSTANTS
  Clients = {c1, c2}
  NPeriods = 2
  Requests <- AllRequests
  Modes = {"LOCAL", "GCS"}
  MaxAsks = 3
  MaxCrashes = 1
SPECIFICATION Spec
SYMMETRY Symmetry
INVARIANTS
  TypeOK
  AnswersAreRight
  CacheStaysSound
\* MaxAsks bounds the behaviours
CHECK_DEADLOCK FALSE
