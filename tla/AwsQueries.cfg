CONSTANTS
  r1 = r1
  r2 = r2
  Requests = {r1, r2}
  Setups <- Both
  NDays = 120
  FirstOfMonth <- Calendar
  Ranges <- Dates
  MaxGroups = 2
  MaxConcurrent = 1
  ServiceLimit = 3
  MaxWindows = 3
  MaxOthers = 1
  NPages = 2
SPECIFICATION Spec
INVARIANTS
  TypeOK
  WindowsMeet
  OvershootIsBounded
  AnswerIsWhole
PROPERTY
  RequestsEnd
\* requests end
CHECK_DEADLOCK FALSE
