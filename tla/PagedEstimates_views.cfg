CONSTANTS
  Clients = {c1, c2}
  NPeriods = 2
  NProviders = 2
  Limit = 2
  MaxFaults = 1
  MaxViews = 2
  Requests <- Views
SPECIFICATION FairSpec
INVARIANTS
  TypeOK
  EachEstimateOnce
  ViewIsComplete
PROPERTY ViewsEnd
\* MaxViews bounds the behaviours
CHECK_DEADLOCK FALSE
