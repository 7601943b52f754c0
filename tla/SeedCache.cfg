CONSTANTS
  NDays = 15
  MonthStarts = {1, 6, 11}
  Groupings = {"day", "week", "month"}
  Modes = {"LOCAL", "MONGODB"}
  FirstDays = {14}
  Ranges <- Ordered
  Windows = {3, 7}
  MaxSessions = 2
SPECIFICATION SeedSpec
INVARIANTS
  SeedTypeOK
  EstimatesAreWhole
  SeededIsCached
\* MaxSessions and NDays bound the behaviours
CHECK_DEADLOCK FALSE
