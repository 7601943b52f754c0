CONSTANTS
  ReportedRows <- MCRows
  Services = {"s1", "s2"}
  MaxRows = 2
  MaxRequests = 2
SPECIFICATION RowsSpec
INVARIANTS
  RowsTypeOK
  SumsServeAll
  AnswerIsWhole
\* MaxRequests bounds the behaviours
CHECK_DEADLOCK FALSE
