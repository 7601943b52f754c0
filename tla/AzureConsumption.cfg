SPECIFICATION Spec
CONSTANTS
  Requests = {r1, r2}
  Subscriptions = {1, 2}
  Troubled = {r1}
  Rows <- MCRows
  Usages <- MCUsages
  Days = 3
  ChunkSizes = {0, 2, 3}
  GroupSizes = {0, 1}
  MaxRetries = 1
INVARIANTS TypeOK EachRowOnce GroupLimit AccumulatorIsSound
PROPERTY AlwaysAnswered
CHECK_DEADLOCK FALSE
