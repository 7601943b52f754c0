SPECIFICATION QueueFairSpec
CONSTANTS
  Workers = {w1, w2}
  Messages = {m1, m2}
  MaxFiles = 2
  MaxDeliveries = 2
  None = None
INVARIANTS
  QueueTypeOK
  DestinationIsSound
  OneReportPerProcess
PROPERTY EveryJobEnds
