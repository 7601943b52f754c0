\* Projects are independent but for the totals, which two of them change.
CONSTANTS
  NProjects = 2
  Zones <- MCZones
  ProjectOf <- MCProjectOf
  ChunkSize = 1
  NRecommenders = 2
  Recs <- MCRecs
  Services <- MCServices
  MaxRefusals = 2
SPECIFICATION Spec
INVARIANTS
  TypeOK
  AnswerIsSound
PROPERTIES
  AlwaysEnds
CHECK_DEADLOCK FALSE
