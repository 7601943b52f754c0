SPECIFICATION Spec
CONSTANTS
  Providers = {1, 2, 3}
  Names <- MCNames
  a1 = a1
  a2 = a2
  a3 = a3
  s1 = s1
  s2 = s2
  s3 = s3
  r1 = r1
  r2 = r2
  r3 = r3
  t1 = t1
  t2 = t2
  Null = Null
  Blank = Blank
  Unknown = Unknown
  All = All
  None = None
  DataSets <- MCDataSets
  TimeFrames = {1, 36}
  MaxAge = 2
INVARIANTS
  TypeOK
  SelectionsAgree
  ShownIsSelected
PROPERTIES
  ClickIsLocal
