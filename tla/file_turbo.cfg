SPECIFICATION Spec
CONSTANTS
  Files = {f1}
  Clusters = {c1, c2, c3}
  Records = {r1}
  r1 = r1
  r2 = r2
  r3 = r3
  ClusterSize = 3
  RecordSize <- OneUnitRecords
  MaxUnits = 9
  Extents <- Extents3
  Sizes <- Sizes3
  MaxCalls = 4
  TurboFat = TRUE
  EOF = EOF
  None = None
CHECK_DEADLOCK FALSE
INVARIANTS
  BeginsInTime
