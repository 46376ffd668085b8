SPECIFICATION Spec
CONSTANTS
  Files = {f1, f2}
  Clusters = {c1, c2, c3, c4}
  Records = {r1, r2}
  r1 = r1
  r2 = r2
  r3 = r3
  ClusterSize = 3
  RecordSize <- MixedRecords
  MaxUnits = 9
  Extents <- Extents3
  Sizes <- Sizes3
  MaxCalls = 3
  TurboFat = TRUE
  EOF = EOF
  None = None
SYMMETRY Symmetric
CHECK_DEADLOCK FALSE
INVARIANTS
  TypeOK
  ClustersInOneChain
  
  IndexesRise
  ReadsLastWrite
