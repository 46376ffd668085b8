CONSTANTS
  N = 3
  BlockSize = 2
  Files = {f1, f2}
  MaxIndex = 2
  MaxCalls = 3
  MaxCrashes = 2
SPECIFICATION Spec
INVARIANTS
  TypeOK
  SyncedFilesSurvive
  AllocationExact
  ChainsApart
SYMMETRY Symmetric
CHECK_DEADLOCK FALSE
