\* Two tasks on two directories; an entry has two records and blocks hold three.
SPECIFICATION Spec
CONSTANTS
  Tasks = {t1, t2}
  Names = {a, b}
  NameSpaceCount = 2
  DirsPerBlock = 3
  BlocksPerCluster = 1
  MaxBlocks = 4
  MaxCalls = 3
  MaxErrors = 1
  FREE_NODE = FREE_NODE
SYMMETRY Symmetric
INVARIANTS
  TypeOK
  RecordsAccounted
  BlocksOneOwner
  MountRebuilds
  RenameKeepsFile
CHECK_DEADLOCK FALSE
