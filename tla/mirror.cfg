CONSTANTS
  N = 2
  Blocks = 2
  SectionSize = 1
  MaxWrites = 2
  MaxFailures = 1
  MaxCrashes = 1
SPECIFICATION FairSpec
INVARIANTS
  TypeOK
  
  MembersAgree
  
PROPERTIES
  RemirrorEnds
CHECK_DEADLOCK FALSE
