\* Three requests of two disks that share a queue.
SPECIFICATION FairSpec
CONSTANTS
  r1 = r1
  r2 = r2
  r3 = r3
  r4 = r4
  Requests = {r1, r2, r3}
  Null = Null
  Disks = {1, 9}
  Sectors = {32, 256, 4096}
INVARIANTS
  NothingLost
  ListsSound
PROPERTIES
  NoStarvation
