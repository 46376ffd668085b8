\* Reads and writes of the disk may fail, and so may their retries; one buffer that all callers want.
SPECIFICATION Spec
CONSTANTS
  b1 = b1
  b2 = b2
  k1 = k1
  k2 = k2
  k3 = k3
  u1 = u1
  u2 = u2
  Buffers = {b1}
  Blocks = {k1, k2}
  Users = {u1, u2}
  NoBlock = NoBlock
  NoBuffer = NoBuffer
  Following <- ReadAheadOn
  Mirrors = 1
  Calls = {"read", "update", "overwrite"}
  MaxOps = 3
  ReadErrors = TRUE
  WriteErrors = TRUE
SYMMETRY Symmetric
INVARIANTS
  TypeOK
  WaitersHaveLoad
