\* What must happen in the end; no disk errors.
SPECIFICATION FairSpec
CONSTANTS
  b1 = b1
  b2 = b2
  k1 = k1
  k2 = k2
  k3 = k3
  u1 = u1
  u2 = u2
  Buffers = {b1, b2}
  Blocks = {k1, k2}
  Users = {u1, u2}
  NoBlock = NoBlock
  NoBuffer = NoBuffer
  Following <- ReadAheadOn
  Mirrors = 1
  Calls = {"read", "update", "overwrite"}
  MaxOps = 2
  ReadErrors = FALSE
  WriteErrors = FALSE
PROPERTIES
  
  ReadLRUReturns
  
