SPECIFICATION Spec
CONSTANTS
  Path <- MCUntrimmed
  Id = {1, 2, 3}
  NoUuid = 0
  AnyTarget = AnyTarget
  u = u
  v = v
  Content = {u, v}
  Size <- MCSize
  Dir = Dir
  Torn = Torn
  Archives <- MCArchives
  Trimmed <- MCTrimmed
  Stray = {"b"}
  InterruptPurge = FALSE
CONSTRAINT TwoNames
SYMMETRY MCContentSymmetry
INVARIANTS
  MemoryMatchesDisk
  ReopenSucceeds
  NothingOverwritten
  NoLeftovers
PROPERTY
  Contract
