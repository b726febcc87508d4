SPECIFICATION Spec
CONSTANTS
  Path <- MCPath
  Id = {1, 2}
  NoUuid = 0
  AnyTarget = AnyTarget
  u = u
  v = v
  Content = {u, v}
  Size <- MCSize
  Dir = Dir
  Torn = Torn
  Archives <- MCArchives
  Trimmed <- MCKept
  Stray = {}
  InterruptPurge = TRUE
INVARIANT
  ReopenSucceeds
