SPECIFICATION MCSpec
CONSTANTS
  Play = {"namespace", "calls", "contents", "streams"}
  Path <- MCPath
  Id = {1, 2, 3}
  Blob = {11, 12, 13}
  NoUuid = 0
  AnyTarget = AnyTarget
  Call = {c1, c2}
  Reader = {r1}
  Ops = {"Create", "Write", "WriteComments", "Delete", "Mkdir", "Move", "Copy"}
  NChunk = 2
  ChunkSize = 2
  Length = 3
SYMMETRY CallSymmetry
INVARIANTS
  TypeOK
  MetaIndexed
  ContentPresent
  ReadConsistent
PROPERTIES
  NoCallLeaks
  ReplaceOnlyExpected
CHECK_DEADLOCK FALSE
