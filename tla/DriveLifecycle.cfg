SPECIFICATION Spec
CONSTANTS
  u1 = u1
  d1 = d1
  r1 = r1
  r2 = r2
  k1 = k1
  Dir = {u1}
  Drive = {d1}
  DirOf <- MCDirOf
  Request = {r1, r2}
  Keeper = {k1}
  Calls = {"copy", "backup", "rotate"}
INVARIANTS HandleOpenInUse DirectoryReleased
PROPERTIES ClosedForGood CallsEnd
