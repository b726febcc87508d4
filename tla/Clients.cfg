SPECIFICATION MCSpec
CONSTANTS
  Path <- MCPath
  Id = {1, 2, 3}
  NoUuid = 0
  AnyTarget = AnyTarget
  x1 = x1
  x2 = x2
  Content = {x1, x2}
  Dir = Dir
  MaxEvents = 1
  t1 = t1
  t2 = t2
  c1 = c1
  c2 = c2
  b1 = b1
  Tool = {t1, t2}
  Subscriber = {t1, t2}
  Command = {c1, c2}
  Browser = {b1}
  Size <- MCSize
INVARIANTS ResultIsOwn RemovesNoDirectory ReportsTrue
PROPERTY ToolsReturn
CHECK_DEADLOCK FALSE
