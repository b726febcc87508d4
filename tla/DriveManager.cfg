SPECIFICATION Spec
CONSTANTS
  User = {u1, u2}
  Request = {r1, r2}
  MaxDrives = 4
  IdleTimeout = 1
INVARIANTS
  DriveInUseStaysOpen
  NoDriveLeaks
  CloseNotForgotten
PROPERTIES
  GCTakesQuietOnly
  ShutdownCompletes
