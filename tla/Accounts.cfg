SPECIFICATION MCSpec
CONSTANTS
  Id = {root, i1, i2}
  Root = root
  ann = ann
  Ann = Ann
  bob = bob
  Spelling <- MCSpelling
  Normalize <- MCNormalize
  Password = {p, q}
  Changes <- MCChanges
  Call = {c1, c2}
  MaxVersion = 1
  MaxTokens = 1
  Play = {"accounts", "audit"}
  MaxEvents = 3
INVARIANTS
  PagesCoverLog
  NamesAgree
  SomeAdminStays
  TokenOfCurrentPassword
PROPERTY
  RevokedStaysRevoked
SYMMETRY Symmetric
