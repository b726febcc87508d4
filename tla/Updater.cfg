SPECIFICATION Spec
CONSTANTS
  Run = {r1, r2, r3}
  MaxRelease = 1
SYMMETRY RunSymmetry
INVARIANTS OutcomeTrue OriginalSurvives NothingLeft
CHECK_DEADLOCK FALSE
