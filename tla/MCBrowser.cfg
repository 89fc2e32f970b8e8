SPECIFICATION Spec
CONSTANTS
  c1 = c1
  c2 = c2
  c3 = c3
  Calls = {c1, c2, c3}
  MaxLaunches = 3
  MaxAsks = 2
  Budget <- MCBudget
SYMMETRY MCSymmetry
INVARIANTS OneKnown SecretInItsField
PROPERTIES WheelRespected
CHECK_DEADLOCK FALSE
