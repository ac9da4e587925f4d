SPECIFICATION Spec
CONSTANTS
  Caller = {c1, c2}
  Path = {reset, n1}
  ResetPath = reset
  MaxWork = 1
  Faults = {"crash", "kill", "copy", "store"}
  MaxMishaps = 1
SYMMETRY CallerSymmetry
INVARIANTS TypeOK RowHoldsItsCopy OneStepBack
