SPECIFICATION Spec
CONSTANTS
  Task = {t1, t2}
  Part = {kernel}
  Bundled = {"good", "wrong"}
  Faults = {"crash", "io", "quarantine"}
  MaxMishaps = 1
SYMMETRY TaskSymmetry
INVARIANTS TypeOK QuickCheckSound
CHECK_DEADLOCK FALSE
