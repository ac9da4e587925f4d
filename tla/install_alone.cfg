SPECIFICATION FairSpec
CONSTANTS
  Task = {t1}
  Part = {kernel}
  Bundled = {"absent", "part", "good", "wrong"}
  Faults = {"crash", "io", "kill"}
  MaxMishaps = 2
PROPERTIES ActsAsSlot InstallSettles
CHECK_DEADLOCK FALSE
