SPECIFICATION Spec
CONSTANTS
  Lesson = {l1, l2}
  NTasks = 1
  HintCount = 1
  Prerequisite <- OnFirst
  HidesHints = {}
  Modes = {"GuidedPath"}
  Call = {c1}
  MaxOpens = 1
  Faults = {}
  MaxMishaps = 0
INVARIANT CompletionUnlocks
CHECK_DEADLOCK FALSE
