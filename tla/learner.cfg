SPECIFICATION Spec
CONSTANTS
  Lesson = {l1}
  NTasks = 2
  HintCount = 1
  Prerequisite = {}
  HidesHints = {}
  Modes = {"GuidedPath", "Assessment"}
  Call = {c1, c2}
  MaxOpens = 2
  Faults = {"crash", "agent", "store", "environment"}
  MaxMishaps = 1
SYMMETRY CallSymmetry
INVARIANTS TypeOK ShownCompleteIsStored CompletionIsNotLost StatusFollowsMastery
PROPERTY MasteryOnlyImproves
CHECK_DEADLOCK FALSE
