SPECIFICATION Spec
CONSTANTS
  Lesson = {}
  FreePractice = free
  Whpx = TRUE
  Task = {t1, t2}
  Ops = {"start", "stop"}
  Faults = {"prepare", "job"}
  MaxStarts = 2
SYMMETRY TaskSymmetry
INVARIANTS OneVm PidFileNamesVm DownMeansNoVm TransitionalMeansInFlight
CHECK_DEADLOCK FALSE
