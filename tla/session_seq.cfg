SPECIFICATION Spec
CONSTANTS
  Lesson = {l1}
  FreePractice = free
  Whpx = TRUE
  Task = {t1}
  Ops = {"start", "stop", "restartVm", "restartLesson", "restore", "factoryReset", "prepareLesson", "healthCheck"}
  Faults = {"prepare", "spawn", "disk", "crash"}
  MaxStarts = 2
INVARIANTS TypeOK IdleReadyConsistent TouchedDiskIsIdle RestartSetsUpAtHome
PROPERTIES LessonBootsClean
CHECK_DEADLOCK FALSE
