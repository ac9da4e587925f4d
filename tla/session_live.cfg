SPECIFICATION FairSpec
CONSTANTS
  Lesson = {l1}
  FreePractice = free
  Whpx = TRUE
  Task = {t1, t2}
  Ops = {"restartLesson", "prepareLesson", "stop"}
  Faults = {"reap"}
  MaxStarts = 1
PROPERTIES CommandsReturn
CHECK_DEADLOCK FALSE
