SPECIFICATION Spec
CONSTANTS
  Caller = {c1, c2}
  Starter = starter
  Lesson = {l1, l2}
  Permits = {l1}
  WithFixtures = {l1}
  WithNetwork = {l1}
  WithScript = {l1}
  Ops = {"prepare", "shutdown"}
  Faults = {"torn", "handler", "reuse"}
  Skips = 2
  MaxPings = 1
  MaxRuns = 2
INVARIANTS TypeOK OwnReply AtMostTwice WorksForItsHost PreparedStands ReadyAnswered
CHECK_DEADLOCK FALSE
