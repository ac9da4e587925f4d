SPECIFICATION FairSpec
CONSTANTS
  Caller = {c1}
  Starter = starter
  Lesson = {l1}
  Permits = {}
  WithFixtures = {}
  WithNetwork = {}
  WithScript = {}
  Ops = {"validate", "reset", "resize", "inquire", "shutdown"}
  Faults = {"refuse", "cut", "torn", "handler", "agent", "die"}
  Skips = 2
  MaxPings = 2
  MaxRuns = 1
PROPERTIES CommandsReturn StopEndsMachine
CHECK_DEADLOCK FALSE
