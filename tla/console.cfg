SPECIFICATION FairSpec
CONSTANTS
  Session = {s1, s2}
  MayStart = {s1}
  MayStop = {s1, s2}
  Key = {k1, k2}
  Whpx = TRUE
  Faults = {"hang", "die", "late"}
  MaxRuns = 2
INVARIANTS TypeOK KeyStaysHome ReadyIsAttached
PROPERTIES CommandsReturn
