SPECIFICATION Spec
CONSTANTS
  Numeral <- MCNumeral
  Lower <- MCLower
  Trim <- MCTrim
  Occurs <- MCOccurs
  Perform <- MCPerform
  Home <- MCHome
  Reach <- MCReach
  Start <- MCStart
  Program <- Programs
  Fate <- MCFate
  Registry <- MCRegistry
  CommonParams <- MCCommon
  InitPid = 1
  SubjectUser = "student"
  LessonNamespace = "root"
  MaxChanges = 2
  Families = {"file", "process", "system", "package", "account", "network", "script", "odd"}
INVARIANTS
  TypeOK
  PassWitnessed
  OpposedNeedsChange
  UnknownNeverCompletes
  FeedbackFits
  NarrowedToBlock
