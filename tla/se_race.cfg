SPECIFICATION FairSpec
CONSTANTS
  Convs = {c1, c2}
  Jobs = {j1, j2}
  None = None
  ScanLimit = 1
  MaxItems = 1
  MaxCrashes = 1
CHECK_DEADLOCK FALSE
INVARIANTS MinedOnce
PROPERTIES EndedIsTried IdleIsEnded
