SPECIFICATION Spec
CONSTANTS
  None = None
  Junk = Junk
  Parts = {2}
  Units <- TwoUnits
  Launches <- MCLaunches
  MaxSessions = 3
INVARIANTS
  TornOnlyAtTheEnd
CHECK_DEADLOCK FALSE
