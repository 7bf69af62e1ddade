SPECIFICATION Spec
CONSTANTS
  None = None
  Junk = Junk
  Parts = {2}
  Units <- TwoUnits
  Launches <- MCLaunches
  MaxSessions = 3
INVARIANTS
  DirtyIsRecorded
CHECK_DEADLOCK FALSE
