SPECIFICATION Spec
CONSTANTS
  None = None
  Junk = Junk
  Parts = {1}
  Units <- TwoUnits
  Launches <- MCLaunches
  MaxSessions = 3
INVARIANTS
  ResumeReadsItsLog
CHECK_DEADLOCK FALSE
