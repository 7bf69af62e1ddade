SPECIFICATION Spec
CONSTANTS
  None = None
  Junk = Junk
  Parts = {1, 2}
  Units <- TwoUnits
  Launches <- MCLaunches
  MaxSessions = 4
INVARIANTS
  SummaryTrustsWholeUnits
  OneProvenance
  ResumeCompletes
PROPERTIES
  WholeUnitsStay
  TornMetadataFreezes
CHECK_DEADLOCK FALSE
