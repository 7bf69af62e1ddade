SPECIFICATION GroupSpec
CONSTANTS
  None = None
  OrderIds = {"o1"}
  REFUND_WINDOW_DAYS = 2
  MAX_PRIOR_REFUNDS = 1
  HISTORY_WINDOW_DAYS = 3
  DOLLAR = 2
  RoundsUp = {9}
  APPROVAL_THRESHOLD = 5
  RECURSION_LIMIT = 7
  Cases <- MCCases
  ChangeLists <- MCChangeLists
INVARIANTS
  NaiveVerdictsComeFromTheWorld
  RoutingFlagsExactly
  PairsAreOne
  PairedForkIsFullRun
  InheritedVerdictHolds
  NaiveForkAddsToWhatWasLeft
  NaiveReplaysItsPair
  SameDrawsSameOutcome
  ResumeIsOwnPause
  EReplaysD
PROPERTY
  EveryArmGetsItsRow
CHECK_DEADLOCK FALSE
