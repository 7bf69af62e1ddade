SPECIFICATION GroupSpec
CONSTANTS
  None = None
  OrderIds = {"o1"}
  REFUND_WINDOW_DAYS = 2
  MAX_PRIOR_REFUNDS = 1
  HISTORY_WINDOW_DAYS = 3
  DOLLAR = 2
  RoundsUp = {9}
  APPROVAL_THRESHOLD = 5
  RECURSION_LIMIT = 25
  Cases <- MCCases
  ChangeLists <- MCChangeLists
INVARIANT
  EDiffersOnlyByRouting
CHECK_DEADLOCK FALSE
