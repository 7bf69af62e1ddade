SPECIFICATION Spec
CONSTANTS
  None = None
  OrderIds = {"o1", "ghost"}
  REFUND_WINDOW_DAYS = 2
  MAX_PRIOR_REFUNDS = 1
  HISTORY_WINDOW_DAYS = 3
  DOLLAR = 2
  RoundsUp = {9}
  APPROVAL_THRESHOLD = 4
  RECURSION_LIMIT = 25
  Variants = {"M1"}
  Cases <- MCCases
INVARIANT
  M1MarkerMeansLetThrough
CHECK_DEADLOCK FALSE
