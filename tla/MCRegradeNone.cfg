SPECIFICATION PairSpec
CONSTANTS
  None = None
  OrderIds = {"o1", "ghost"}
  REFUND_WINDOW_DAYS = 2
  MAX_PRIOR_REFUNDS = 1
  HISTORY_WINDOW_DAYS = 3
  DOLLAR = 2
  RoundsUp = {9}
  APPROVAL_THRESHOLD = 4
  RECURSION_LIMIT = 25
  Variants = {"baseline", "C1"}
  Cases <- MCCases
INVARIANT
  NoneReproducesTheReport
CHECK_DEADLOCK FALSE
