SPECIFICATION Spec
CONSTANTS
  None = None
  OrderIds = {"o1", "ghost"}
  REFUND_WINDOW_DAYS = 2
  MAX_PRIOR_REFUNDS = 1
  HISTORY_WINDOW_DAYS = 3
  DOLLAR = 2
  RoundsUp = {9}
  APPROVAL_THRESHOLD = 4
  RECURSION_LIMIT = 25
  Variants = {"baseline", "alt_history_early", "alt_recheck", "alt_verify", "A", "B", "C", "C1", "C2", "D", "E",
              "M1", "M2", "M3", "M4", "M5", "M6", "M7", "M8", "V1", "V2", "V3", "V4", "V5", "V6"}
  Cases <- MCCases
INVARIANTS
  TypeOK
  NodeInputsReady
  OneInterruptIsEnough
  LedgerMatchesLog
  FaultsAreMarked
  VerifiedAmount
  AgentInv
PROPERTIES
  RunEnds
  KeepsPromiseSpec
CHECK_DEADLOCK FALSE
