SPECIFICATION Spec
CONSTANTS
  None = None
  Clients = {"one", "same", "other", "local"}
  ModelOf <- MCModelOf
  NamespaceOf <- MCNamespaceOf
  Hosted = {"one", "same", "other"}
  Prompts = {"p"}
  Replies = {"x", "y"}
  MaxRequests = 3
INVARIANT
  MeteredRowsReported
CHECK_DEADLOCK FALSE
