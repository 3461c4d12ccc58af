SPECIFICATION Spec
CONSTANTS
  Attempts = {a1, a2}
  o1 = o1
  o2 = o2
  Ops <- MCOps
  Inputs <- MCInputs
  NumOutputs = 2
  Requests <- FailClosedRequests
  Concurrent = TRUE
  LocalFailures = FALSE
  Owner = Owner
  None = None
CHECK_DEADLOCK FALSE
SYMMETRY Symmetry
PROPERTIES FailClosed
