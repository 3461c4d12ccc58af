SPECIFICATION Spec
CONSTANTS
  Attempts = {a1, a2, a3}
  o1 = o1
  o2 = o2
  Ops <- MCOps
  Inputs <- MCInputs
  NumOutputs = 2
  Requests <- ReplacingRequests
  Concurrent = FALSE
  LocalFailures = FALSE
  Owner = Owner
  None = None
CHECK_DEADLOCK FALSE
SYMMETRY Symmetry
PROPERTIES ReportedIsNewest
