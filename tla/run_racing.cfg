SPECIFICATION FairSpec
CONSTANTS
  Attempts = {a1, a2}
  o1 = o1
  o2 = o2
  Ops <- MCOps
  Inputs <- MCInputs
  NumOutputs = 2
  Requests <- MixedRequests
  Concurrent = TRUE
  LocalFailures = TRUE
  Owner = Owner
  None = None
CHECK_DEADLOCK FALSE
INVARIANTS SucceededIsPublished ManifestsBacked NoWaitCycle
PROPERTIES AttemptEnds
