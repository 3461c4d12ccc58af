SPECIFICATION FairSpec
CONSTANTS
  Clients = {c1}
  Ids = {s1, s2}
  Lengths = {2, 3}
  MaxSessions = 1
  MaxCiphertexts = 2
  TTL = 2
  MaxBacklog = 2
  None = None
INVARIANTS TypeOK HandlesResolve ClosedLeavesNothing
PROPERTIES UsedSessionsStay LimitMeansLive CallsReturn
