SPECIFICATION FairSpec
CONSTANTS
  Clients = {c1}
  Ids = {s1}
  TrialOps = {"add"}
  MaxSessions = 1
  TTL = 1
  Threads = {t1, t2}
  Main = t1
  m1 = m1
  m2 = m2
  Materials <- MCMaterials
  DirectBodies <- MCBodies
  BatchSize = 4
  MaxBacklog = 1
  None = None
INVARIANTS TypeOK WorkersUnderLock AnswersFromOwnKeys RegistryStays ResultsAreWhole InvokedWithNeeds SumsReachEverySlot
PROPERTIES FailuresKeepSession ImplementsPairLedger LocksFreed CallsReturn
