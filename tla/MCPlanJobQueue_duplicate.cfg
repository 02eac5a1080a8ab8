SPECIFICATION Spec
CONSTANTS
  w1 = w1
  w2 = w2
  a1 = a1
  a2 = a2
  orgA = orgA
  orgB = orgB
  Workers = {w1, w2}
  Actors = {a1}
  ActorOf <- OneActor
  Orgs = {orgA}
  WorkerId <- OwnIds
  Scope <- TenantWide
  AllOrgs = AllOrgs
  NoOwner = NoOwner
  NoJob = NoJob
  MaxJobs = 1
  AttemptLimits = {2}
  LeaseTicks = 1
  RetryTicks = 1
  SameInstant = FALSE
  MaxFaults = 0
INVARIANTS
  DuplicateSafe
