SPECIFICATION FairSpec
CONSTANTS
  w1 = w1
  w2 = w2
  a1 = a1
  a2 = a2
  orgA = orgA
  orgB = orgB
  Workers = {w1, w2}
  Actors = {a1}
  ActorOf <- OneActor
  Orgs = {orgA}
  WorkerId <- OwnIds
  Scope <- MixedScope
  AllOrgs = AllOrgs
  NoOwner = NoOwner
  NoJob = NoJob
  MaxJobs = 2
  AttemptLimits = {2}
  LeaseTicks = 1
  RetryTicks = 1
  SameInstant = TRUE
  MaxFaults = 1
INVARIANTS
  QueueInvariant
PROPERTIES
  QueueSteps
  JobsFinish
