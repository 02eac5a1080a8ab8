SPECIFICATION ThreadsSpec
CONSTANTS
  Components = {"replication", "plan", "process", "audit"}
  Objects = {d1, d2}
  Clients = {t1, t2}
  MaxQueue = 1
  MaxReplPuts = 2
  MaxReplRemoves = 1
  MaxReplFaults = 1
  StepIds = {0, 1, 2, 3}
  EmptyId = 0
  MaxSteps = 3
  PipeSize = 1
  OutputLimit = 2
  Timeout = 1
  MaxFile = 1
  BatchSize = 2
  MaxPostRetries = 2
  MaxWritten = 3
  MaxLostAnswers = 2
  MaxFailedPosts = 3
  MaxExits = 1
INVARIANTS
  ReplInvariant
  PlanInvariant
  ProcInvariant
  AuditInvariant
PROPERTIES
  ReplicationEnds
  RunEnds
  RecordsSettle
CHECK_DEADLOCK FALSE
