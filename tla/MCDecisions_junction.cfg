SPECIFICATION DecisionsSpec
CONSTANTS
  Components = {"machines"}
  Requests = {r1, r2, r3}
  NoBucket = NoBucket
  Capacity = 2
  Rate = 1
  Cost = 2
  TryLimit = 2
  MaxTime = 4
  MemRequests = {r1, r2, r3}
  CacheTtl = 1
  KeyTtl = 3
  NoEntry = NoEntry
  MaxRequestTime = 1
  MaxMemTime = 3
  MaxRestarts = 1
  Subjects = {"bob"}
  Rules = {"rules"}
  StepCounts = {0}
  Limits = {7}
  DefaultLimit = 5
  MaxEvents = 5
  MaxTenantTime = 1
  Texts = {"", " ", "(", "1", "2", "3x"}
  Blanks = {" "}
  Numerals = {"1", "2"}
  StodOf <- StodReads
  NumberOf <- NumberReads
  BadPatterns = {"("}
  Within <- Occurrences
  Bounds = {{"("}, {"1"}, {" ", "1"}}
  Priorities = {1, 2}
  MaxRules = 2
  Policies = {"p", "q"}
  Constraints = {"c", "d"}
  MaxListed = 3
  MaxConflicts = 1
  FailureThreshold = 2
  SuccessThreshold = 2
  RecoveryTime = 1
  MaxRetries = 1
  MaxCallers = 2
  MaxBreakerTime = 1
  MaxSaves = 2
  MaxTroubles = 1
  Callers = {c1, c2}
  Costs = {0, 1, 3}
  Limit = 2
  Window = 1
  MaxBudgetTime = 3
  MaxBudgetCalls = 3
  ToolCalls = {c1, c2, c3}
  Hashes = {h1}
  Results = {v1, v2}
  NoHash = NoHash
  Torn = Torn
  MaxDepth = 2
  MaxChain = 3
  MaxToolCrashes = 1
  MaxRecords = 3
  TenantLimit = 2
  IpLimit = 2
  SlidingWindow = 2
  BlockTime = 3
  MaxMcpTime = 5
  MaxTrail = 7
  FreeCategories = {"prompt_drift"}
  VaryingFields = {"model", "promptId", "promptVersion", "context", "metadata"}
  MaxTransitions = 3
INVARIANTS
  MachinesConstruct
CHECK_DEADLOCK FALSE
