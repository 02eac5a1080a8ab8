SPECIFICATION StorageSpec
CONSTANTS
  Components = {"cas"}
  r1 = r1
  r2 = r2
  r3 = r3
  Requests = {r1, r2, r3}
  Body <- TwoAlike
  NoRow = NoRow
  NoOne = NoOne
  TtlTicks = 4
  StaleTicks = 2
  ReloadLimit = 2
  ClaimLimit = 1
  RequestLimit = 3
  Actors = {r1, r2}
  OrgIds = {"org"}
  Emails = {"bob", "eve"}
  NoInvite = NoInvite
  MaxInvites = 2
  InviteTicks = 1
  Payloads = {a, b}
  Zeros = Zeros
  Empty = Empty
  MaxAppends = 4
  MaxCrashes = 2
  Digests = {d1, d2}
  CasThreads = {r1, r2}
  MaxClock = 2
  MaxCasOps = 3
  MaxCasCrashes = 1
  MaxCasFaults = 1
  EventProcesses = {r1, r2}
  ToolInputs = {a, b}
  MaxToolEvents = 3
  MaxFailedAppends = 1
  MaxDecisions = 1
  MaxProcessEnds = 1
  Runners = {r1, r2}
  LastMigration = 2
  MaxRuns = 4
  MaxMigrationFaults = 2
  RotationTasks = {r1, r2}
  MaxSecrets = 3
  MaxStorageFailures = 2
  MaxScheduleCalls = 2
  Processes = {r1, r2}
  Ids = {a, b}
  Heads = {h1, h2}
  Nested = {n1, n2}
  TornFile = TornFile
  Genesis = Genesis
  MaxBundle = 1
  MaxChanges = 2
  MaxTears = 1
INVARIANTS
  StoredIsDeduped
CHECK_DEADLOCK FALSE
