# Requiem: TLA+ models, model checking and proofs

This directory holds TLA+ models of Requiem's stateful core, the TLC
configurations that check them on small instances, and TLAPS proofs of the
properties that matter most. Paths below are relative to the repository.

## 1. Inventory

Requiem is a monorepo: a C++ execution kernel, TypeScript packages around it and
a Next.js console (`ready-layer`) with the multi-tenant control plane. The
control plane is where several actors share state, so it came first; the kernel's
stores and the packages' stateful parts followed.

### Control plane (`ready-layer/src/lib`)

| component | state | operations | what is hard | what makes it correct |
|---|---|---|---|---|
| tenant store, durable mode (`control-plane-store.ts`, `mutateState`) | lease row, state row with revision | acquire, load, mutate, save, release | leases are not renewed, requests fail yet execute, processes die | no update lost or applied twice; unexpired leases exclude each other; calls end |
| tenant store, filesystem mode (same file) | lock file, state file | same | a stale lock is removed by path, release removes by path, the save has no revision check | no update lost |
| plan-job queue and worker loop (same file; `worker-registry.ts`; `api/worker`, `api/tenants/jobs`) | `plan_jobs`, `plan_runs`, job leases | enqueue, recover, claim, run, finalize, process, poll | a worker slower than its lease, crash between steps, shared worker ids, head of line | attempts accounted for, finished jobs stay finished, only the claimant settles its attempt, every job finishes |
| request gateway (`big4-http.ts`, `shared-request-coordination.ts`) | `request_idempotency`, `rate_limit_buckets`, maps in memory | claim key, run handler, persist response, replay; cache; consume tokens | duplicates in flight, crash between effect and record, expiry of the record, slow handler, arrival times used late | a key's handler is not run twice; a replay gives the recorded answer; a cached answer is no older than it may be |
| organizations, members, invites (`control-plane-store.ts`) | `organizations`, `organization_members`, `organization_invites` | create, update, delete, set role, remove member, invite, accept, revoke | long sequences of legal calls: delete and recreate, expiry, last admin | an invite works once, only for its organization; an organization keeps a member |
| capabilities, budgets, policies, snapshots, log (same file) | `capabilities`, `budgets`, `policies`, `snapshots`, `logs` | mint, revoke, set limit, reset, charge, snapshot, restore, append | restore brings an old state back; the log is a hash chain | fingerprints are unique; the log alone explains capabilities and budgets, through restores as well |
| foundry and intelligence stores, console pages, API routes | tables of their own | create, read, update, delete | little: single statements | - |

The gateway calls a route's handler, which calls the store; the worker loop calls
the store directly. Everything a tenant has is one JSON document, changed only
through `mutateState`; that is why `mutateState` is modelled first and in full,
and why the other modules treat one `mutateState` call as one atomic step.

### Kernel (`src/*.cpp`, `include/requiem`)

| component | state | operations | what is hard | what makes it correct |
|---|---|---|---|---|
| content-addressed store (`cas.cpp`) | blob, `.meta` sidecar, `index.ndjson`, in-memory index | put, get, remove, prune, repair, compact | a crash between blob, sidecar and index line; two puts of one content; compaction by a process that has not loaded the index | what was acknowledged can be read |
| replication of it (same file) | two stores, a bounded queue, a worker and a monitor thread | put, stream, remove, replicate, repair, shut down | a full queue, shutdown while callers wait, the monitor against a removal | nothing acknowledged is forgotten, what was removed stays gone, every wait ends |
| event log (`event_log.cpp`) | an append-only file, head and number in memory | append, recover, verify, read | head and number advance before the write; torn lines | a log written without a fault verifies; a log that verifies has no hole |
| policy evaluators (`policy_vm.cpp`; `policy-governance.ts` of the core package; `evaluatePolicy` of the control plane) | rules | evaluate | three codes for one rule set | they agree, except where stated |
| policy linter (`policy_linter.cpp`) | registry of policies, constraints, conflicts | load, check | it looks at pairs, configurations have more | pairs are enough |
| plans (`plan.cpp`) | steps, in-degrees, order, results | validate, sort, execute | failures and cycles in any graph | accepted plans are sound, a step runs after its dependencies |
| execution of a command (`runtime.cpp`, `sandbox_posix.cpp`) | child, pipes, deadline, declared output | spawn, read, wait, kill, drain, hash | output that races the end of its writer; descendants | nothing written is lost without a mark; a timeout ends the session; `execute` returns |
| capabilities, metering, snapshots, cost ledger, auto-tuning, Windows sandbox, workers, hashing, receipts | - | - | see section 8 | - |

### Packages

| component | state | what is hard | what makes it correct |
|---|---|---|---|
| circuit breaker and `generateText` (`packages/ai/src/models`) | circuits, lazy load, saves nobody waits for | a load that arrives after failures were counted; saves retried with a later state | a failing provider is called a bounded number of times; only probes close an open circuit |
| budget checkers (`packages/ai/src/policy/budgets.ts`) | usage in a window | check and record are two steps | the limit, or a bounded overrun |
| tool executor, depth guard, replay cache (`packages/ai/src/tools`) | depth of a trace, an append-only file | timeouts of handlers that go on, refusals, torn lines | bounded depth; one answer per hash |
| tool events and permission requests (`failureRuntime.ts`) | two append-only files, maps per process | several processes, one numbering each; appends that throw or tear after memory was changed; two appends for one event | reports agree while appends succeed; nothing but a twin or a cut hides an event; no permission line without its event |
| MCP rate limits (`mcp/rateLimit.ts`) | sliding windows, blocks | boundaries of windows | every window holds, a block lasts |
| audit sink (`telemetry/auditSink.ts`) | buffer, timer, posts under way | batches that overlap, lost answers | every record is settled |
| migrations (`migrations/runner.ts`) | schema, table of migrations | several runners; statements outside the transaction | a recorded migration was applied |
| credential rotation (`security/credentialRotation.ts`) | secret, copy in memory, schedule, timeout | operations interleave at each storage access | a schedule stays alive; only what was stored is audited |
| run lifecycle and state machines (`packages/cli/src/lib/state-machine.ts`, `run-lifecycle.ts`) | state, history | tables and a tracker that must agree | a complete run went through every state |
| semantic state ledger (`semantic-state-machine.ts`) | two files rewritten whole | several processes, torn writes, imports refused half way | append-only; what a process lists is on file |
| change budgets (`change-budget.ts`) | a chain of states | small steps that add up | budgets compose |
| commands, databases, skills, routing, core, audit, hash, proofs | mostly single rows and pure functions | see section 8 | - |

The repository has TLA+ of its own (`formal/`, `packages/cli/src/PolicyCompiler.tla`):
sketches of the kernel's protocol that no tool of the build reads. Nothing here
is taken from them.

## 2. Plan

Done, in this order: the durable store and its atomic abstraction, the plan-job
queue on top of it, the filesystem store, idempotency keys and the in-memory
gateway, rate limits, organizations, the ledger of a tenant; the policy evaluators
and the linter; the kernel's stores, replication, plans and command execution; the
stateful parts of the AI package and of the command line. Proved: the invariants
of all components, for every value of the constants (section 6).

Left, most important first:

1. *Refinements*: the content-addressed store against a map from digest to content,
   the event log against an append-only sequence.
2. *Code worth a model next*: the skill runner, whose recursion counter is raised
   before it is compared and not lowered for a refused run, as in the tool executor;
   the registry of worker loops in `worker-registry.ts`; replay capsules and
   entitlements of the command line.

## 3. Modules and code

Every module says at its head what it abstracts; `PROJECT.json` maps each
definition to the lines it stands for. Common conventions:

- an `await`, or a system call other threads can run between, is where other
  actors run; what is between two of them is one action;
- time is a set of timers that `Tick` runs down (leases, expiries, ages), or a
  clock that stops at its bound; no action forces a `Tick`, so any step may be
  late;
- a hash is modelled by what it is computed from;
- a definition marked *Mutant* is a plausible error in the definition that
  follows it. It is used by no specification; putting it in place of that
  definition must break the property `PROJECT.json` names;
- a component's properties are grouped: `...Invariant` is the conjunction of its
  type invariant and of the named invariants above it, each with its own comment.

| module | code | state and actions |
|---|---|---|
| `AtomicMutation` | what callers of `mutateState` rely on | `history` (mutators applied so far) and `outcome` (what each caller was told). A mutator is applied once, at one instant; "ok" means it was applied before, an error leaves that open. |
| `TenantStore` | `mutateState`, `acquireDurableTenantLock`, `releaseTenantLock`, `loadDurableState`, `saveDurableState` | lease row, state row, and per call the request it waits for with its local variables. One action per request. `Fail`: the sender sees an error, and a write may go to `flight`, from where `Late` executes it at any later time. `Crash`: the process dies. The state is the sequence of calls whose mutator it contains. |
| `FileTenantStore` | the same in filesystem mode | lock file (creator, pid, age), state file, processes. One action per system call. `Blocked`: while a call waits in `Atomics.wait` no other call of its process moves. |
| `PlanJobQueue` | `enqueuePlanJob`, `recoverStalePlanJobs`, `claimNextPlanJob`, `runPlan`, `finalizePlanJob`, `processPlanJobs`, `startWorkerLoop`; the jobs route | jobs in slots by age, number of recorded runs per job, roles, and where each worker's `processPlanJobs` is. One `mutateState` call is one action, by the refinement shown for `TenantStore`; `StoreError` and `Crash` may hit each of them before or after its effect. |
| `RequestIdempotency` | `withTenantContext`, `claimDurableIdempotency`, `persistDurableIdempotencyResponse` | the row of one key, requests with bodies, abandoned writes. |
| `MemoryGateway` | `withTenantContext` outside production-like deployments | the response cache and the idempotency map of one process, both used with the time of the request's arrival; one resource, one key. |
| `RateLimiter` | `consumeDurableRateLimit`, `consumeMemoryTokenBucket` | one bucket; `shared` says which of the two is used; `credited` and `backdated` are bookkeeping for the properties. |
| `Organizations` | organization, member and invite operations | one atomic step each. A throw leaves the state as it was, also what the mutator had already assigned. A slot stands for an invitation's id and token. |
| `TenantLedger` | capabilities, budgets, policies, plans, snapshots, `appendLog` | one atomic step each, with the log entry it writes. |
| `PolicyEngines` | `policy_eval`, `PolicyEngine`, `evaluatePolicy` | a list of rules over one field, the field's value and where the context has it (an undotted name, a dotted path, a key with dots); numbers and lists as each evaluator reads them, patterns that throw; the three decisions are operators, the kernel's a set, since its sort is unstable. |
| `PolicyLinter` | `LoadFromJson`, `Check` | the registry, built member by member. |
| `EventLog` | constructor, `append`, `verify`, `read` | lines of the file (a record stands for its digest), head and number in memory; writes that stop early, crashes, reopening. |
| `CasStore` | `CasStore`, `CasGarbageCollector` | per object blob, sidecar, index line and index entry; threads with the step they are at; one action per file operation; crash, failed and damaged writes. |
| `CasReplication` | `ReplicatingBackend`, `ReplicationManager`, `ReplicationMonitor` | two sets of objects, the queue, callers, worker and monitor; both policies for a full queue; shutdown and the return of the worker. |
| `PlanExecution` | `plan_validate`, `plan_topological_order`, `plan_execute` | any list of steps up to `MaxSteps`; one action per turn of each loop. |
| `ProcessRun` | `execute`, `run_process` | the polling loop step by step against a child that writes and ends at any time, and a descendant in the same session or in one of its own. |
| `CircuitBreaker` | `checkCircuit`, `recordSuccess`, `recordFailure`, `resetCircuit`, the HTTP store, `generateText` | one circuit, its lazy load, saves under way with their retries, calls under way. |
| `BudgetCheckers` | the default, atomic and persistent checkers, `evaluatePolicyWithBudget` | usage and window, the tenant lock, callers between check and record. |
| `ToolExecution` | `executeToolEnvelope`, `checkDepth`, `releaseDepth`, replay file | calls of one trace between the guard and the `finally` block, handlers that outlive their timeout, records in the file. |
| `ToolEvents` | `recordToolEvent`, `createPermissionRequest`, `decidePermission`, `getRunToolEvents` | two files shared by processes, counter and maps of each process; one action per append, which may write all, nothing, a part or a line without its newline. |
| `McpRateLimit` | `check`, `reset`, `isBlocked` of the tenant and the address limiter | time stamps as sets of entries (an instant and a number), the block of the address. |
| `AuditSink` | `DatabaseAuditSink` | buffer, timer, batches with their attempt, end of the process. |
| `MigrationRunner` | `runMigrations`, `rollback` | per migration the statements that took effect, the table of migrations, what each runner knows and does. |
| `CredentialRotation` | `CredentialManager` | stored and remembered secret, schedule, timeout, operations at their storage accesses. |
| `LifecycleMachines` | `StateMachine` and its three machines, `transitionEntity`, `RunLifecycleTracker` | the state of an entity and its recorded history. |
| `SemanticLedger` | `LocalSSMStore` | two files written whole, one copy per process, torn files, transitions between any ids, imports of any bundle and imports that throw half way. |
| `ChangeBudget` | `classifyDrift`, `checkChangeBudget`, `checkTransitionBudget`, presets | a chain of states, each checked against the one before. |

`MC*` modules hold the constants of the runs; `*Proofs` modules the theorems.

## 4. Runs

Run a configuration with `tlc -config <cfg> <module>`.

| run | bounds | shows |
|---|---|---|
| `store_safety` | 3 calls, lease 1, 2 save attempts, one abandoned request at a time, one crash; calls are symmetric | no update lost, repeated or written over another; unexpired leases exclude; the calls refine `AtomicMutation` |
| `store_modes` | filesystem mode: 2 calls of a process, 1 of its successor; durable mode: 2 calls, any failures | filesystem: one call inside, nothing saved is lost, calls end; durable: calls end |
| `queue` | 2 workers (tenant-wide, one organization), 2 jobs, 2 attempts, 1 fault, role changes, deletion | attempts accounted for, owner exactly while running, completed jobs were run, finished stays finished, only the claimant finalizes, jobs finish |
| `storage` | eight components, see below | what was acknowledged, recorded or logged is what a later reader, replay or process finds |
| `decisions` | eleven components, see below | the log accounts for the state; limits hold for every order of concurrent calls; caches are as fresh as they say; evaluators agree except where stated |
| `threads` | four components, see below | nothing is dropped silently, every wait ends |
| `file_crossing`, `queue_duplicate`, `idem_slow`, `tool_depth`, `junction`, `dedup` | smallest instances | **violated**, see section 7 |

`storage`, `decisions` and `threads` are sums: their components share no state,
the variable `component` is chosen in the initial state from the constant
`Components`, and a behaviour is one of that component while the others keep their
initial state. So the states checked are those of each component, added up, and a
counterexample is one of a single component. To look at one component, give
`Components` one element. `store_modes` is such a sum of the store's two modes. The
first three do not check for deadlock, because several
components really stop: their operations are counted and a counter has a bound.

*storage*: idempotency keys (3 requests, two of them alike; life 4, stale after 2,
requests up to 3), organizations (2 actors, 1 organization that can be made again,
2 addresses, 2 invitations), the event log (4
appends, 2 crashes, any torn write), the content-addressed store (2 objects, 2
threads, 3 operations, 1 crash, 1 failing write), tool events (2 processes, 3
events, 1 decision, 1 restart, 1 append that throws), migrations (2 runners, 2 migrations, 4 runs, 2 faults),
rotation (2 tasks, 3 secrets, 2 failing accesses), the semantic ledger (2
processes, 2 changes, bundles of a state and a transition, 1 torn file). The actors, threads, processes, runners and
tasks are the same two model values, which are also the two alike requests, and
are symmetric: no definition tells them apart, and no temporal property of the
run is other than a property of steps.

*decisions*: rate limiter (3 requests, capacity 2, cost 2, rate 1, time 4), gateway
in memory (3 requests), the ledger (5 entries, 2 instants), evaluators (all lists
of 2 rules; texts that are empty, numerals, blank, a numeral and more, and no
pattern), linter (3 listed names, 2
constraints, 1 conflict), circuit breaker (thresholds 2, 2 calls under way, 2
saves), budgets (2 callers, limit 2, costs below and above it), tools (3 calls,
depth 2, 1 crash), MCP limits (limits 2, window 2, block 3, time 5), machines
(histories up to the length of a run), change budgets (chains of 3 transitions).
Requests are symmetric.

*threads*: replication (2 objects, 2 callers, a queue of 1), plans (all lists of 3
steps over 3 ids and the empty one), a run (pipe of 1, output limit 2), audit sink
(batches of 2, 3 records, 2 retries). No symmetry, since it has liveness.

Why the bounds suffice: a lost update needs two writers and a third that changed
the row before them (so that the revision, not the first insert, decides), a
take-over of a lease from a thief needs three callers; a duplicate needs a second
claim, which two attempts allow; the last attempt lost to a crash needs a job at
its limit, which two attempts and one fault reach; a backdated bucket needs two
overlapping requests and one after them; a rolled-back blob needs two puts of one
content and a failing sidecar, an object that put refuses one crash; a swallowed line
needs one cut append and one behind it; a hole in the log needs
a failed write between two good ones; a prune that removes more than one object
needs two; a budget is overrun by callers between check and record, of which there
are two; a conflict of a configuration that pairs do not show would need three
policies; a cycle, a diamond and a skipped chain need three steps. `FewFailures` in
`store_safety` bounds how many failures overlap; the proofs of section 6 need
neither that nor any other of these bounds. Deadlock is checked in `store_*`,
`file_crossing`, `queue*` and `idem_slow`: time always passes.

Conditions in the properties come from the code and are needed:

- `OneRunPerWindow` is checked with `ClaimLimit < StaleTicks` and `RequestLimit <
  TtlTicks` (a claim takes less than 30 s, a request less than the life of the
  row): `expires_at` is computed when the claim starts and written when it ends.
- `OnlyClaimantFinalizes` takes worker ids of their own. `finalizePlanJob` compares
  the worker id and not the attempt, and calls of `action=process` by one actor
  share the default id. It and `CompletedHasRun` also take a `job_id` of its own:
  two jobs of one plan enqueued in one millisecond have the same.
- `JobsFinish` is about workers that are operators of every organization they look
  at: `claimNextPlanJob` throws 403 at a stale or oldest job of another one, in
  every cycle, and never reaches the jobs behind it.
- `LockExcludes` and `AcknowledgedIsStored` of the filesystem store hold as long
  as no live process keeps the lock for `LOCK_STALE_MS` (`overdue`).
- `WithinRate` holds until a write sets `last_refill_ms` back: a request takes the
  time once and keeps it through five attempts
  (`shared-request-coordination.ts:65`), and a refill is then granted twice.
- `OrganizationsHaveMembers` says member and not admin: the last admin may give
  itself a lower role, and `LeaderlessUntilInvited` says what is left then.
- A restore (`TenantLedger`) sets the flags of all capabilities by the snapshot's
  `revoked_caps`; capabilities minted after the snapshot stay, and are active even
  if they were revoked meanwhile. Budgets are counted by the control plane and
  limit nothing there.
- `SerialRunsOnce` (gateway in memory) takes requests that do not overlap: nothing
  marks a key while its handler runs.
- `CleanLogVerifies` takes writes that do not fail: head and number advance before
  the write, so after a failed one the file has a hole and `verify` says so.
- `AcknowledgedIsReadable` excludes the three ways in which the store can lose an
  acknowledged object: an index line that did not reach the file, a compaction by a
  process that had not loaded the index, a rollback of a blob another put shares.
  A second put acknowledged before the first has written its line is a case of the
  first.
- `RemovedStaysGone` takes objects with nothing under way: a queued task or the
  monitor brings a removed object back. `NothingForgotten` excludes a task enqueued
  after the worker has returned, which stays in the queue (`cas.cpp:817`).
- `ConditionsAgree` takes a field that is a non-empty string. Kernel and core agree on
  conditions whose texts they read alike: `std::stod` takes the number at the front of
  a text and throws on blanks, `Number` gives NaN and 0, and a blank in a list is
  trimmed by one and not by the other. The control plane agrees on well-formed
  conditions (lists for `in` and `not_in`, strings for the rest), on an undotted field:
  it does not follow paths. A text that is no pattern makes `evaluatePolicy` throw and
  matches in neither of the others. `ReadyDeniesMore` says exactly when the control
  plane, in which any matching deny rule wins, decides otherwise than the others.
- `ReportsAgree`, `DecisionsHaveRequests` and `NoRequestMissing` (tool events) take
  appends that do not throw: an event is remembered before its append. The last also
  takes processes that do not end inside `recordToolEvent`. `HiddenOnlyByTwin`,
  `LoneRunComplete` and `PermissionsHaveEvents` hold with both.
- `AppliedIsRecordedWithoutFaults` takes runs without a fault: a migration's statements
  are outside the transaction of its row.
- `ScheduledIsArmed` does not say that a cancelled schedule stays cancelled: a rotation
  under way sets it up again.
- `FailuresAreCapped` allows a second round where the load of the stored circuit
  throws away what was counted meanwhile.
- `NothingLost` and `LoneReturns` of a run take a command without descendants: one
  with a session of its own can write on, and a drain reads for as long as someone
  writes.
- `OrderlyAppendOnly`, `OrderlyKeeps` and `MemoryIsFile` take processes that use the
  ledger one after the other and do not stop inside a write; the first takes no
  imports, which replace states. After an import that threw, the states of
  its process are not those of the file.

A hazard that such a condition excludes is listed in `PROJECT.json` without a property,
with a note: there the code does what the hazard says, and no document of the
repository says otherwise.

## 5. Fairness

`store_modes`: weak fairness of each live call's own next
step (a request is answered or fails, the event loop runs a turn that is ready)
and of `Tick`. `queue`: weak fairness of each worker's step, since
`startWorkerLoop` polls on a timer and goes on after errors, and of `Tick`.
`threads`: weak fairness of the replication worker and of each caller (threads of
their own), of the plan's loop, of the kernel's polling loop and of time, of a set
timer of the audit sink and of the end of a request it sent. Nothing obliges a
request to fail, a process to die, an abandoned write to be executed, a child to
write or end, the monitor to run or an administrator to act; failures are bounded
by the constants named for them.

## 6. Proofs

Checked by `tlapm`; they hold for any number of calls, workers, requests, actors,
threads or runners and any value of the constants that meets the named assumptions
of the modules: times and limits are natural numbers, some of them positive,
values that mean "none" are distinct from real ones, sets that are counted are
finite. Three theorems have a condition besides, and each is needed:

- `KeyCorrect` and `AnswersStayCorrect` assume `Timely`, the condition under which
  section 4 checks the keys. TLC finds two runs of one key as soon as either half of
  it is dropped: `expires_at` is computed when a claim starts and written when it
  ends, and a request slower than the row's life answers after its row is gone;
- `FileStoreCorrect` assumes `OneRuntime`: a process starts when its predecessor is
  dead. With processes side by side the statement is false (`file_crossing`);
- `BreakerCorrect` and `OpenIsLeftCorrect` assume a recovery time above zero. With
  zero an open circuit lets every call through.

The theorems are in eight modules: one each for the components with long arguments,
`LimitProofs` for what limits callers, `ControlPlaneProofs` for the rest of the
control plane, `KernelProofs` and `PackageProofs`. A component's part begins with its inductive invariant, and the
lemmas follow the actions of `Next`.

`TenantStoreProofs` (`StoreCorrect`: `StoreInvariant`)

- types, from `TypeInv` = types and *a call that is not past saving
  has attempts left* (without it the counter would leave its range);
- `NoLostUpdate`, `NoRepeatedUpdate`, `HistoryOnlyGrows`, from `HistoryInv`. The
  properties are not inductive: a pending save must be known to write on top of a
  past state of the row, and on top of the present one if the revision is the
  present one (`RecordsArePast`), and a call must have at most one save
  outstanding and none once its mutation is in the row (`SavesOnce`). The lease
  plays no part: the revision alone protects the row;
- `StoreImplementsRegister`: every step maps to one of `AtomicMutation` or to
  none, from the same invariant;
- `LeaseExclusion`, from `LeaseInv`: a call holds the row at most once, so the row
  a waiter found expired is still expired if its holder is the same (`HoldsOnce`),
  an unexpired holder inside its critical section owns the row
  (`LiveHoldersOwn`), and requests for the lease that are still in flight belong
  to calls that have ended (`LeaseRequestsEnd`).

`PlanJobQueueProofs`

- `QueueCorrect` (`QueueInvariant`), from `QueueInd`. That a job is run no more
  often than it was claimed is not inductive: the runs made and the workers that
  are about to make one must together not exceed the attempts (`RunsCovered`, with
  the cardinality of the set of those workers). What each mutator does to one job
  is stated once (`JobChange`, `ClaimedJobOK`), and one lemma per mutator is used by
  both the step that calls it and the faults that may hit it.
- `QueueStepsCorrect` (`QueueSteps`), for workers with ids of their own: a worker
  that owns the lease of the job it claimed has its current attempt (`OwnLease`).

`LimitProofs`

- `RateCorrect` (`RateInvariant`) of the gateway's token bucket: `NoSharedToken`,
  from `Paid`: if the revision a request has read is the present one, so is the whole
  bucket (`Fresh`); in memory nothing is read ahead; a request is let through once, at
  its end. `RateKept`, from `Past` (no time stored or taken is later than now) and
  `Credit` (refills cover the time up to the last one, unless it was set back);
- `McpLimitsHold` (`McpInvariant`), from `McpInd`: what was let through so recently
  that a window ending now can hold it is still in the bucket (`Tracks`), so that a
  bucket below its limit bounds every window that the next request falls into. Time
  stamps are entries of a set, so that a window is a subset and its size a
  cardinality; a sum over time would be beyond the prover;
- `BudgetsHold` (`BudgetInvariant`), from `BudgetInd`. In the atomic checker the
  present window and the stretch as long before it are each within the limit
  (`WindowKept`), so any stretch is within twice the limit; grants are counted as
  sets of cents. In the store the usage and one cost for each caller between check
  and record stay below the limit and one cost for each caller (`StoreKept`).

`RequestIdempotencyProofs` (`KeyCorrect`: `KeyInvariant`, `AnswersStayCorrect`:
`AnswersStay`), from `KeyInd`. One run per life is a statement about requests; what
holds it up is the row. The row outlives the request that has claimed the key and
has that request's body, and its answer once there is one (`ClaimCovered`, for which
`InBounds` and `Timely` are needed); a row that a late reset or recovery still finds
as it was read is as expired, or as stale, as it was then (`Current`, `SeenOld`); so
one request in a life has the key (`OneClaim`). Abandoned writes belong to requests
that have ended (`Orphans`). That an answer stays follows with `AnswerCalled` and
`FreshRecorded`: who answered its client left the row settled.

`FileTenantStoreProofs` (`FileStoreCorrect`: `FileInvariant`), from `FileInd`. The
lock is a path, so exclusion is about who created the file that has it: a call
inside created it (`HoldersHave`), its creator holds it as long as it lives
(`HolderHolds`), and a waiter that is about to remove it does not remove that of a
live creator (`WaitersSee`). These parts hold as long as no live process keeps the
lock until it is stale (`~overdue`); that one process lives at a time (`OneLives`), of
whose calls one at a time acquires (`OneAcquires`), holds always.

`ControlPlaneProofs`

- `OrgCorrect` (`OrgInvariant`) and `OrgStepsCorrect` (`OrgSteps`), from the invariant
  and `SlotsInOrder` (no invitation beyond the last slot used, so that a new one
  overwrites none);
- `CapabilitiesNamedOnce`, a part of `TenantInvariant`, from `Numbered`: the number
  in a fingerprint is the place of its capability, as nothing removes one;
- `TenantCorrect` (`TenantInvariant`), from `TenantInd`. `TellsOf` replays the log by a
  recursive function; the invariant carries such a replay along (`Recounts`), whose
  state at the time a snapshot names is what the snapshot shows (`Told`), so that a
  restore is replayed right. A step goes on from the replay (`Written`), and a log
  has only one, by its first entry at which two would differ (`ReplayUnique`), because
  restores look back and never ahead (`RestoresPast`);
- `MemoryGatewayCorrect` (`MemInvariant`), from `MemInd`: a version that a request
  or the cache holds was current when the request that read it arrived (`Fresh`);
  requests that
  come in turn are ordered by the key's record (`Turns`).

`KernelProofs`

- `LogCorrect` (`LogInvariant`), from `LogInd`. A log verifies or not as a whole, and
  a step adds at its end: the invariant speaks of every prefix of the file, which has
  a last record and whose numbers are right if its links are (`LastOfPrefix`,
  `PrefixNumbered`), of the number in memory (`LogCounts`), and, while nothing failed,
  of the head in memory (`CleanHead`);
- `CasCorrect` (`CasInvariant`), from `CasInd`: what the index knows has its line, or a thread about to write it
  (`IndexBacked`); what was acknowledged is in place (`OwedPlaced`), and so is what a put
  has written so far if no removal or rollback disturbed it (`AlonePlaced`,
  `RemovalSeen`);
- `ReplicationCorrect` (`ReplInvariant`), from `ReplInd`: every acknowledged object
  that was not dropped is with somebody (`NoneForgotten`), nobody holds one that was
  removed in order to write it (`GoneIsLetGo`); a worker returns from an empty queue,
  so its return loses nothing (`WorkerEndsInd`);
- `EvaluatorsCorrect` (`EvaluatorsCompare`), for rule lists of any length and any
  conversions that agree on numerals: only the types are inductive, conditions are
  compared operator by operator, the rest is an argument about the greatest priority among
  the matching rules, which exists by a least counterexample;
- `LintCorrect` (`LintComplete`), for registries and configurations of any size;
- `PlanCorrect` (`PlanInvariant`), from `PlanInd`, the correctness of the sort that
  `plan_validate` and `plan_execute` share: an in-degree is the number of
  dependencies not yet in the order (`Counted`), the heap holds what is ready and not
  yet ordered (`HeapIsReady`), the order has every id once, after its dependencies and
  with no smaller ready id waiting (`OrderOnce`, `OrderClosed`, `LeastFirst`). A plan
  that ends with an empty heap and steps left has a set of steps each of which waits
  for another (`PlanVerdict`), and conversely the first step of such a set could not
  have come into the order;
- `ProcessCorrect` (`ProcInvariant`) and `TimeoutStopsSessionCorrect` (the part of
  `RunEnds` about steps), from `ProcInd`: what a stream was given is in the pipe, in
  the result or was cut with its mark (`Conserved`), and the pipe is empty behind the
  last drain of a lone child (`Drained`).

`PackageProofs`

- `MigrationCorrect` (`MigrationInvariant`), from `Staged` (what a runner between two
  statements relies on, unless a rollback came) and `Carried` (while nothing fails, a
  migration whose last statement ran is recorded or has a runner about to record it);
- `RotationCorrect` (`RotationInvariant`), inductive with the type of the tasks;
- `EventsCorrect` (`EventsInvariant`), from `EventsInd`: the file is in the order of the
  serials (`FileInOrder`); while no append threw, nothing is cut (`AllWhole`) and what a
  process remembers is in the file (`RememberedIsFiled`), so that reports do not depend
  on the process; a process remembers its events by their numbers (`MemoryNumbered`) and,
  until a process ends, everything filed (`FiledIsRemembered`), so that a lone recorder
  reports all; a request that is due has its event (`DueHasEvent`), and an id a process
  knows was asked for (`KnownWasAsked`);
- `AuditCorrect` (`AuditInvariant`), from `AuditInd`: a record is in one place
  (`OnePlace`), and a batch at its n-th attempt has n failures behind it
  (`AttemptsPaid`);
- `BreakerCorrect` (`BreakerInvariant`) and `OpenIsLeftCorrect` (`OpenIsLeftByProbe`),
  from `BreakerInd`: the calls of a burst are covered by the failures counted in the
  circuit and by those under way, for one round, or two after a load (`Rounds`);
- `ToolCorrect` (`ToolInvariant`), from `ToolInd`: the depth counts the calls under
  way and the refused ones (`DepthKnown`), and the line at which a search of the file
  stops stays that line when others are appended (`ServedKnown`);
- `LedgerCorrect` (`LedgerInvariant`), `LedgerAppendsOnly` (`OrderlyAppendOnly`) and
  `LedgerKeeps` (`OrderlyKeeps`), from `LedgerInd`: a process that alone has the store
  open has a copy that extends the files and, in what it has saved, is them
  (`LedOneUser`, `LedgerCovers`);
- `MachineCorrect` (`CompleteRunVisitedAll`), from `MachineInd`: the history of a run at
  every state of the order, not only at its end (`InOrder`);
- `ChangeBudgetCorrect` (`ChangeInvariant`), from `ChangeInd`: a field that differs
  from the beginning of the chain passed the budget (`FieldPassed`).

Only model-checked: liveness (`CallsEnd`, `DurableCallsEnd`, `JobsFinish`, `ReplicationEnds` and the rest
of `RunEnds`, `RecordsSettle`), which the prover does not do.

## 7. Where code and documents disagree

- `file_crossing`. A waiter that finds no file at the lock's path takes the lock
  for stale and removes what has that path by then, a lock of the next holder
  (`control-plane-store.ts:247-255`). Two processes are inside, the save compares
  no revision, and a saved mutation is overwritten. The concurrency test says that
  all multi-process mutations are preserved.
- `queue_duplicate`. `runPlan` looks neither at the job nor at its lease: a worker
  slower than its lease and its successor both record a run. The documents call
  the queue duplicate-safe by its leases.
- `idem_slow`. A handler slower than the stale window answers its client although
  its answer was not recorded, the row being in recovery by then; repetitions get
  409. The API conventions promise the previous response.
- `tool_depth`. A call that `checkDepth` refuses was counted before it was refused,
  and the `finally` block that would release it is never entered
  (`packages/ai/src/tools/executor.ts:104`): the depth of the trace stays above
  zero with no call under way. `sandbox.ts:7` says that depth is always
  decremented.
- `junction`. The junction machine names a state it does not define, so its
  constructor throws (`packages/cli/src/lib/state-machine.ts:359`); `selftest.ts`
  builds it and expects a valid transition.
- `dedup`. A crash between the sidecar and the index line of a put leaves an object that
  no index knows; put finds it stored, asks `get`, which refuses it, and returns nothing,
  now and later (`src/cas.cpp:385`). `docs/KERNEL_SPEC.md` has put return the digest of
  an object that exists.

Two more disagreements can be read off the code, and the models have them without a
run:

- `appendTransition` and `importBundle` store transitions whatever states they name
  (`packages/cli/src/lib/semantic-state-machine.ts:600`), and a test of the repository
  does so. SSM-INV-3 of `docs/reference/ssm-invariants.md` requires existing states and
  shows an assertion that is not in the code.
- A run in LEDGER_COMMITTED can only complete
  (`packages/cli/src/lib/run-lifecycle.ts:96`; `RunMachine`). `docs/INVARIANTS.md:384`
  and line 37 of the file say that DIVERGENT can be reached from any state that is not
  terminal.

## 8. Not modelled

The implementation has 113,000 lines; the definitions here stand for about COVLINES
of them, and that is close to what there is to model: most of the rest keeps no
state that several steps or actors could get wrong, and a state machine of it would
restate its assignments. What is left out, as `PROJECT.json` lists it:

- routes, pages, middleware, types, commands and their output: they pass values
  between a user and the components above, or print them; foundry, intelligence,
  learning, tenant and entitlement stores: statements on single rows, with the
  database as the only state;
- hashing, JSON, receipts, Merkle trees, redaction, signing: functions on bytes,
  which a model can only take as given; capabilities, metering, snapshots and cost
  ledger of the kernel: values in memory of one call, computed by such functions;
- the Windows sandbox, seccomp and cgroups, the cluster code: what they do is the
  operating system's or is not connected to anything;
- model routing, telemetry, the skill runner and the evaluation harness: tables,
  formatting and straight-line calls; the skill runner's counter is in the plan;
- the scripts for build, verification and release: they read the repository and
  report.

Of the modelled parts: the registry of worker loops in one process, the store for
distributed MCP limits, which the transport does not consult, the file variant of
the audit sink, checksums of migrations, which nothing compares, replays of plan runs,
and `generateStateTransitionTrigger`, whose text nothing executes and PostgreSQL would
not accept: the branches of its CASE hold no statements (`state-machine.ts:462-478`). Clocks of different processes are taken to agree; about the state row
nothing depends on that.
