--------------------------- MODULE PlanJobQueue ---------------------------
(***************************************************************************)
(* The durable plan-job queue of one tenant: jobs are enqueued for an      *)
(* organization, claimed under a lease by the processPlanJobs call of some *)
(* worker, run, and finalized; expired leases are recovered.  Each of      *)
(* these is one mutateState call, so one atomic step here (the module      *)
(* TenantStore shows that), and everything else may happen between two of  *)
(* them.  A mutateState call that ends in an error may or may not have     *)
(* changed the state; if it did, the revision check makes the change as    *)
(* good as one at the time of the error.                                   *)
(*                                                                         *)
(* Jobs live in slots, numbered in the order of their creation; the code's *)
(* array has the newest first.  Leases and retry delays are timers.  Plans *)
(* are never removed by the code, so runPlan always finds the plan and the *)
(* branch of processPlanJobs for a plan that disappeared is never taken.   *)
(***************************************************************************)
EXTENDS Naturals, FiniteSets

CONSTANTS Workers,        \* callers of processPlanJobs
          Actors, Orgs,
          ActorOf,        \* actorId given to processPlanJobs, by worker
          WorkerId,       \* workerId given to processPlanJobs, by worker
          Scope,          \* options.org_id by worker, or AllOrgs
          AllOrgs, NoOwner, NoJob,
          MaxJobs,        \* bound on the jobs ever enqueued
          AttemptLimits,  \* values of max_attempts
          LeaseTicks,     \* JOB_LEASE_MS
          RetryTicks,     \* JOB_RETRY_DELAY_MS
          SameInstant,    \* whether two jobs may be created in one millisecond
          MaxFaults       \* bound on crashes and store errors

ASSUME WorkersAssumption == IsFiniteSet(Workers)
ASSUME JobsAssumption == MaxJobs \in Nat
ASSUME LimitsAssumption == AttemptLimits \subseteq Nat \ {0}
ASSUME TimersAssumption == LeaseTicks \in Nat \ {0} /\ RetryTicks \in Nat
ASSUME ScopeAssumption == /\ Scope \in [Workers -> Orgs \cup {AllOrgs}]
                          /\ AllOrgs \notin Orgs
ASSUME ActorAssumption == ActorOf \in [Workers -> Actors]
ASSUME OwnerAssumption == \A w \in Workers : WorkerId[w] # NoOwner
ASSUME FaultsAssumption == MaxFaults \in Nat
ASSUME InstantAssumption == SameInstant \in BOOLEAN

VARIABLES
  jobs,      \* plan_jobs: by slot, a job or NoJob
  enqueued,  \* number of slots used so far
  fresh,     \* no time has passed since the last job was created
  runs,      \* plan_runs, counted by the slot of the job they were run for
  orgs,      \* organizations
  operator,  \* <<a, o>>: actor a has role operator or admin in o
  pc,        \* what the processPlanJobs call of a worker does next
  held,      \* the job its claim returned: slot and attempt_count
  faults

vars == <<jobs, enqueued, fresh, runs, orgs, operator, pc, held, faults>>

Slots == 1..MaxJobs

Owners == {WorkerId[w] : w \in Workers} \cup {NoOwner}

Job == [org : Orgs, created : Nat,
        status : {"pending", "running", "retry_wait", "completed", "failed"},
        attempts : Nat, limit : AttemptLimits,
        owner : Owners,
        lease : 0..LeaseTicks, wait : 0..RetryTicks]

ASSUME NoJobAssumption == NoJob \notin Job

Present == {s \in Slots : jobs[s] # NoJob}
Terminal == {"completed", "failed"}

\* job_id is a hash of the organization, the plan and the creation time.
SameId(s, t) == /\ jobs[s].org = jobs[t].org
                /\ jobs[s].created = jobs[t].created

IsOperator(a, o) == <<a, o>> \in operator

InScope(scope, s) == scope \in {AllOrgs, jobs[s].org}

Init == /\ jobs = [s \in Slots |-> NoJob]
        /\ enqueued = 0
        /\ fresh = FALSE
        /\ runs = [s \in Slots |-> 0]
        /\ orgs = Orgs
        /\ operator \in SUBSET (Actors \X Orgs)
        /\ pc = [w \in Workers |-> "idle"]
        /\ held = [w \in Workers |-> [slot |-> 0, attempt |-> 0]]
        /\ faults = 0

----------------------------------------------------------------------------
(* Enqueue *)

\* Creation times that Date.now() may return: a new one, or that of the last job.
Instants == {enqueued + 1} \cup
            {jobs[s].created : s \in {t \in Present : /\ t = enqueued
                                                      /\ SameInstant
                                                      /\ fresh}}

\* enqueuePlanJob by an operator of the organization.
EnqueuePlanJob(a, o, limit) ==
  /\ o \in orgs
  /\ IsOperator(a, o)
  /\ enqueued + 1 \in Slots
  /\ \E created \in Instants :
       jobs' = [jobs EXCEPT ![enqueued + 1] =
                  [org |-> o, created |-> created, status |-> "pending",
                   attempts |-> 0, limit |-> limit, owner |-> NoOwner,
                   lease |-> 0, wait |-> 0]]
  /\ enqueued' = enqueued + 1
  /\ fresh' = TRUE
  /\ UNCHANGED <<runs, orgs, operator, pc, held, faults>>

----------------------------------------------------------------------------
(* The mutators of recover, claim and finalize *)

Stale(scope) == {s \in Present : /\ InScope(scope, s)
                                 /\ jobs[s].status = "running"
                                 /\ jobs[s].lease = 0}

\* requireOrganizationRole throws for the whole call at the first such job.
MayRecover(a, scope) == \A s \in Stale(scope) : IsOperator(a, jobs[s].org)

\* Mutant: a recovered job always goes back to the queue.
RecoveredJobNoLimit(j) == [j EXCEPT !.status = "pending", !.owner = NoOwner,
                                    !.lease = 0, !.wait = 0]

\* Mutant: a job that has used its attempts is not looked at.
RecoveredJobSkipsLast(j) ==
  IF j.attempts >= j.limit THEN j
  ELSE [j EXCEPT !.status = "pending", !.owner = NoOwner, !.lease = 0,
                 !.wait = 0]

RecoveredJob(j) ==
  [j EXCEPT !.status = IF j.attempts >= j.limit THEN "failed" ELSE "pending",
            !.owner = NoOwner, !.lease = 0, !.wait = 0]

Recovered(scope) ==
  [s \in Slots |-> IF s \in Stale(scope) THEN RecoveredJob(jobs[s]) ELSE jobs[s]]

Claimable(w) == {s \in Present : /\ InScope(Scope[w], s)
                                 /\ jobs[s].status \in {"pending", "retry_wait"}
                                 /\ jobs[s].wait = 0}

\* nextJobToClaim: oldest first; the sort keeps newest first among equals.
NextJobToClaim(w) ==
  CHOOSE s \in Claimable(w) : \A t \in Claimable(w) :
     \/ jobs[s].created < jobs[t].created
     \/ jobs[s].created = jobs[t].created /\ s >= t

MayClaim(w) ==
  /\ Scope[w] # AllOrgs => /\ Scope[w] \in orgs
                           /\ IsOperator(ActorOf[w], Scope[w])
  /\ Claimable(w) # {} => IsOperator(ActorOf[w], jobs[NextJobToClaim(w)].org)

ClaimedJob(w, j) == [j EXCEPT !.status = "running", !.attempts = @ + 1,
                              !.owner = WorkerId[w], !.lease = LeaseTicks]

Claimed(w, s) == [jobs EXCEPT ![s] = ClaimedJob(w, @)]

\* finalizePlanJob looks the job up by the id its claim returned, and finds the
\* newest with that id.
Found(w) == {s \in Present : /\ held[w].slot \in Present
                             /\ SameId(s, held[w].slot)}

FoundJob(w) == CHOOSE s \in Found(w) : \A t \in Found(w) : s >= t

\* Mutant: the owner of the lease is not compared.
MayFinalizeAnyOwner(w) == Found(w) # {} =>
                            IsOperator(ActorOf[w], jobs[FoundJob(w)].org)

\* Otherwise it throws, 403 or 409.
MayFinalize(w) == Found(w) # {} => LET j == jobs[FoundJob(w)] IN
                                     /\ IsOperator(ActorOf[w], j.org)
                                     /\ j.owner = WorkerId[w]

CompletedJob(j) == [j EXCEPT !.status = "completed",
                             !.owner = NoOwner, !.lease = 0]

FailedJob(j) ==
  IF j.attempts < j.limit
    THEN [j EXCEPT !.status = "retry_wait", !.owner = NoOwner, !.lease = 0,
                   !.wait = RetryTicks]
    ELSE [j EXCEPT !.status = "failed", !.owner = NoOwner, !.lease = 0,
                   !.wait = 0]

\* A job that is gone, with its organization, is left at that.
Finalized(w, ok) ==
  IF Found(w) = {} THEN jobs
  ELSE [jobs EXCEPT ![FoundJob(w)] = IF ok THEN CompletedJob(@) ELSE FailedJob(@)]

----------------------------------------------------------------------------
(* processPlanJobs *)

Goto(w, p) == pc' = [pc EXCEPT ![w] = p]

\* Called by a poll of the worker loop or by a request with action=process.
ProcessPlanJobs(w) == /\ pc[w] = "idle"
                      /\ Goto(w, "recover")
                      /\ UNCHANGED <<jobs, enqueued, fresh, runs, orgs,
                                     operator, held, faults>>

RecoverStalePlanJobs(w) ==
  /\ pc[w] = "recover"
  /\ IF MayRecover(ActorOf[w], Scope[w])
       THEN jobs' = Recovered(Scope[w]) /\ Goto(w, "claim")
       ELSE UNCHANGED jobs /\ Goto(w, "idle")
  /\ UNCHANGED <<enqueued, fresh, runs, orgs, operator, held, faults>>

ClaimNextPlanJob(w) ==
  /\ pc[w] = "claim"
  /\ IF MayClaim(w) /\ Claimable(w) # {}
       THEN LET s == NextJobToClaim(w) IN
            /\ jobs' = Claimed(w, s)
            /\ held' = [held EXCEPT ![w] =
                          [slot |-> s, attempt |-> jobs[s].attempts + 1]]
            /\ Goto(w, "run")
       ELSE UNCHANGED <<jobs, held>> /\ Goto(w, "idle")
  /\ UNCHANGED <<enqueued, fresh, runs, orgs, operator, faults>>

\* runPlan looks neither at the job nor at its lease.
RunPlan(w) == /\ pc[w] = "run"
              /\ runs' = [runs EXCEPT ![held[w].slot] = @ + 1]
              /\ Goto(w, "complete")
              /\ UNCHANGED <<jobs, enqueued, fresh, orgs, operator, held,
                             faults>>

\* After a job the loop goes on, or has reached its limit.
FinalizeOk(w) ==
  /\ pc[w] = "complete"
  /\ IF MayFinalize(w)
       THEN jobs' = Finalized(w, TRUE)
            /\ \E p \in {"claim", "idle"} : Goto(w, p)
       ELSE UNCHANGED jobs /\ Goto(w, "fail")
  /\ UNCHANGED <<enqueued, fresh, runs, orgs, operator, held, faults>>

\* The catch block: if this throws too, processPlanJobs is left.
FinalizeFailed(w) ==
  /\ pc[w] = "fail"
  /\ IF MayFinalize(w)
       THEN jobs' = Finalized(w, FALSE)
            /\ \E p \in {"claim", "idle"} : Goto(w, p)
       ELSE UNCHANGED jobs /\ Goto(w, "idle")
  /\ UNCHANGED <<enqueued, fresh, runs, orgs, operator, held, faults>>

----------------------------------------------------------------------------
(* Faults *)

\* What the mutateState call that w is at would store.
Stores(w) == CASE pc[w] = "recover" /\ MayRecover(ActorOf[w], Scope[w]) ->
                    jobs' = Recovered(Scope[w]) /\ UNCHANGED runs
               [] pc[w] = "claim" /\ MayClaim(w) /\ Claimable(w) # {} ->
                    jobs' = Claimed(w, NextJobToClaim(w)) /\ UNCHANGED runs
               [] pc[w] = "run" ->
                    runs' = [runs EXCEPT ![held[w].slot] = @ + 1] /\ UNCHANGED jobs
               [] pc[w] = "complete" /\ MayFinalize(w) ->
                    jobs' = Finalized(w, TRUE) /\ UNCHANGED runs
               [] pc[w] = "fail" /\ MayFinalize(w) ->
                    jobs' = Finalized(w, FALSE) /\ UNCHANGED runs
               [] OTHER -> UNCHANGED <<jobs, runs>>

Fault(w) == /\ faults < MaxFaults
            /\ faults' = faults + 1
            /\ pc[w] # "idle"
            /\ Stores(w) \/ UNCHANGED <<jobs, runs>>
            /\ UNCHANGED <<enqueued, fresh, orgs, operator, held>>

\* mutateState throws (lock timeout, 409, 503): inside the try block that leads
\* to the catch block, elsewhere out of processPlanJobs.
StoreError(w) == /\ Fault(w)
                 /\ Goto(w, IF pc[w] \in {"run", "complete"} THEN "fail"
                                                             ELSE "idle")

\* The process dies; the worker may be started again under the same id.
Crash(w) == Fault(w) /\ Goto(w, "idle")

----------------------------------------------------------------------------
(* The rest of the tenant *)

\* An operator's request with action=recover.
OperatorRecover(a, scope) == /\ Stale(scope) # {}
                             /\ MayRecover(a, scope)
                             /\ jobs' = Recovered(scope)
                             /\ UNCHANGED <<enqueued, fresh, runs, orgs,
                                            operator, pc, held, faults>>

\* An admin changes the role of an actor, or removes or adds it.
ChangeRole(a, o) == /\ o \in orgs
                    /\ operator' = IF IsOperator(a, o)
                                     THEN operator \ {<<a, o>>}
                                     ELSE operator \cup {<<a, o>>}
                    /\ UNCHANGED <<jobs, enqueued, fresh, runs, orgs, pc, held,
                                   faults>>

\* deleteOrganization removes the memberships and the jobs with it.
DeleteOrganization(o) ==
  /\ o \in orgs
  /\ orgs' = orgs \ {o}
  /\ operator' = {m \in operator : m[2] # o}
  /\ jobs' = [s \in Slots |-> IF s \in Present /\ jobs[s].org = o
                                THEN NoJob ELSE jobs[s]]
  /\ UNCHANGED <<enqueued, fresh, runs, pc, held, faults>>

RunDown(t) == IF t = 0 THEN 0 ELSE t - 1

Tick == /\ jobs' = [s \in Slots |->
                       IF s \in Present
                         THEN [jobs[s] EXCEPT !.lease = RunDown(@),
                                              !.wait = RunDown(@)]
                         ELSE NoJob]
        /\ fresh' = FALSE
        /\ UNCHANGED <<enqueued, runs, orgs, operator, pc, held, faults>>

----------------------------------------------------------------------------

\* What a worker that lives does.
Step(w) == \/ ProcessPlanJobs(w) \/ RecoverStalePlanJobs(w)
           \/ ClaimNextPlanJob(w) \/ RunPlan(w)
           \/ FinalizeOk(w) \/ FinalizeFailed(w)

Next == \/ \E w \in Workers : Step(w) \/ StoreError(w) \/ Crash(w)
        \/ \E a \in Actors, o \in Orgs, limit \in AttemptLimits :
              EnqueuePlanJob(a, o, limit)
        \/ \E a \in Actors, scope \in Orgs \cup {AllOrgs} :
              OperatorRecover(a, scope)
        \/ \E a \in Actors, o \in Orgs : ChangeRole(a, o)
        \/ \E o \in Orgs : DeleteOrganization(o)
        \/ Tick

Spec == Init /\ [][Next]_vars

\* Workers keep polling and time passes.  Faults are bounded by MaxFaults;
\* nothing makes them happen, nor an administrator act.
FairSpec == /\ Spec
            /\ \A w \in Workers : WF_vars(Step(w))
            /\ WF_vars(Tick)

----------------------------------------------------------------------------
(* Properties *)

TypeOK == /\ jobs \in [Slots -> Job \cup {NoJob}]
          /\ enqueued \in Slots \cup {0}
          /\ fresh \in BOOLEAN
          /\ runs \in [Slots -> Nat]
          /\ orgs \subseteq Orgs
          /\ operator \subseteq Actors \X Orgs
          /\ pc \in [Workers -> {"idle", "recover", "claim", "run", "complete",
                                 "fail"}]
          /\ held \in [Workers -> [slot : Slots \cup {0}, attempt : Nat]]
          /\ faults \in 0..MaxFaults

\* However claims, recoveries, failures and crashes interleave, a job is run no
\* more often than it was claimed, claimed no more often than max_attempts, and
\* given up only when max_attempts is used up.
AttemptsAccounted == \A s \in Present :
   /\ runs[s] <= jobs[s].attempts
   /\ jobs[s].attempts <= jobs[s].limit
   /\ jobs[s].status = "failed" => jobs[s].attempts = jobs[s].limit

\* A job has a lease owner exactly while it is running: what recovery scans for
\* and what finalization compares never disagree.
OwnedWhileRunning == \A s \in Present :
   jobs[s].status = "running" <=> jobs[s].owner # NoOwner

\* No other job was created for the organization in the same millisecond.
OnlyOne(s) == \A t \in Present : SameId(s, t) => t = s

\* A job recorded as completed was run: the run is stored before the completion,
\* and a completion never lands on another job, if the job has an id of its own.
CompletedHasRun == \A s \in Present :
   jobs[s].status = "completed" /\ OnlyOne(s) => runs[s] > 0

\* What holds of the queue in every state: its types, the accounts of attempts
\* and runs, and the agreement of status and owner.
QueueInvariant == /\ TypeOK /\ AttemptsAccounted
                  /\ OwnedWhileRunning /\ CompletedHasRun

\* A late finalization or recovery never changes a job that is finished.
TerminalIsFinal == \A s \in Present :
   jobs[s].status \in Terminal => jobs'[s] \in {jobs[s], NoJob}

\* A worker finalizes only the attempt it claimed, on the job it claimed: a slow
\* worker whose lease was recovered cannot settle the attempt of its successor.
\* This takes worker ids of their own and a job id of its own.
OnlyClaimantFinalizes == \A w \in Workers, s \in Present :
   pc[w] \in {"complete", "fail"} /\ pc'[w] # pc[w] /\ jobs'[s] # jobs[s]
   /\ OnlyOne(s)
     => held[w] = [slot |-> s, attempt |-> jobs[s].attempts]

\* What no step of the queue does: reopen a finished job, or settle the attempt
\* of another worker.
QueueSteps == [][TerminalIsFinal /\ OnlyClaimantFinalizes]_vars

\* Each organization has a worker, and the actor of a worker is an operator of
\* every organization the worker looks at.
WellStaffed ==
  /\ \A w \in Workers, o \in Orgs :
       Scope[w] \in {AllOrgs, o} => IsOperator(ActorOf[w], o)
  /\ \A o \in Orgs : \E w \in Workers : Scope[w] \in {AllOrgs, o}

Finished(s) == s \notin Present \/ jobs[s].status \in Terminal

\* A queued job survives crashes and errors and is eventually finished, unless
\* the workers lose their roles.
JobsFinish == \A s \in Slots : s \in Present ~> Finished(s) \/ ~WellStaffed

\* The lease keeps a job from being run twice.
DuplicateSafe == \A s \in Slots : runs[s] <= 1
=============================================================================
