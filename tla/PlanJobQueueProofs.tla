-------------------------- MODULE PlanJobQueueProofs --------------------------
(***************************************************************************)
(* Proofs about the plan-job queue, for any number of workers, jobs,       *)
(* organizations and faults.                                               *)
(***************************************************************************)
EXTENDS PlanJobQueue, FiniteSetTheorems, WellFoundedInduction, TLAPS

\* What is true of every job by itself.
JobOK(j) ==
  /\ j \in Job
  /\ j.attempts <= j.limit
  /\ j.status \in {"pending", "retry_wait"} => j.attempts < j.limit
  /\ j.status = "failed" => j.attempts = j.limit
  /\ (j.status = "running") <=> (j.owner # NoOwner)
  /\ j.status # "running" => j.lease = 0
  /\ j.status # "retry_wait" => j.wait = 0

JobsOK == \A s \in Present : JobOK(jobs[s])

Engaged == {"run", "complete", "fail"}

\* Slots are used in order, and a worker with a job knows a slot that was used.
SlotsUsed ==
  /\ \A s \in Slots : s > enqueued => jobs[s] = NoJob /\ runs[s] = 0
  /\ \A w \in Workers : held[w].slot <= enqueued
  /\ \A w \in Workers : pc[w] \in Engaged => held[w].slot \in Slots

Running(s) == {w \in Workers : pc[w] = "run" /\ held[w].slot = s}

\* Every run, made or about to be made, has an attempt of its own.
RunsCovered == \A s \in Present : runs[s] + Cardinality(Running(s)) <= jobs[s].attempts

RanBefore == \A w \in Workers : pc[w] = "complete" => runs[held[w].slot] > 0

OwnIds == \A v, w \in Workers : WorkerId[v] = WorkerId[w] => v = w

\* A worker that owns the lease of the job it claimed has its current attempt.
OwnLease == OwnIds => \A w \in Workers :
  /\ pc[w] \in Engaged /\ held[w].slot \in Present
  /\ jobs[held[w].slot].owner = WorkerId[w]
  => jobs[held[w].slot].attempts = held[w].attempt

QueueInd == /\ TypeOK /\ JobsOK /\ SlotsUsed /\ RunsCovered /\ RanBefore
            /\ CompletedHasRun /\ OwnLease

QueueStep == TerminalIsFinal /\ (OwnIds => OnlyClaimantFinalizes)

-----------------------------------------------------------------------------
(* The choices of the code *)

LEMMA LeastOf ==
  ASSUME NEW T \in SUBSET Nat, T # {}
  PROVE  \E x \in T : \A y \in T : x <= y
  <1>1. PICK x \in T : \A y \in T : ~(<<y, x>> \in OpToRel(<, Nat))
    BY WFMin, NatLessThanWellFounded, Zenon
  <1>2. \A y \in T : ~(y < x)
    BY <1>1 DEF OpToRel
  <1> QED
    BY <1>2

LEMMA LastSlot ==
  ASSUME NEW S \in SUBSET Slots, S # {}
  PROVE  \E s \in S : \A t \in S : s >= t
  <1> DEFINE T == {MaxJobs - s : s \in S}
  <1>1. T \in SUBSET Nat /\ T # {}
    <2>1. \A s \in S : MaxJobs - s \in Nat
      BY JobsAssumption DEF Slots
    <2> QED
      BY <2>1
  <1>2. PICK x \in T : \A y \in T : x <= y
    BY <1>1, LeastOf
  <1>3. PICK s \in S : x = MaxJobs - s
    OBVIOUS
  <1>4. ASSUME NEW t \in S PROVE s >= t
    <2>1. x <= MaxJobs - t
      BY <1>2
    <2> QED
      BY <1>3, <2>1, JobsAssumption DEF Slots
  <1> QED
    BY <1>4

LEMMA FoundJobIsFound ==
  ASSUME NEW w \in Workers, Found(w) # {}
  PROVE  FoundJob(w) \in Found(w)
  <1>1. Found(w) \in SUBSET Slots
    BY DEF Found, Present
  <1> QED
    BY <1>1, LastSlot DEF FoundJob

LEMMA NextJobIsClaimable ==
  ASSUME TypeOK, NEW w \in Workers, Claimable(w) # {}
  PROVE  NextJobToClaim(w) \in Claimable(w)
  <1> DEFINE C == {jobs[s].created : s \in Claimable(w)}
  <1>1. ASSUME NEW s \in Claimable(w)
        PROVE  s \in Slots /\ jobs[s].created \in Nat
    BY DEF Claimable, Present, TypeOK, Job
  <1>2. C \in SUBSET Nat /\ C # {}
    BY <1>1
  <1>3. PICK c \in C : \A d \in C : c <= d
    BY <1>2, LeastOf
  <1> DEFINE S == {s \in Claimable(w) : jobs[s].created = c}
  <1>4. S \in SUBSET Slots /\ S # {}
    BY <1>1, <1>3
  <1>5. PICK s \in S : \A t \in S : s >= t
    BY <1>4, LastSlot
  <1>6. ASSUME NEW t \in Claimable(w)
        PROVE  \/ jobs[s].created < jobs[t].created
               \/ jobs[s].created = jobs[t].created /\ s >= t
    <2>1. c <= jobs[t].created /\ jobs[s].created = c
      BY <1>3
    <2>2. CASE t \in S
      BY <1>5, <2>2
    <2>3. CASE t \notin S
      BY <1>1, <2>1, <2>3
    <2> QED
      BY <2>2, <2>3
  <1>7. \E u \in Claimable(w) : \A t \in Claimable(w) :
           \/ jobs[u].created < jobs[t].created
           \/ jobs[u].created = jobs[t].created /\ u >= t
    BY <1>6
  <1> QED
    BY <1>7 DEF NextJobToClaim

-----------------------------------------------------------------------------
(* What the mutators do to one job *)

\* A change that is no claim: the attempts and the identity of the job stay,
\* the lease is kept or given up, and a finished job is left alone.
JobChange(j, k) ==
  /\ JobOK(k)
  /\ k.org = j.org /\ k.created = j.created /\ k.attempts = j.attempts
  /\ k.owner \in {j.owner, NoOwner}
  /\ j.status \in Terminal => k = j

LEMMA RecoveredJobChange ==
  ASSUME NEW j, JobOK(j), j.status = "running"
  PROVE  JobChange(j, RecoveredJob(j)) /\ RecoveredJob(j).status # "completed"
  <1> DEFINE k == RecoveredJob(j)
  <1>1. j \in Job /\ 0 \in 0..LeaseTicks /\ 0 \in 0..RetryTicks /\ NoOwner \in Owners
    BY TimersAssumption DEF JobOK, Owners
  <1>2. /\ k \in Job
        /\ k.status = IF j.attempts >= j.limit THEN "failed" ELSE "pending"
        /\ k.owner = NoOwner /\ k.lease = 0 /\ k.wait = 0
        /\ k.org = j.org /\ k.created = j.created
        /\ k.attempts = j.attempts /\ k.limit = j.limit
    BY <1>1 DEF RecoveredJob, Job
  <1>3. j.attempts \in Nat /\ j.limit \in Nat
    BY <1>1, LimitsAssumption DEF Job
  <1> HIDE DEF k
  <1>4. JobChange(j, k) /\ k.status # "completed"
    BY <1>2, <1>3 DEF JobOK, JobChange, Terminal
  <1> QED
    BY <1>4 DEF k

LEMMA CompletedJobChange ==
  ASSUME NEW j, JobOK(j), j.status = "running"
  PROVE  JobChange(j, CompletedJob(j))
  <1> DEFINE k == CompletedJob(j)
  <1>1. j \in Job /\ 0 \in 0..LeaseTicks /\ NoOwner \in Owners
    BY TimersAssumption DEF JobOK, Owners
  <1>2. /\ k \in Job
        /\ k.status = "completed" /\ k.owner = NoOwner /\ k.lease = 0 /\ k.wait = j.wait
        /\ k.org = j.org /\ k.created = j.created
        /\ k.attempts = j.attempts /\ k.limit = j.limit
    BY <1>1 DEF CompletedJob, Job
  <1> HIDE DEF k
  <1>3. JobChange(j, k)
    BY <1>2 DEF JobOK, JobChange, Terminal
  <1> QED
    BY <1>3 DEF k

LEMMA FailedJobChange ==
  ASSUME NEW j, JobOK(j), j.status = "running"
  PROVE  JobChange(j, FailedJob(j)) /\ FailedJob(j).status # "completed"
  <1> DEFINE k == FailedJob(j)
  <1>1. /\ j \in Job /\ 0 \in 0..LeaseTicks /\ 0 \in 0..RetryTicks /\ NoOwner \in Owners
        /\ RetryTicks \in 0..RetryTicks
    BY TimersAssumption DEF JobOK, Owners
  <1>2. /\ k \in Job
        /\ k.status = IF j.attempts < j.limit THEN "retry_wait" ELSE "failed"
        /\ k.owner = NoOwner /\ k.lease = 0 /\ (j.attempts >= j.limit => k.wait = 0)
        /\ k.org = j.org /\ k.created = j.created
        /\ k.attempts = j.attempts /\ k.limit = j.limit
    <2>1. j.attempts \in Nat /\ j.limit \in Nat
      BY <1>1, LimitsAssumption DEF Job
    <2>2. CASE j.attempts < j.limit
      <3>1. k = [j EXCEPT !.status = "retry_wait", !.owner = NoOwner, !.lease = 0,
                          !.wait = RetryTicks]
        BY <2>2 DEF FailedJob
      <3> HIDE DEF k
      <3>2. k \in Job
        BY <1>1, <3>1 DEF Job
      <3>3. /\ k.status = "retry_wait" /\ k.owner = NoOwner /\ k.lease = 0
            /\ k.org = j.org /\ k.created = j.created
            /\ k.attempts = j.attempts /\ k.limit = j.limit
        BY <1>1, <3>1 DEF Job
      <3> QED
        BY <2>1, <2>2, <3>2, <3>3
    <2>3. CASE ~(j.attempts < j.limit)
      BY <1>1, <2>1, <2>3 DEF FailedJob, Job
    <2> QED
      BY <2>2, <2>3
  <1>3. j.attempts \in Nat /\ j.limit \in Nat
    BY <1>1, LimitsAssumption DEF Job
  <1> HIDE DEF k
  <1>4. JobChange(j, k) /\ k.status # "completed"
    BY <1>2, <1>3 DEF JobOK, JobChange, Terminal
  <1> QED
    BY <1>4 DEF k

LEMMA TickedJobChange ==
  ASSUME NEW j, JobOK(j)
  PROVE  LET k == [j EXCEPT !.lease = RunDown(@), !.wait = RunDown(@)]
         IN JobChange(j, k) /\ k.status = j.status
  <1> DEFINE k == [j EXCEPT !.lease = RunDown(@), !.wait = RunDown(@)]
  <1>1. j \in Job
    BY DEF JobOK
  <1>2. /\ RunDown(j.lease) \in 0..LeaseTicks /\ RunDown(j.wait) \in 0..RetryTicks
        /\ j.lease = 0 => RunDown(j.lease) = 0
        /\ j.wait = 0 => RunDown(j.wait) = 0
    BY <1>1, TimersAssumption DEF Job, RunDown
  <1>3. /\ k \in Job
        /\ k.status = j.status /\ k.owner = j.owner
        /\ k.lease = RunDown(j.lease) /\ k.wait = RunDown(j.wait)
        /\ k.org = j.org /\ k.created = j.created
        /\ k.attempts = j.attempts /\ k.limit = j.limit
    BY <1>1, <1>2 DEF Job
  <1> HIDE DEF k
  <1>4. JobOK(k)
    BY <1>2, <1>3 DEF JobOK
  <1>5. j.status \in Terminal => k = j
    BY <1>1, <1>2, <1>3 DEF JobOK, Job, Terminal
  <1>6. JobChange(j, k) /\ k.status = j.status
    BY <1>3, <1>4, <1>5 DEF JobChange
  <1> QED
    BY <1>6 DEF k

LEMMA ClaimedJobOK ==
  ASSUME NEW j, JobOK(j), j.status \in {"pending", "retry_wait"}, j.wait = 0,
         NEW w \in Workers
  PROVE  LET k == ClaimedJob(w, j)
         IN /\ JobOK(k)
            /\ k.org = j.org /\ k.created = j.created /\ k.owner = WorkerId[w]
            /\ k.attempts = j.attempts + 1 /\ k.status = "running"
  <1> DEFINE k == ClaimedJob(w, j)
  <1>1. /\ j \in Job /\ LeaseTicks \in 0..LeaseTicks
        /\ WorkerId[w] \in Owners /\ WorkerId[w] # NoOwner
    BY TimersAssumption, OwnerAssumption DEF JobOK, Owners
  <1>2. j.attempts \in Nat /\ j.limit \in Nat
    BY <1>1, LimitsAssumption DEF Job
  <1> DEFINE n == j.attempts + 1
  <1>3. n \in Nat
    BY <1>2
  <1> HIDE DEF n
  <1>4. k = [j EXCEPT !.status = "running", !.attempts = n,
                      !.owner = WorkerId[w], !.lease = LeaseTicks]
    BY <1>1 DEF n, Job, ClaimedJob
  <1>5. /\ k \in Job
        /\ k.status = "running" /\ k.owner = WorkerId[w]
        /\ k.lease = LeaseTicks /\ k.wait = j.wait
        /\ k.org = j.org /\ k.created = j.created
        /\ k.attempts = n /\ k.limit = j.limit
    BY <1>1, <1>3, <1>4 DEF Job
  <1> HIDE DEF k
  <1>6. JobOK(k)
    BY <1>1, <1>2, <1>5 DEF JobOK, n
  <1> QED
    BY <1>5, <1>6 DEF k, n

-----------------------------------------------------------------------------
(* What the steps do to the queue *)

LEMMA RunningFinite ==
  ASSUME NEW s
  PROVE  IsFiniteSet(Running(s)) /\ Cardinality(Running(s)) \in Nat
  <1>1. Running(s) \subseteq Workers
    BY DEF Running
  <1> QED
    BY <1>1, WorkersAssumption, FS_Subset, FS_CardinalityType

LEMMA QueueStarts == Init => QueueInd
  <1> SUFFICES ASSUME Init PROVE QueueInd
    OBVIOUS
  <1>1. TypeOK
    <2>1. fresh \in BOOLEAN /\ operator \subseteq Actors \X Orgs
      BY Zenon DEF Init
    <2>2. /\ jobs \in [Slots -> Job \cup {NoJob}] /\ enqueued \in Slots \cup {0}
          /\ runs \in [Slots -> Nat] /\ orgs \subseteq Orgs
          /\ pc \in [Workers -> {"idle", "recover", "claim", "run", "complete", "fail"}]
          /\ held \in [Workers -> [slot : Slots \cup {0}, attempt : Nat]]
          /\ faults \in 0..MaxFaults
      BY FaultsAssumption DEF Init
    <2> QED
      BY <2>1, <2>2 DEF TypeOK
  <1>2. Present = {}
    BY DEF Init, Present
  <1>3. SlotsUsed
    BY JobsAssumption DEF Init, SlotsUsed, Slots, Engaged
  <1>4. RanBefore /\ OwnLease
    BY DEF Init, RanBefore, OwnLease, Engaged
  <1> QED
    BY <1>1, <1>2, <1>3, <1>4 DEF QueueInd, JobsOK, RunsCovered, CompletedHasRun

LEMMA QueueImplied == QueueInd => QueueInvariant
  <1> SUFFICES ASSUME QueueInd PROVE QueueInvariant
    OBVIOUS
  <1>1. ASSUME NEW s \in Present
        PROVE  /\ runs[s] <= jobs[s].attempts /\ jobs[s].attempts <= jobs[s].limit
               /\ jobs[s].status = "failed" => jobs[s].attempts = jobs[s].limit
               /\ (jobs[s].status = "running") <=> (jobs[s].owner # NoOwner)
    <2>1. s \in Slots /\ JobOK(jobs[s])
      BY DEF QueueInd, JobsOK, Present
    <2>2. runs[s] \in Nat /\ jobs[s].attempts \in Nat
      BY <2>1 DEF QueueInd, TypeOK, JobOK, Job
    <2>3. runs[s] + Cardinality(Running(s)) <= jobs[s].attempts
      BY DEF QueueInd, RunsCovered
    <2> QED
      BY <2>1, <2>2, <2>3, RunningFinite DEF JobOK
  <1> QED
    BY <1>1 DEF QueueInd, QueueInvariant, AttemptsAccounted, OwnedWhileRunning

\* A step that neither claims nor runs a job, apart from what it does to jobs.
Quiet ==
  /\ fresh' \in BOOLEAN /\ orgs' \subseteq Orgs
  /\ operator' \subseteq Actors \X Orgs /\ faults' \in 0..MaxFaults
  /\ pc' \in [Workers -> {"idle", "recover", "claim", "run", "complete", "fail"}]
  /\ \A w \in Workers : /\ pc'[w] \in {"run", "complete"} => pc'[w] = pc[w]
                        /\ pc'[w] = "fail" => pc[w] \in Engaged
  /\ UNCHANGED <<enqueued, runs, held>>

LEMMA Changed ==
  ASSUME QueueInd, Quiet,
         jobs' \in [Slots -> Job \cup {NoJob}],
         \A s \in Slots : jobs'[s] # NoJob =>
            s \in Present /\ JobChange(jobs[s], jobs'[s]),
         \A s \in Slots : jobs'[s] # NoJob /\ jobs'[s].status = "completed" /\ OnlyOne(s)'
            => runs[s] > 0
  PROVE  QueueInd' /\ TerminalIsFinal
  <1>1. TypeOK'
    BY DEF Quiet, QueueInd, TypeOK
  <1>2. ASSUME NEW s \in Present'
        PROVE  /\ s \in Slots /\ s \in Present /\ JobOK(jobs'[s])
               /\ jobs'[s].attempts = jobs[s].attempts
               /\ jobs'[s].owner \in {jobs[s].owner, NoOwner}
    BY DEF Present, JobChange
  <1>3. JobsOK'
    BY <1>2 DEF JobsOK, JobOK
  <1>4. SlotsUsed'
    BY DEF QueueInd, SlotsUsed, Quiet, Engaged, Present
  <1>5. RunsCovered'
    <2> SUFFICES ASSUME NEW s \in Present'
                 PROVE  runs'[s] + Cardinality(Running(s))' <= jobs'[s].attempts
      BY DEF RunsCovered
    <2>1. Running(s)' \subseteq Running(s)
      BY DEF Running, Quiet
    <2>2. Cardinality(Running(s)') \in Nat /\ Cardinality(Running(s)') <= Cardinality(Running(s))
      BY <2>1, RunningFinite, FS_Subset, FS_CardinalityType
    <2>3. runs[s] + Cardinality(Running(s)) <= jobs[s].attempts
      BY <1>2 DEF QueueInd, RunsCovered
    <2>4. runs'[s] = runs[s] /\ runs[s] \in Nat /\ jobs[s].attempts \in Nat
      BY <1>2 DEF QueueInd, TypeOK, Quiet, JobsOK, JobOK, Job
    <2> QED
      BY <1>2, <2>2, <2>3, <2>4, RunningFinite
  <1>6. RanBefore'
    BY DEF QueueInd, RanBefore, Quiet
  <1>7. CompletedHasRun'
    BY <1>2 DEF CompletedHasRun, Present, Quiet
  <1>8. OwnLease'
    <2> SUFFICES ASSUME OwnIds, NEW w \in Workers, pc'[w] \in Engaged,
                        held'[w].slot \in Present',
                        jobs'[held'[w].slot].owner = WorkerId[w]
                 PROVE  jobs'[held'[w].slot].attempts = held'[w].attempt
      BY DEF OwnLease, OwnIds
    <2>1. held' = held /\ pc[w] \in Engaged
      BY DEF Quiet, Engaged
    <2>2. jobs[held[w].slot].owner = WorkerId[w] /\ held[w].slot \in Present
      BY <1>2, <2>1, OwnerAssumption
    <2> QED
      BY <1>2, <2>1, <2>2 DEF QueueInd, OwnLease
  <1>9. TerminalIsFinal
    BY DEF TerminalIsFinal, Present, JobChange
  <1> QED
    BY <1>1, <1>3, <1>4, <1>5, <1>6, <1>7, <1>8, <1>9 DEF QueueInd

\* A job that is alone with its id now was so before, if no job has gone.
LEMMA AloneBefore ==
  ASSUME NEW s \in Present,
         \A t \in Present : /\ jobs'[t] # NoJob
                            /\ jobs'[t].org = jobs[t].org
                            /\ jobs'[t].created = jobs[t].created,
         OnlyOne(s)'
  PROVE  OnlyOne(s)
  BY DEF OnlyOne, SameId, Present

LEMMA JobsAlone ==
  ASSUME QueueInd, Quiet, UNCHANGED jobs
  PROVE  QueueInd' /\ TerminalIsFinal
  <1>1. \A s \in Slots : jobs'[s] # NoJob => s \in Present /\ JobChange(jobs[s], jobs'[s])
    BY DEF Present, JobChange, QueueInd, JobsOK
  <1>2. ASSUME NEW s \in Slots, jobs'[s] # NoJob, jobs'[s].status = "completed", OnlyOne(s)'
        PROVE  runs[s] > 0
    <2>1. s \in Present
      BY <1>2 DEF Present
    <2>2. OnlyOne(s)
      BY <1>2, <2>1, AloneBefore DEF Present
    <2> QED
      BY <1>2, <2>1, <2>2 DEF QueueInd, CompletedHasRun
  <1> QED
    BY <1>1, <1>2, Changed DEF QueueInd, TypeOK

-----------------------------------------------------------------------------
(* One lemma for what each mutator stores *)

LEMMA RecoverKeeps ==
  ASSUME QueueInd, Quiet, NEW scope, jobs' = Recovered(scope)
  PROVE  QueueInd' /\ TerminalIsFinal
  <1>1. ASSUME NEW s \in Slots, s \in Present
        PROVE  /\ JobChange(jobs[s], jobs'[s])
               /\ jobs'[s].status = "completed" => jobs[s].status = "completed"
    <2>1. JobOK(jobs[s])
      BY <1>1 DEF QueueInd, JobsOK
    <2>2. CASE s \in Stale(scope)
      <3>1. jobs'[s] = RecoveredJob(jobs[s]) /\ jobs[s].status = "running"
        BY <1>1, <2>2 DEF Recovered, Stale
      <3> QED
        BY <2>1, <3>1, RecoveredJobChange
    <2>3. CASE s \notin Stale(scope)
      <3>1. jobs'[s] = jobs[s]
        BY <1>1, <2>3 DEF Recovered
      <3> QED
        BY <2>1, <3>1 DEF JobChange
    <2> QED
      BY <2>2, <2>3
  <1>2. ASSUME NEW s \in Slots, s \notin Present
        PROVE  jobs'[s] = NoJob
    BY <1>2 DEF Recovered, Stale, Present
  <1>3. \A s \in Present : jobs'[s] \in Job
    BY <1>1 DEF Present, JobChange, JobOK
  <1>4. jobs' \in [Slots -> Job \cup {NoJob}]
    BY <1>2, <1>3 DEF Recovered
  <1>5. \A s \in Slots : jobs'[s] # NoJob => s \in Present /\ JobChange(jobs[s], jobs'[s])
    BY <1>1, <1>2
  <1>6. ASSUME NEW s \in Slots, jobs'[s] # NoJob, jobs'[s].status = "completed", OnlyOne(s)'
        PROVE  runs[s] > 0
    <2>1. s \in Present /\ jobs[s].status = "completed"
      BY <1>1, <1>2, <1>6
    <2>2. OnlyOne(s)
      <3>1. \A t \in Present : /\ jobs'[t] # NoJob /\ jobs'[t].org = jobs[t].org
                               /\ jobs'[t].created = jobs[t].created
        BY <1>1, <1>3, NoJobAssumption DEF Present, JobChange
      <3> QED
        BY <1>6, <2>1, <3>1, AloneBefore
    <2> QED
      BY <2>1, <2>2 DEF QueueInd, CompletedHasRun
  <1> QED
    BY <1>4, <1>5, <1>6, Changed

LEMMA FinalizeKeeps ==
  ASSUME QueueInd, Quiet, NEW w \in Workers, NEW ok \in BOOLEAN, MayFinalize(w),
         pc[w] \in {"complete", "fail"}, ok => pc[w] = "complete",
         jobs' = Finalized(w, ok)
  PROVE  /\ QueueInd' /\ TerminalIsFinal
         /\ OwnIds => \A s \in Present : jobs'[s] # jobs[s] /\ OnlyOne(s) =>
              held[w] = [slot |-> s, attempt |-> jobs[s].attempts]
  <1>1. CASE Found(w) = {}
    <2>1. jobs' = jobs
      BY <1>1 DEF Finalized
    <2> QED
      BY <2>1, JobsAlone
  <1>2. CASE Found(w) # {}
    <2> DEFINE f == FoundJob(w)
               k == IF ok THEN CompletedJob(jobs[f]) ELSE FailedJob(jobs[f])
    <2>1. /\ f \in Present /\ f \in Slots
          /\ held[w].slot \in Present /\ SameId(f, held[w].slot)
      BY <1>2, FoundJobIsFound DEF Found, Present
    <2>2. JobOK(jobs[f]) /\ jobs[f].owner = WorkerId[w] /\ jobs[f].status = "running"
      BY <1>2, <2>1, OwnerAssumption DEF MayFinalize, QueueInd, JobsOK, JobOK
    <2>3. jobs' = [jobs EXCEPT ![f] = k]
      BY <1>2 DEF Finalized
    <2>4. JobChange(jobs[f], k) /\ (k.status = "completed" => ok)
      BY <2>2, CompletedJobChange, FailedJobChange
    <2> HIDE DEF f, k
    <2>5. ASSUME NEW s \in Slots
          PROVE  jobs'[s] = IF s = f THEN k ELSE jobs[s]
      BY <2>3 DEF QueueInd, TypeOK
    <2>6. ASSUME NEW s \in Present
          PROVE  s \in Slots /\ JobChange(jobs[s], jobs'[s])
      BY <2>4, <2>5 DEF Present, QueueInd, JobsOK, JobChange
    <2>7. \A s \in Slots : s \notin Present => jobs'[s] = NoJob
      BY <2>1, <2>5 DEF Present
    <2>8. \A s \in Present : jobs'[s] \in Job
      BY <2>6 DEF JobChange, JobOK
    <2>9. jobs' \in [Slots -> Job \cup {NoJob}]
      BY <2>3, <2>7, <2>8 DEF QueueInd, TypeOK
    <2>10. ASSUME NEW s \in Present, OnlyOne(s)'
           PROVE  OnlyOne(s)
      <3>1. \A t \in Present : /\ jobs'[t] # NoJob /\ jobs'[t].org = jobs[t].org
                               /\ jobs'[t].created = jobs[t].created
        BY <2>6, <2>8, NoJobAssumption DEF JobChange
      <3> QED
        BY <2>10, <3>1, AloneBefore
    <2>11. ASSUME NEW s \in Slots, jobs'[s] # NoJob, jobs'[s].status = "completed",
                  OnlyOne(s)'
           PROVE  runs[s] > 0
      <3>1. s \in Present /\ OnlyOne(s)
        BY <2>7, <2>10, <2>11
      <3>2. CASE s = f
        <4>1. ok
          BY <2>4, <2>5, <2>11, <3>2
        <4>2. held[w].slot = s
          BY <2>1, <3>1, <3>2 DEF OnlyOne
        <4> QED
          BY <4>1, <4>2 DEF QueueInd, RanBefore
      <3>3. CASE s # f
        BY <2>5, <2>11, <3>1, <3>3 DEF QueueInd, CompletedHasRun
      <3> QED
        BY <3>2, <3>3
    <2>12. QueueInd' /\ TerminalIsFinal
      BY <2>6, <2>7, <2>9, <2>11, Changed
    <2>13. ASSUME OwnIds, NEW s \in Present, jobs'[s] # jobs[s], OnlyOne(s)
           PROVE  held[w] = [slot |-> s, attempt |-> jobs[s].attempts]
      <3>1. s = f /\ held[w].slot = s
        BY <2>1, <2>5, <2>6, <2>13 DEF OnlyOne
      <3>2. jobs[s].attempts = held[w].attempt
        BY <2>2, <2>13, <3>1 DEF QueueInd, OwnLease, Engaged
      <3>3. held[w] \in [slot : Slots \cup {0}, attempt : Nat]
        BY DEF QueueInd, TypeOK
      <3> QED
        BY <3>1, <3>2, <3>3
    <2> QED
      BY <2>12, <2>13
  <1> QED
    BY <1>1, <1>2

LEMMA ClaimKeeps ==
  ASSUME QueueInd, NEW w \in Workers, pc[w] = "claim", Claimable(w) # {},
         NEW c, c = NextJobToClaim(w), jobs' = Claimed(w, c),
         \/ /\ pc' = [pc EXCEPT ![w] = "run"]
            /\ held' = [held EXCEPT ![w] = [slot |-> c, attempt |-> jobs[c].attempts + 1]]
         \/ pc' = [pc EXCEPT ![w] = "idle"] /\ UNCHANGED held,
         faults' \in 0..MaxFaults, UNCHANGED <<enqueued, fresh, runs, orgs, operator>>
  PROVE  QueueInd' /\ TerminalIsFinal
  <1> DEFINE k == ClaimedJob(w, jobs[c])
             n == jobs[c].attempts + 1
  <1>1. /\ c \in Present /\ c \in Slots /\ jobs[c].wait = 0
        /\ jobs[c].status \in {"pending", "retry_wait"}
    BY NextJobIsClaimable DEF QueueInd, Claimable, Present
  <1>2. JobOK(jobs[c])
    BY <1>1 DEF QueueInd, JobsOK
  <1>3. /\ JobOK(k) /\ k.org = jobs[c].org /\ k.created = jobs[c].created
        /\ k.owner = WorkerId[w] /\ k.attempts = n /\ k.status = "running"
    BY <1>1, <1>2, ClaimedJobOK
  <1>4. n \in Nat /\ jobs[c].attempts \in Nat
    BY <1>2 DEF JobOK, Job
  <1>5. jobs' = [jobs EXCEPT ![c] = k]
    BY DEF Claimed
  <1> HIDE DEF k
  <1>6. \A s \in Slots : jobs'[s] = IF s = c THEN k ELSE jobs[s]
    BY <1>5 DEF QueueInd, TypeOK
  <1>7. k \in Job
    BY <1>3 DEF JobOK
  <1>8. Present' = Present
    BY <1>1, <1>6, <1>7, NoJobAssumption DEF Present
  <1>9. TypeOK'
    <2>1. [slot |-> c, attempt |-> n] \in [slot : Slots \cup {0}, attempt : Nat]
      BY <1>1, <1>4
    <2>2. jobs' \in [Slots -> Job \cup {NoJob}]
      BY <1>5, <1>7 DEF QueueInd, TypeOK
    <2> HIDE DEF n
    <2>3. /\ held' \in [Workers -> [slot : Slots \cup {0}, attempt : Nat]]
          /\ pc' \in [Workers -> {"idle", "recover", "claim", "run", "complete", "fail"}]
      <3>1. CASE UNCHANGED held /\ pc' = [pc EXCEPT ![w] = "idle"]
        BY <3>1 DEF QueueInd, TypeOK
      <3>2. CASE /\ pc' = [pc EXCEPT ![w] = "run"]
                 /\ held' = [held EXCEPT ![w] = [slot |-> c, attempt |-> n]]
        BY <2>1, <3>2 DEF QueueInd, TypeOK
      <3> QED
        BY <3>1, <3>2 DEF n
    <2> QED
      BY <2>2, <2>3 DEF QueueInd, TypeOK
  <1>10. JobsOK'
    BY <1>3, <1>6, <1>8 DEF JobsOK, QueueInd, JobOK, Present
  <1>11. SlotsUsed'
    <2>1. c <= enqueued
      BY <1>1, JobsAssumption DEF QueueInd, TypeOK, SlotsUsed, Slots, Present
    <2>2. \A s \in Slots : s > enqueued' => jobs'[s] = NoJob /\ runs'[s] = 0
      <3> SUFFICES ASSUME NEW s \in Slots, s > enqueued
                   PROVE  jobs'[s] = NoJob /\ runs[s] = 0
        OBVIOUS
      <3>1. s # c
        BY <1>1, <2>1, JobsAssumption DEF QueueInd, TypeOK, Slots
      <3> QED
        BY <1>6, <3>1 DEF QueueInd, SlotsUsed
    <2>3. \A v \in Workers : held'[v].slot \in {held[v].slot, c}
      BY DEF QueueInd, TypeOK
    <2>4. \A v \in Workers : held'[v].slot <= enqueued'
      BY <2>1, <2>3 DEF QueueInd, SlotsUsed
    <2>5. \A v \in Workers : pc'[v] \in Engaged => held'[v].slot \in Slots
      BY <1>1, <2>3 DEF QueueInd, SlotsUsed, TypeOK, Engaged
    <2> QED
      BY <2>2, <2>4, <2>5 DEF SlotsUsed
  <1>12. RunsCovered'
    <2> SUFFICES ASSUME NEW s \in Present
                 PROVE  runs'[s] + Cardinality(Running(s)') <= jobs'[s].attempts
      BY <1>8 DEF RunsCovered
    <2>1. /\ runs[s] + Cardinality(Running(s)) <= jobs[s].attempts
          /\ runs'[s] = runs[s] /\ runs[s] \in Nat /\ jobs[s].attempts \in Nat /\ s \in Slots
      BY DEF QueueInd, RunsCovered, TypeOK, JobsOK, JobOK, Job, Present
    <2>2. CASE s # c
      <3>1. Running(s)' \subseteq Running(s)
        BY <2>2 DEF Running, QueueInd, TypeOK
      <3>2. /\ Cardinality(Running(s)') \in Nat
            /\ Cardinality(Running(s)') <= Cardinality(Running(s))
        BY <3>1, RunningFinite, FS_Subset, FS_CardinalityType
      <3>3. jobs'[s].attempts = jobs[s].attempts
        BY <1>6, <2>1, <2>2
      <3> QED
        BY <2>1, <3>2, <3>3, RunningFinite
    <2>3. CASE s = c
      <3>1. Running(s)' \subseteq Running(s) \cup {w} /\ w \notin Running(s)
        BY DEF Running, QueueInd, TypeOK
      <3>2. /\ IsFiniteSet(Running(s) \cup {w})
            /\ Cardinality(Running(s) \cup {w}) = Cardinality(Running(s)) + 1
        BY <3>1, RunningFinite, FS_AddElement
      <3>3. /\ Cardinality(Running(s)') \in Nat
            /\ Cardinality(Running(s)') <= Cardinality(Running(s)) + 1
        BY <3>1, <3>2, FS_Subset, FS_CardinalityType
      <3>4. jobs'[s].attempts = jobs[s].attempts + 1
        BY <1>3, <1>6, <2>1, <2>3
      <3> QED
        BY <2>1, <3>3, <3>4, RunningFinite
    <2> QED
      BY <2>2, <2>3
  <1>13. RanBefore'
    BY DEF QueueInd, TypeOK, RanBefore
  <1>14. CompletedHasRun'
    <2> SUFFICES ASSUME NEW s \in Present, jobs'[s].status = "completed", OnlyOne(s)'
                 PROVE  runs[s] > 0
      BY <1>8 DEF CompletedHasRun
    <2>1. s # c /\ jobs[s].status = "completed"
      BY <1>3, <1>6 DEF Present
    <2>2. \A t \in Present : /\ jobs'[t] # NoJob /\ jobs'[t].org = jobs[t].org
                             /\ jobs'[t].created = jobs[t].created
      BY <1>3, <1>6, <1>7, NoJobAssumption DEF Present
    <2> QED
      BY <2>1, <2>2, AloneBefore DEF QueueInd, CompletedHasRun
  <1>15. OwnLease'
    <2> SUFFICES ASSUME OwnIds, NEW v \in Workers, pc'[v] \in Engaged,
                        held'[v].slot \in Present,
                        jobs'[held'[v].slot].owner = WorkerId[v]
                 PROVE  jobs'[held'[v].slot].attempts = held'[v].attempt
      BY <1>8 DEF OwnLease, OwnIds
    <2>1. CASE v = w
      <3>1. held'[v] = [slot |-> c, attempt |-> n]
        BY <2>1 DEF Engaged, QueueInd, TypeOK
      <3> QED
        BY <1>1, <1>3, <1>6, <3>1
    <2>2. CASE v # w
      <3>1. held'[v] = held[v] /\ pc[v] \in Engaged
        BY <2>2 DEF QueueInd, TypeOK
      <3>2. held[v].slot # c
        BY <1>1, <1>3, <1>6, <2>2, <3>1 DEF OwnIds
      <3> QED
        BY <1>6, <3>1, <3>2 DEF QueueInd, OwnLease, Present
    <2> QED
      BY <2>1, <2>2
  <1>16. TerminalIsFinal
    BY <1>1, <1>6 DEF TerminalIsFinal, Terminal, Present
  <1> QED
    BY <1>9, <1>10, <1>11, <1>12, <1>13, <1>14, <1>15, <1>16 DEF QueueInd

LEMMA RunKeeps ==
  ASSUME QueueInd, NEW w \in Workers, pc[w] = "run",
         runs' = [runs EXCEPT ![held[w].slot] = @ + 1],
         NEW p \in {"complete", "fail", "idle"}, pc' = [pc EXCEPT ![w] = p],
         faults' \in 0..MaxFaults, UNCHANGED <<jobs, enqueued, fresh, orgs, operator, held>>
  PROVE  QueueInd' /\ TerminalIsFinal
  <1> DEFINE h == held[w].slot
  <1>1. h \in Slots /\ h <= enqueued /\ enqueued \in Nat
    BY JobsAssumption DEF QueueInd, TypeOK, SlotsUsed, Engaged, Slots
  <1>2. \A s \in Slots : runs[s] \in Nat /\ runs'[s] = IF s = h THEN runs[s] + 1 ELSE runs[s]
    BY <1>1 DEF QueueInd, TypeOK
  <1> HIDE DEF h
  <1>3. Present' = Present
    BY DEF Present
  <1>4. TypeOK'
    <2>1. runs' \in [Slots -> Nat]
      <3> DEFINE n == runs[h] + 1
      <3>1. n \in Nat /\ runs' = [runs EXCEPT ![h] = n]
        BY <1>1, <1>2 DEF h
      <3> HIDE DEF n
      <3> QED
        BY <3>1 DEF QueueInd, TypeOK
    <2>2. pc' \in [Workers -> {"idle", "recover", "claim", "run", "complete", "fail"}]
      BY DEF QueueInd, TypeOK
    <2> QED
      BY <2>1, <2>2 DEF QueueInd, TypeOK
  <1>5. JobsOK'
    BY <1>3 DEF QueueInd, JobsOK, JobOK
  <1>6. SlotsUsed'
    <2>1. \A s \in Slots : s > enqueued => jobs[s] = NoJob /\ runs'[s] = 0
      BY <1>1, <1>2, JobsAssumption DEF QueueInd, SlotsUsed, Slots
    <2>2. \A v \in Workers : pc'[v] \in Engaged => held[v].slot \in Slots
      BY DEF QueueInd, TypeOK, SlotsUsed, Engaged
    <2> QED
      BY <2>1, <2>2 DEF QueueInd, SlotsUsed
  <1>7. RunsCovered'
    <2> SUFFICES ASSUME NEW s \in Present
                 PROVE  runs'[s] + Cardinality(Running(s)') <= jobs[s].attempts
      BY <1>3 DEF RunsCovered
    <2>1. /\ runs[s] + Cardinality(Running(s)) <= jobs[s].attempts
          /\ runs[s] \in Nat /\ jobs[s].attempts \in Nat /\ s \in Slots
      BY DEF QueueInd, RunsCovered, TypeOK, JobsOK, JobOK, Job, Present
    <2>2. CASE s = h
      <3>1. w \in Running(s) /\ Running(s)' = Running(s) \ {w}
        BY <2>2 DEF Running, QueueInd, TypeOK, h
      <3>2. Cardinality(Running(s)') = Cardinality(Running(s)) - 1
        BY <3>1, RunningFinite, FS_RemoveElement
      <3> QED
        BY <1>2, <2>1, <2>2, <3>2, RunningFinite
    <2>3. CASE s # h
      <3>1. Running(s)' = Running(s)
        BY <2>3 DEF Running, QueueInd, TypeOK, h
      <3> QED
        BY <1>2, <2>1, <2>3, <3>1
    <2> QED
      BY <2>2, <2>3
  <1>8. RanBefore'
    <2> SUFFICES ASSUME NEW v \in Workers, pc'[v] = "complete"
                 PROVE  runs'[held[v].slot] > 0
      BY DEF RanBefore
    <2>1. CASE v = w
      BY <1>1, <1>2, <2>1 DEF h
    <2>2. CASE v # w
      <3>1. pc[v] = "complete" /\ held[v].slot \in Slots
        BY <2>2 DEF QueueInd, TypeOK, SlotsUsed, Engaged
      <3> QED
        BY <1>2, <3>1 DEF QueueInd, RanBefore
    <2> QED
      BY <2>1, <2>2
  <1>9. CompletedHasRun'
    <2>1. \A s \in Slots : OnlyOne(s)' <=> OnlyOne(s)
      BY <1>3 DEF OnlyOne, SameId
    <2> QED
      BY <1>2, <1>3, <2>1 DEF QueueInd, CompletedHasRun, Present
  <1>10. OwnLease'
    BY <1>3 DEF QueueInd, TypeOK, OwnLease, OwnIds, Engaged
  <1>11. TerminalIsFinal
    BY DEF TerminalIsFinal
  <1> QED
    BY <1>4, <1>5, <1>6, <1>7, <1>8, <1>9, <1>10, <1>11 DEF QueueInd

LEMMA EnqueueKeeps ==
  ASSUME QueueInd, NEW a \in Actors, NEW o \in Orgs, NEW limit \in AttemptLimits,
         EnqueuePlanJob(a, o, limit)
  PROVE  QueueInd' /\ TerminalIsFinal
  <1>0. PICK e \in Slots : e = enqueued + 1
    BY DEF EnqueuePlanJob
  <1>1. PICK created \in Instants :
          jobs' = [jobs EXCEPT ![e] =
                     [org |-> o, created |-> created, status |-> "pending",
                      attempts |-> 0, limit |-> limit, owner |-> NoOwner,
                      lease |-> 0, wait |-> 0]]
    BY <1>0 DEF EnqueuePlanJob
  <1> DEFINE k == [org |-> o, created |-> created, status |-> "pending",
                   attempts |-> 0, limit |-> limit, owner |-> NoOwner,
                   lease |-> 0, wait |-> 0]
  <1>2. /\ e \in Slots /\ enqueued \in Nat /\ e = enqueued + 1 /\ enqueued' = e
        /\ UNCHANGED <<runs, orgs, operator, pc, held, faults>> /\ fresh' = TRUE
    BY <1>0, JobsAssumption DEF EnqueuePlanJob, QueueInd, TypeOK, Slots
  <1>3. created \in Nat
    BY <1>2 DEF Instants, QueueInd, JobsOK, JobOK, Job
  <1>4. k \in Job
    BY <1>3, TimersAssumption DEF Job, Owners
  <1>5. JobOK(k)
    BY <1>4, LimitsAssumption DEF JobOK
  <1>6. jobs[e] = NoJob /\ runs[e] = 0 /\ Running(e) = {}
    BY <1>2 DEF QueueInd, SlotsUsed, Running, TypeOK
  <1>7. k.status = "pending" /\ k.owner = NoOwner /\ k.attempts = 0
    OBVIOUS
  <1>8. jobs' = [jobs EXCEPT ![e] = k]
    BY <1>1
  <1> HIDE DEF k
  <1>9. \A s \in Slots : jobs'[s] = IF s = e THEN k ELSE jobs[s]
    BY <1>2, <1>8 DEF QueueInd, TypeOK
  <1>10. Present' = Present \cup {e} /\ e \notin Present
    BY <1>2, <1>4, <1>6, <1>9, NoJobAssumption DEF Present
  <1>11. TypeOK'
    <2>1. jobs' \in [Slots -> Job \cup {NoJob}]
      BY <1>4, <1>8 DEF QueueInd, TypeOK
    <2>2. fresh' \in BOOLEAN
      BY <1>2, Zenon
    <2> QED
      BY <1>2, <2>1, <2>2 DEF QueueInd, TypeOK
  <1>12. JobsOK'
    BY <1>5, <1>9, <1>10 DEF QueueInd, JobsOK, JobOK, Present
  <1>13. SlotsUsed'
    <2>1. ASSUME NEW s \in Slots, s > e
          PROVE  jobs'[s] = NoJob /\ runs[s] = 0
      BY <1>2, <1>9, <2>1, JobsAssumption DEF QueueInd, SlotsUsed, Slots
    <2>2. ASSUME NEW w \in Workers
          PROVE  held[w].slot <= e
      <3>1. held[w].slot <= enqueued /\ held[w].slot \in Nat
        BY JobsAssumption DEF QueueInd, TypeOK, SlotsUsed, Slots
      <3> QED
        BY <1>2, <3>1
    <2> QED
      BY <1>2, <2>1, <2>2 DEF QueueInd, SlotsUsed
  <1>14. RunsCovered'
    <2>1. \A s : Running(s)' = Running(s)
      BY <1>2 DEF Running
    <2>2. runs'[e] + Cardinality(Running(e)') <= jobs'[e].attempts
      BY <1>2, <1>6, <1>7, <1>9, <2>1, FS_EmptySet
    <2>3. ASSUME NEW s \in Present
          PROVE  runs'[s] + Cardinality(Running(s)') <= jobs'[s].attempts
      BY <1>2, <1>9, <1>10, <2>1 DEF QueueInd, RunsCovered, Present
    <2> QED
      BY <1>10, <2>2, <2>3 DEF RunsCovered
  <1>15. RanBefore'
    BY <1>2 DEF QueueInd, RanBefore
  <1>16. CompletedHasRun'
    <2> SUFFICES ASSUME NEW s \in Present, jobs'[s].status = "completed", OnlyOne(s)'
                 PROVE  runs[s] > 0
      BY <1>2, <1>7, <1>9, <1>10 DEF CompletedHasRun
    <2>1. \A t \in Present : jobs'[t] = jobs[t] /\ jobs'[t] # NoJob
      BY <1>9, <1>10 DEF Present
    <2> QED
      BY <2>1, AloneBefore DEF QueueInd, CompletedHasRun
  <1>17. OwnLease'
    <2> SUFFICES ASSUME OwnIds, NEW v \in Workers, pc[v] \in Engaged,
                        held[v].slot \in Present',
                        jobs'[held[v].slot].owner = WorkerId[v]
                 PROVE  jobs'[held[v].slot].attempts = held[v].attempt
      BY <1>2 DEF OwnLease, OwnIds
    <2>1. held[v].slot \in Slots /\ held[v].slot # e
      BY <1>2, <1>7, <1>9, OwnerAssumption DEF Present
    <2> QED
      BY <1>9, <1>10, <2>1 DEF QueueInd, OwnLease
  <1>18. TerminalIsFinal
    BY <1>9, <1>10 DEF TerminalIsFinal, Present
  <1> QED
    BY <1>11, <1>12, <1>13, <1>14, <1>15, <1>16, <1>17, <1>18 DEF QueueInd

LEMMA DeleteKeeps ==
  ASSUME QueueInd, NEW o \in Orgs, DeleteOrganization(o)
  PROVE  QueueInd' /\ TerminalIsFinal
  <1>1. Quiet
    BY DEF DeleteOrganization, Quiet, QueueInd, TypeOK, Engaged
  <1>2. ASSUME NEW s \in Slots
        PROVE  jobs'[s] = IF s \in Present /\ jobs[s].org = o THEN NoJob ELSE jobs[s]
    BY DEF DeleteOrganization
  <1>3. jobs' \in [Slots -> Job \cup {NoJob}]
    BY DEF DeleteOrganization, QueueInd, TypeOK
  <1>4. ASSUME NEW s \in Slots, jobs'[s] # NoJob
        PROVE  s \in Present /\ jobs[s].org # o /\ jobs'[s] = jobs[s]
    BY <1>2, <1>4 DEF Present
  <1>5. \A s \in Slots : jobs'[s] # NoJob => s \in Present /\ JobChange(jobs[s], jobs'[s])
    BY <1>4 DEF QueueInd, JobsOK, JobChange
  <1>6. ASSUME NEW s \in Slots, jobs'[s] # NoJob, jobs'[s].status = "completed", OnlyOne(s)'
        PROVE  runs[s] > 0
    <2>1. s \in Present /\ jobs[s].org # o /\ jobs'[s] = jobs[s]
      BY <1>4, <1>6
    <2>2. ASSUME NEW t \in Present, SameId(s, t)
          PROVE  t = s
      <3>1. t \in Slots /\ jobs'[t] = jobs[t] /\ jobs[t] # NoJob
        BY <1>2, <2>1, <2>2 DEF SameId, Present
      <3> QED
        BY <1>6, <2>1, <2>2, <3>1 DEF OnlyOne, SameId, Present
    <2> QED
      BY <1>6, <2>1, <2>2 DEF QueueInd, CompletedHasRun, OnlyOne
  <1> QED
    BY <1>1, <1>3, <1>5, <1>6, Changed

LEMMA TickKeeps ==
  ASSUME QueueInd, Tick
  PROVE  QueueInd' /\ TerminalIsFinal
  <1>1. Quiet
    <2>1. fresh' \in BOOLEAN
      BY Zenon DEF Tick
    <2> QED
      BY <2>1 DEF Tick, Quiet, QueueInd, TypeOK, Engaged
  <1>2. ASSUME NEW s \in Present
        PROVE  /\ s \in Slots /\ JobChange(jobs[s], jobs'[s])
               /\ jobs'[s].status = jobs[s].status
    <2>1. s \in Slots /\ JobOK(jobs[s])
      BY DEF QueueInd, JobsOK, Present
    <2>2. jobs'[s] = [jobs[s] EXCEPT !.lease = RunDown(@), !.wait = RunDown(@)]
      BY <2>1 DEF Tick
    <2> QED
      BY <2>1, <2>2, TickedJobChange
  <1>3. \A s \in Slots : s \notin Present => jobs'[s] = NoJob
    BY DEF Tick
  <1>4. \A s \in Present : jobs'[s] \in Job
    BY <1>2 DEF JobChange, JobOK
  <1>5. jobs' \in [Slots -> Job \cup {NoJob}]
    <2>1. jobs' = [s \in Slots |-> jobs'[s]]
      BY DEF Tick
    <2> QED
      BY <1>3, <1>4, <2>1
  <1>6. ASSUME NEW s \in Slots, jobs'[s] # NoJob, jobs'[s].status = "completed", OnlyOne(s)'
        PROVE  runs[s] > 0
    <2>1. s \in Present /\ jobs[s].status = "completed"
      BY <1>2, <1>3, <1>6
    <2>2. \A t \in Present : /\ jobs'[t] # NoJob /\ jobs'[t].org = jobs[t].org
                             /\ jobs'[t].created = jobs[t].created
      BY <1>2, <1>4, NoJobAssumption DEF JobChange
    <2> QED
      BY <1>6, <2>1, <2>2, AloneBefore DEF QueueInd, CompletedHasRun
  <1> QED
    BY <1>1, <1>2, <1>3, <1>5, <1>6, Changed

-----------------------------------------------------------------------------
(* Steps of workers and faults *)

\* A step of w that goes from one place to another without a claim or a run.
LEMMA WorkerQuiet ==
  ASSUME QueueInd, NEW w \in Workers,
         NEW p \in {"idle", "recover", "claim", "fail"}, p = "fail" => pc[w] \in Engaged,
         Goto(w, p), faults' \in 0..MaxFaults,
         UNCHANGED <<enqueued, fresh, runs, orgs, operator, held>>
  PROVE  Quiet
  BY DEF Goto, Quiet, QueueInd, TypeOK, Engaged

\* Only w moves, so only w may have settled a job.
LEMMA OnlyMover ==
  ASSUME TypeOK, NEW w \in Workers, NEW p, Goto(w, p),
         OwnIds => \/ pc[w] \notin {"complete", "fail"}
                   \/ \A s \in Present : jobs'[s] # jobs[s] /\ OnlyOne(s) =>
                        held[w] = [slot |-> s, attempt |-> jobs[s].attempts]
  PROVE  OwnIds => OnlyClaimantFinalizes
  <1> SUFFICES ASSUME OwnIds, NEW v \in Workers, NEW s \in Present,
                      pc[v] \in {"complete", "fail"}, pc'[v] # pc[v], jobs'[s] # jobs[s],
                      OnlyOne(s)
               PROVE  held[v] = [slot |-> s, attempt |-> jobs[s].attempts]
    BY DEF OnlyClaimantFinalizes
  <1>1. v = w
    BY DEF Goto, TypeOK
  <1> QED
    BY <1>1

LEMMA StepKeeps ==
  ASSUME QueueInd, NEW w \in Workers, Step(w)
  PROVE  QueueInd' /\ QueueStep
  <1>0. TypeOK /\ UNCHANGED <<enqueued, fresh, orgs, operator, faults>> /\ faults' \in 0..MaxFaults
    BY DEF Step, ProcessPlanJobs, RecoverStalePlanJobs, ClaimNextPlanJob, RunPlan,
       FinalizeOk, FinalizeFailed, QueueInd, TypeOK
  <1>1. CASE ProcessPlanJobs(w)
    <2>1. Goto(w, "recover") /\ UNCHANGED <<jobs, runs, held>>
      BY <1>1 DEF ProcessPlanJobs
    <2>2. Quiet
      BY <1>0, <2>1, WorkerQuiet
    <2> QED
      BY <1>0, <2>1, <2>2, JobsAlone, OnlyMover DEF QueueStep
  <1>2. CASE RecoverStalePlanJobs(w)
    <2>1. pc[w] = "recover" /\ UNCHANGED <<runs, held>>
      BY <1>2 DEF RecoverStalePlanJobs
    <2>2. PICK p \in {"idle", "claim"} :
            Goto(w, p) /\ (UNCHANGED jobs \/ jobs' = Recovered(Scope[w]))
      BY <1>2 DEF RecoverStalePlanJobs
    <2>3. Quiet
      BY <1>0, <2>1, <2>2, WorkerQuiet
    <2>4. QueueInd' /\ TerminalIsFinal
      BY <2>2, <2>3, JobsAlone, RecoverKeeps
    <2>5. OwnIds => OnlyClaimantFinalizes
      BY <1>0, <2>1, <2>2, OnlyMover
    <2> QED
      BY <2>4, <2>5 DEF QueueStep
  <1>3. CASE ClaimNextPlanJob(w)
    <2>1. pc[w] = "claim" /\ UNCHANGED runs
      BY <1>3 DEF ClaimNextPlanJob
    <2>2. CASE MayClaim(w) /\ Claimable(w) # {}
      <3> DEFINE c == NextJobToClaim(w)
      <3>1. /\ jobs' = Claimed(w, c) /\ Goto(w, "run")
            /\ held' = [held EXCEPT ![w] = [slot |-> c, attempt |-> jobs[c].attempts + 1]]
        BY <1>3, <2>2 DEF ClaimNextPlanJob
      <3> HIDE DEF c
      <3>2. QueueInd' /\ TerminalIsFinal
        BY <1>0, <2>1, <2>2, <3>1, ClaimKeeps DEF Goto, c
      <3>3. OwnIds => OnlyClaimantFinalizes
        BY <1>0, <2>1, <3>1, OnlyMover
      <3> QED
        BY <3>2, <3>3 DEF QueueStep
    <2>3. CASE ~(MayClaim(w) /\ Claimable(w) # {})
      <3>1. Goto(w, "idle") /\ UNCHANGED <<jobs, held>>
        BY <1>3, <2>3 DEF ClaimNextPlanJob
      <3>2. Quiet
        BY <1>0, <2>1, <3>1, WorkerQuiet
      <3> QED
        BY <1>0, <3>1, <3>2, JobsAlone, OnlyMover DEF QueueStep
    <2> QED
      BY <2>2, <2>3
  <1>4. CASE RunPlan(w)
    <2>1. /\ pc[w] = "run" /\ Goto(w, "complete") /\ UNCHANGED <<jobs, held>>
          /\ runs' = [runs EXCEPT ![held[w].slot] = @ + 1]
      BY <1>4 DEF RunPlan
    <2>2. QueueInd' /\ TerminalIsFinal
      BY <1>0, <2>1, RunKeeps DEF Goto
    <2> QED
      BY <1>0, <2>1, <2>2, OnlyMover DEF QueueStep
  <1>5. CASE FinalizeOk(w) \/ FinalizeFailed(w)
    <2>1. /\ pc[w] \in {"complete", "fail"} /\ UNCHANGED <<runs, held>>
          /\ (pc[w] = "complete") <=> FinalizeOk(w)
      BY <1>5 DEF FinalizeOk, FinalizeFailed
    <2>2. CASE MayFinalize(w)
      <3>1. PICK p \in {"idle", "claim"}, ok \in BOOLEAN :
              /\ Goto(w, p) /\ jobs' = Finalized(w, ok) /\ (ok => pc[w] = "complete")
        <4>1. CASE FinalizeOk(w)
          BY <2>1, <2>2, <4>1, Zenon DEF FinalizeOk
        <4>2. CASE FinalizeFailed(w)
          BY <2>1, <2>2, <4>2, Zenon DEF FinalizeFailed
        <4> QED
          BY <1>5, <4>1, <4>2
      <3>2. Quiet
        BY <1>0, <2>1, <3>1, WorkerQuiet
      <3> QED
        BY <1>0, <2>1, <2>2, <3>1, <3>2, FinalizeKeeps, OnlyMover DEF QueueStep
    <2>3. CASE ~MayFinalize(w)
      <3>1. PICK p \in {"idle", "fail"} : Goto(w, p) /\ UNCHANGED jobs
        BY <1>5, <2>3 DEF FinalizeOk, FinalizeFailed
      <3>2. Quiet
        BY <1>0, <2>1, <3>1, WorkerQuiet DEF Engaged
      <3> QED
        BY <1>0, <3>1, <3>2, JobsAlone, OnlyMover DEF QueueStep
    <2> QED
      BY <2>2, <2>3
  <1> QED
    BY <1>1, <1>2, <1>3, <1>4, <1>5 DEF Step

\* The call of w fails or its process dies, with or without the effect of the
\* mutateState call it was at.
LEMMA FaultKeeps ==
  ASSUME QueueInd, NEW w \in Workers, StoreError(w) \/ Crash(w)
  PROVE  QueueInd' /\ QueueStep
  <1>1. PICK p \in {"idle", "fail"} :
          /\ Fault(w) /\ Goto(w, p) /\ (p = "fail" => pc[w] \in {"run", "complete"})
    BY DEF StoreError, Crash
  <1>2. /\ TypeOK /\ pc[w] # "idle" /\ UNCHANGED <<enqueued, fresh, orgs, operator, held>>
        /\ Stores(w) \/ UNCHANGED <<jobs, runs>>
    BY <1>1 DEF Fault, QueueInd
  <1>3. faults' \in 0..MaxFaults
    BY <1>1, FaultsAssumption DEF Fault, QueueInd, TypeOK
  <1>4. ASSUME UNCHANGED runs PROVE Quiet
    BY <1>1, <1>2, <1>3, <1>4, WorkerQuiet DEF Engaged
  <1>5. CASE UNCHANGED <<jobs, runs>>
    BY <1>1, <1>2, <1>4, <1>5, JobsAlone, OnlyMover DEF QueueStep
  <1>6. CASE /\ Stores(w) /\ pc[w] = "recover" /\ MayRecover(ActorOf[w], Scope[w])
    <2>1. jobs' = Recovered(Scope[w]) /\ UNCHANGED runs
      BY <1>6 DEF Stores
    <2> QED
      BY <1>1, <1>2, <1>4, <1>6, <2>1, RecoverKeeps, OnlyMover DEF QueueStep
  <1>7. CASE /\ Stores(w) /\ pc[w] = "claim" /\ MayClaim(w) /\ Claimable(w) # {}
    <2>1. jobs' = Claimed(w, NextJobToClaim(w)) /\ UNCHANGED runs
      BY <1>7 DEF Stores
    <2>2. p = "idle" /\ pc' = [pc EXCEPT ![w] = "idle"]
      BY <1>1, <1>7 DEF Goto
    <2>3. QueueInd' /\ TerminalIsFinal
      BY <1>2, <1>3, <1>7, <2>1, <2>2, ClaimKeeps
    <2> QED
      BY <1>1, <1>2, <1>7, <2>3, OnlyMover DEF QueueStep
  <1>8. CASE Stores(w) /\ pc[w] = "run"
    <2>1. runs' = [runs EXCEPT ![held[w].slot] = @ + 1] /\ UNCHANGED jobs
      BY <1>8 DEF Stores
    <2>2. QueueInd' /\ TerminalIsFinal
      BY <1>1, <1>2, <1>3, <1>8, <2>1, RunKeeps DEF Goto
    <2> QED
      BY <1>1, <1>2, <1>8, <2>2, OnlyMover DEF QueueStep
  <1>9. CASE Stores(w) /\ pc[w] \in {"complete", "fail"} /\ MayFinalize(w)
    <2>1. PICK ok \in BOOLEAN :
            jobs' = Finalized(w, ok) /\ (ok => pc[w] = "complete")
      <3>1. CASE pc[w] = "complete"
        <4>1. jobs' = Finalized(w, TRUE)
          BY <1>9, <3>1 DEF Stores
        <4> QED
          BY <3>1, <4>1, Zenon
      <3>2. CASE pc[w] = "fail"
        <4>1. jobs' = Finalized(w, FALSE)
          BY <1>9, <3>2 DEF Stores
        <4> QED
          BY <4>1, Zenon
      <3> QED
        BY <1>9, <3>1, <3>2
    <2>2. UNCHANGED runs
      BY <1>9 DEF Stores
    <2> QED
      BY <1>1, <1>2, <1>4, <1>9, <2>1, <2>2, FinalizeKeeps, OnlyMover DEF QueueStep
  <1>10. CASE /\ Stores(w)
              /\ ~(pc[w] = "recover" /\ MayRecover(ActorOf[w], Scope[w]))
              /\ ~(pc[w] = "claim" /\ MayClaim(w) /\ Claimable(w) # {})
              /\ pc[w] # "run"
              /\ ~(pc[w] \in {"complete", "fail"} /\ MayFinalize(w))
    BY <1>5, <1>10 DEF Stores
  <1> QED
    BY <1>2, <1>5, <1>6, <1>7, <1>8, <1>9, <1>10

\* Steps of the tenant that leave all workers where they are.
LEMMA OthersKeep ==
  ASSUME QueueInd,
         \/ \E a \in Actors, o \in Orgs, limit \in AttemptLimits : EnqueuePlanJob(a, o, limit)
         \/ \E a \in Actors, scope \in Orgs \cup {AllOrgs} : OperatorRecover(a, scope)
         \/ \E a \in Actors, o \in Orgs : ChangeRole(a, o)
         \/ \E o \in Orgs : DeleteOrganization(o)
         \/ Tick \/ UNCHANGED vars
  PROVE  QueueInd' /\ QueueStep
  <1>1. UNCHANGED pc
    BY DEF EnqueuePlanJob, OperatorRecover, ChangeRole, DeleteOrganization, Tick, vars
  <1>2. OnlyClaimantFinalizes
    BY <1>1 DEF OnlyClaimantFinalizes
  <1>3. ASSUME NEW a \in Actors, NEW scope, OperatorRecover(a, scope)
        PROVE  QueueInd' /\ TerminalIsFinal
    <2>1. Quiet /\ jobs' = Recovered(scope)
      BY <1>3 DEF OperatorRecover, Quiet, QueueInd, TypeOK, Engaged
    <2> QED
      BY <2>1, RecoverKeeps
  <1>4. ASSUME NEW a \in Actors, NEW o \in Orgs, ChangeRole(a, o)
        PROVE  QueueInd' /\ TerminalIsFinal
    <2>1. operator' \subseteq Actors \X Orgs
      BY <1>4 DEF ChangeRole, QueueInd, TypeOK
    <2>2. Quiet /\ UNCHANGED jobs
      BY <1>4, <2>1 DEF ChangeRole, Quiet, QueueInd, TypeOK, Engaged
    <2> QED
      BY <2>2, JobsAlone
  <1>5. ASSUME UNCHANGED vars
        PROVE  QueueInd' /\ TerminalIsFinal
    <2>1. Quiet /\ UNCHANGED jobs
      BY <1>5 DEF vars, Quiet, QueueInd, TypeOK, Engaged
    <2> QED
      BY <2>1, JobsAlone
  <1> QED
    BY <1>2, <1>3, <1>4, <1>5, EnqueueKeeps, DeleteKeeps, TickKeeps DEF QueueStep

LEMMA QueueNextKeeps == QueueInd /\ [Next]_vars => QueueInd' /\ QueueStep
  BY StepKeeps, FaultKeeps, OthersKeep DEF Next

-----------------------------------------------------------------------------
\* For any number of workers, jobs, organizations and faults: types, no job is
\* run more often than it was claimed or claimed more often than it may, it is
\* given up only when its attempts are used up, it has an owner exactly while it
\* runs, and a job recorded as completed was run.
THEOREM QueueCorrect == Spec => []QueueInvariant
  BY QueueStarts, QueueNextKeeps, QueueImplied, PTL DEF Spec

\* No late recovery or finalization reopens a finished job, and if workers have
\* ids of their own none of them settles the attempt of another.
THEOREM QueueStepsCorrect ==
  ASSUME OwnIds
  PROVE  Spec => QueueSteps
  <1>1. QueueInd /\ [Next]_vars => [TerminalIsFinal /\ OnlyClaimantFinalizes]_vars
    BY QueueNextKeeps DEF QueueStep
  <1> QED
    BY QueueStarts, QueueNextKeeps, <1>1, PTL DEF Spec, QueueSteps
=============================================================================
