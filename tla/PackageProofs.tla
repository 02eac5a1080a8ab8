--------------------------- MODULE PackageProofs ----------------------------
(***************************************************************************)
(* Proofs about the AI package and the CLI: MigrationRunner,               *)
(* CredentialRotation, ToolEvents, AuditSink, CircuitBreaker,              *)
(* ToolExecution, SemanticLedger, LifecycleMachines and ChangeBudget, each *)
(* in a part of its own.                                                   *)
(***************************************************************************)
EXTENDS MigrationRunner, CredentialRotation, ToolEvents, AuditSink,
        CircuitBreaker, ToolExecution, SemanticLedger, LifecycleMachines,
        ChangeBudget, FiniteSetTheorems, WellFoundedInduction, TLAPS

-----------------------------------------------------------------------------
\* MigrationRunner
(***************************************************************************)
(* Proof that the migrations table tells what is in the database, for any  *)
(* number of runners and migrations.                                       *)
(***************************************************************************)

Places == [at : {"off", "next", "second", "insert", "delete"}, m : 0..LastMigration]

RunnerTypes ==
  /\ runner \in [Runners -> Places]
  /\ \A r \in Runners : IF runner[r].at = "off" THEN runner[r] = Off
                                                ELSE runner[r].m \in Migrations
  /\ migrationFaults \in Nat
  /\ executed \in [Migrations -> SUBSET Statements]
  /\ recorded \subseteq Migrations

\* What a runner between two statements of a migration may rely on, unless
\* another one has run the migration's down meanwhile.
Staged == \A r \in Runners :
  LET m == runner[r].m IN
    /\ runner[r].at = "second" => m \in undone \/ 1 \in executed[m]
    /\ runner[r].at = "insert" => m \in undone \/ executed[m] = Statements
    /\ runner[r].at = "delete" => m \in undone

\* While nothing fails, a migration whose last statement has run is recorded or
\* has a runner that is about to record it.
Carried == migrationFaults = 0 =>
  \A m \in Migrations \ undone : 2 \in executed[m] =>
    m \in recorded \/ \E r \in Runners : runner[r].at = "insert" /\ runner[r].m = m

MigrationInd == RunnerTypes /\ Staged /\ Carried /\ RecordedIsApplied

-----------------------------------------------------------------------------
LEMMA MigrationStarts == MigrationInit => MigrationInd
  BY MigrationAssumption DEF MigrationInit, MigrationInd, RunnerTypes, Places, Staged, Carried,
     RecordedIsApplied, Off, Migrations, Statements

LEMMA MigrationImplied == MigrationInd => MigrationInvariant
  BY DEF MigrationInd, RunnerTypes, Places, Carried, MigrationInvariant, MigrationTypeOK,
     RecordedIsApplied, AppliedIsRecordedWithoutFaults, Off, Statements

\* Where the loop goes after a migration.
LEMMA NextAfterPlace ==
  ASSUME NEW m \in Migrations
  PROVE  /\ NextAfter(m) \in Places
         /\ IF NextAfter(m).at = "off" THEN NextAfter(m) = Off
                                       ELSE NextAfter(m).m \in Migrations
         /\ NextAfter(m).at \in {"off", "next"}
  BY MigrationAssumption DEF NextAfter, Places, On, Off, Migrations

\* A runner that leaves everything else alone and does not stop at an insert
\* takes nothing away.
LEMMA RunnerMoves ==
  ASSUME MigrationInd, NEW r \in Runners, NEW w \in Places,
         IF w.at = "off" THEN w = Off ELSE w.m \in Migrations,
         w.at \in {"off", "next"}, Goes(r, w),
         UNCHANGED <<executed, recorded, undone>>,
         migrationFaults' \in Nat,
         migrationFaults' = 0 => migrationFaults = 0 /\ runner[r].at # "insert"
  PROVE  MigrationInd'
  <1>1. RunnerTypes'
    BY DEF MigrationInd, RunnerTypes, Goes
  <1>2. Staged'
    BY DEF MigrationInd, RunnerTypes, Staged, Goes
  <1>3. Carried'
    BY DEF MigrationInd, RunnerTypes, Carried, Goes
  <1> QED
    BY <1>1, <1>2, <1>3 DEF MigrationInd, RecordedIsApplied

LEMMA StartRunKeeps ==
  ASSUME MigrationInd, NEW r \in Runners, StartRun(r)
  PROVE  MigrationInd'
  <1>1. On("next", 1) \in Places /\ 1 \in Migrations
    BY MigrationAssumption DEF On, Places, Migrations
  <1> QED
    BY <1>1, RunnerMoves DEF StartRun, On, Off, MigrationInd, RunnerTypes

LEMMA SkipKeeps ==
  ASSUME MigrationInd, NEW r \in Runners, Skip(r) \/ SecondRefused(r)
  PROVE  MigrationInd'
  <1>1. runner[r].m \in Migrations /\ runner[r].at # "insert"
    BY DEF Skip, SecondRefused, MigrationInd, RunnerTypes
  <1> QED
    BY <1>1, NextAfterPlace, RunnerMoves DEF Skip, SecondRefused, MigrationInd, RunnerTypes

LEMMA FailureKeeps ==
  ASSUME MigrationInd, NEW r \in Runners, StepFails(r) \/ AbandonRun(r)
  PROVE  MigrationInd'
  <1>1. migrationFaults' \in Nat /\ migrationFaults' # 0
    BY DEF StepFails, AbandonRun, MigrationInd, RunnerTypes
  <1>2. Off \in Places
    BY MigrationAssumption DEF Off, Places
  <1>3. CASE StepFails(r)
    BY <1>1, <1>3, NextAfterPlace, RunnerMoves DEF StepFails, MigrationInd, RunnerTypes
  <1>4. CASE AbandonRun(r)
    BY <1>1, <1>2, <1>4, RunnerMoves DEF AbandonRun, Off, MigrationInd, RunnerTypes
  <1> QED
    BY <1>3, <1>4

LEMMA FirstKeeps ==
  ASSUME MigrationInd, NEW r \in Runners, First(r)
  PROVE  MigrationInd'
  <1> DEFINE m == runner[r].m
  <1>1. /\ m \in Migrations /\ runner[r].at = "next"
        /\ executed' = [executed EXCEPT ![m] = @ \cup {1}]
        /\ runner' = [runner EXCEPT ![r] = [at |-> "second", m |-> m]]
        /\ UNCHANGED <<recorded, migrationFaults, undone>>
    BY DEF First, Goes, On, MigrationInd, RunnerTypes
  <1>2. [at |-> "second", m |-> m] \in Places
    BY <1>1, MigrationAssumption DEF Places, Migrations
  <1> HIDE DEF m
  <1>3. RunnerTypes'
    BY <1>1, <1>2 DEF MigrationInd, RunnerTypes, Statements
  <1>4. Staged'
    BY <1>1 DEF MigrationInd, RunnerTypes, Staged, Statements
  <1>5. Carried'
    BY <1>1 DEF MigrationInd, RunnerTypes, Carried
  <1>6. RecordedIsApplied'
    BY <1>1 DEF MigrationInd, RunnerTypes, RecordedIsApplied, Statements
  <1> QED
    BY <1>3, <1>4, <1>5, <1>6 DEF MigrationInd

LEMMA SecondKeeps ==
  ASSUME MigrationInd, NEW r \in Runners, Second(r)
  PROVE  MigrationInd'
  <1> DEFINE m == runner[r].m
  <1>1. /\ m \in Migrations /\ runner[r].at = "second"
        /\ executed' = [executed EXCEPT ![m] = @ \cup {2}]
        /\ runner' = [runner EXCEPT ![r] = [at |-> "insert", m |-> m]]
        /\ UNCHANGED <<recorded, migrationFaults, undone>>
        /\ m \in undone \/ 1 \in executed[m]
    BY DEF Second, Goes, On, MigrationInd, RunnerTypes, Staged
  <1>2. [at |-> "insert", m |-> m] \in Places
    BY <1>1, MigrationAssumption DEF Places, Migrations
  <1> HIDE DEF m
  <1>3. RunnerTypes'
    BY <1>1, <1>2 DEF MigrationInd, RunnerTypes, Statements
  <1>4. Staged'
    BY <1>1 DEF MigrationInd, RunnerTypes, Staged, Statements
  <1>5. Carried'
    BY <1>1 DEF MigrationInd, RunnerTypes, Carried
  <1>6. RecordedIsApplied'
    BY <1>1 DEF MigrationInd, RunnerTypes, RecordedIsApplied, Statements
  <1> QED
    BY <1>3, <1>4, <1>5, <1>6 DEF MigrationInd

LEMMA InsertRowKeeps ==
  ASSUME MigrationInd, NEW r \in Runners, InsertRow(r)
  PROVE  MigrationInd'
  <1> DEFINE m == runner[r].m
             w == NextAfter(m)
  <1>1. /\ m \in Migrations /\ runner[r].at = "insert"
        /\ recorded' = recorded \cup {m}
        /\ runner' = [runner EXCEPT ![r] = w]
        /\ UNCHANGED <<executed, migrationFaults, undone>>
        /\ m \in undone \/ executed[m] = Statements
    BY DEF InsertRow, Goes, MigrationInd, RunnerTypes, Staged
  <1>2. /\ w \in Places /\ w.at \in {"off", "next"}
        /\ IF w.at = "off" THEN w = Off ELSE w.m \in Migrations
    BY <1>1, NextAfterPlace
  <1> HIDE DEF w
  <1>3. RunnerTypes'
    BY <1>1, <1>2 DEF MigrationInd, RunnerTypes
  <1>4. Staged'
    BY <1>1, <1>2 DEF MigrationInd, RunnerTypes, Staged
  <1>5. Carried'
    BY <1>1, <1>2 DEF MigrationInd, RunnerTypes, Carried
  <1>6. RecordedIsApplied'
    BY <1>1 DEF MigrationInd, RecordedIsApplied
  <1> QED
    BY <1>3, <1>4, <1>5, <1>6 DEF MigrationInd

LEMMA StartRollbackKeeps ==
  ASSUME MigrationInd, NEW r \in Runners, NEW m \in Migrations, StartRollback(r, m)
  PROVE  MigrationInd'
  <1>1. /\ runner[r] = Off
        /\ executed' = [executed EXCEPT ![m] = {}]
        /\ undone' = undone \cup {m}
        /\ runner' = [runner EXCEPT ![r] = [at |-> "delete", m |-> m]]
        /\ UNCHANGED <<recorded, migrationFaults>>
    BY DEF StartRollback, Goes, On
  <1>2. [at |-> "delete", m |-> m] \in Places /\ runner[r].at = "off"
    BY <1>1, MigrationAssumption DEF Places, Migrations, Off
  <1>3. RunnerTypes'
    BY <1>1, <1>2 DEF MigrationInd, RunnerTypes, Statements
  <1>4. Staged'
    BY <1>1 DEF MigrationInd, RunnerTypes, Staged
  <1>5. Carried'
    BY <1>1, <1>2 DEF MigrationInd, RunnerTypes, Carried
  <1>6. RecordedIsApplied'
    BY <1>1 DEF MigrationInd, RunnerTypes, RecordedIsApplied
  <1> QED
    BY <1>3, <1>4, <1>5, <1>6 DEF MigrationInd

LEMMA DeleteRowKeeps ==
  ASSUME MigrationInd, NEW r \in Runners, DeleteRow(r)
  PROVE  MigrationInd'
  <1> DEFINE m == runner[r].m
  <1>1. /\ runner[r].at = "delete" /\ m \in undone
        /\ recorded' = recorded \ {m}
        /\ runner' = [runner EXCEPT ![r] = Off]
        /\ UNCHANGED <<executed, migrationFaults, undone>>
    BY DEF DeleteRow, Goes, MigrationInd, Staged
  <1>2. Off \in Places /\ Off.at = "off"
    BY MigrationAssumption DEF Places, Off
  <1> HIDE DEF m
  <1>3. RunnerTypes'
    BY <1>1, <1>2 DEF MigrationInd, RunnerTypes
  <1>4. Staged'
    BY <1>1, <1>2 DEF MigrationInd, RunnerTypes, Staged
  <1>5. Carried'
    BY <1>1, <1>2 DEF MigrationInd, RunnerTypes, Carried
  <1>6. RecordedIsApplied'
    BY <1>1 DEF MigrationInd, RecordedIsApplied
  <1> QED
    BY <1>3, <1>4, <1>5, <1>6 DEF MigrationInd

-----------------------------------------------------------------------------
\* The migrations table tells what is in the database, for any number of runners
\* that run, fail, stop and roll back at the same time.
THEOREM MigrationCorrect == MigrationSpec => []MigrationInvariant
  <1>1. MigrationInd /\ [MigrationNext]_migrationVars => MigrationInd'
    <2> SUFFICES ASSUME MigrationInd, [MigrationNext]_migrationVars
                 PROVE  MigrationInd'
      OBVIOUS
    <2>1. CASE MigrationNext
      BY <2>1, StartRunKeeps, SkipKeeps, FirstKeeps, SecondKeeps, InsertRowKeeps,
         FailureKeeps, StartRollbackKeeps, DeleteRowKeeps DEF MigrationNext
    <2>2. CASE UNCHANGED migrationVars
      BY <2>2 DEF migrationVars, MigrationInd, RunnerTypes, Staged, Carried,
         RecordedIsApplied
    <2> QED
      BY <2>1, <2>2
  <1> QED
    BY MigrationStarts, MigrationImplied, <1>1, PTL DEF MigrationSpec

-----------------------------------------------------------------------------
\* CredentialRotation
(***************************************************************************)
(* Proofs about CredentialRotation: a schedule never loses its timeout.    *)
(***************************************************************************)

RotTask == [kind : {"none", "register", "get", "rotate", "retire", "due"},
            at : {"idle", "get", "set", "reschedule"},
            value : 0..lastSecret, version : 0..2]

\* Every operation works with a secret that was generated.
RotTasks == lastSecret \in Nat /\ task \in [RotationTasks -> RotTask]

RotInd == RotTasks /\ RotationTypeOK /\ ScheduledIsArmed /\ AuditedWasStored

\* What the end of an operation leaves of its task: a scheduled
\* rotation stays one until it sets the timeout up again.
LEMMA RotTaskEndsType ==
  ASSUME RotTasks, NEW k \in RotationTasks
  PROVE  /\ TaskEnds(k) \in RotTask
         /\ task[k].kind = "due" => TaskEnds(k).kind = "due"
  <1>1. PICK t \in RotTask : t = task[k] BY DEF RotTasks
  <1>2. [t EXCEPT !.at = "reschedule"]
          = [kind |-> t.kind, at |-> "reschedule", value |-> t.value, version |-> t.version]
    BY <1>1 DEF RotTask
  <1>3. NoTask \in RotTask BY DEF NoTask, RotTask, RotTasks
  <1> QED BY <1>1, <1>2, <1>3 DEF TaskEnds, RotTask

\* A step that leaves the secrets counted and gives task k another record.
LEMMA RotTaskStep ==
  ASSUME RotTasks, NEW k \in RotationTasks, NEW t \in RotTask', Now(k, t),
         lastSecret' \in Nat, lastSecret' >= lastSecret
  PROVE  /\ RotTasks' /\ task'[k] = t
         /\ \A j \in RotationTasks : j # k => task'[j] = task[j]
  <1>1. ASSUME NEW r \in RotTask PROVE r \in RotTask'
    BY <1>1 DEF RotTask, RotTasks
  <1> QED BY <1>1 DEF RotTasks, Now

\* The schedule survives a step that neither arms nor disarms the timeout and
\* does not end a scheduled rotation.
LEMMA RotScheduleStep ==
  ASSUME ScheduledIsArmed, UNCHANGED <<scheduled, armed, disposed>>,
         NEW k \in RotationTasks,
         \A j \in RotationTasks : j # k => task'[j] = task[j],
         task[k].kind = "due" => task'[k].kind = "due"
  PROVE  ScheduledIsArmed'
  BY DEF ScheduledIsArmed

LEMMA RotBegun ==
  ASSUME NEW kind
  PROVE  [NoTask EXCEPT !.kind = kind, !.at = "get"]
           = [kind |-> kind, at |-> "get", value |-> 0, version |-> 0]
  <1>1. [NoTask EXCEPT !.kind = kind, !.at = "get"] = [[NoTask EXCEPT !.kind = kind] EXCEPT !.at = "get"]
    OBVIOUS
  <1>2. [NoTask EXCEPT !.kind = kind] = [kind |-> kind, at |-> "idle", value |-> 0, version |-> 0]
    BY DEF NoTask
  <1>3. [[kind |-> kind, at |-> "idle", value |-> 0, version |-> 0] EXCEPT !.at = "get"]
          = [kind |-> kind, at |-> "get", value |-> 0, version |-> 0]
    OBVIOUS
  <1> QED BY <1>1, <1>2, <1>3

LEMMA RotStep ==
  ASSUME RotInd, [RotationNext]_rotationVars
  PROVE  RotInd'
  <1> USE DEF RotInd
  <1>0. lastSecret \in Nat /\ (lastSecret' = lastSecret => NoTask \in RotTask')
    BY DEF RotTask, NoTask, RotTasks
  <1>1. ASSUME NEW k \in RotationTasks, Register(k) PROVE RotInd'
    <2> DEFINE t == [kind |-> "register", at |-> "set", value |-> lastSecret + 1, version |-> 1]
    <2>1. lastSecret' = lastSecret + 1 BY <1>1 DEF Register
    <2>2. t \in RotTask' BY <2>1, <1>0 DEF RotTask
    <2>3. Now(k, t) BY <1>1 DEF Register
    <2>4. RotTasks' /\ task'[k] = t /\ \A j \in RotationTasks : j # k => task'[j] = task[j]
      BY <2>1, <2>2, <2>3, <1>0, RotTaskStep
    <2>5. task[k].kind # "due" BY <1>1 DEF Register, NoTask
    <2>6. ScheduledIsArmed' BY <2>4, <2>5, <1>1, RotScheduleStep DEF Register
    <2>7. RotationTypeOK' BY <1>1, <1>0 DEF Register, RotationTypeOK
    <2> QED BY <2>4, <2>6, <2>7, <1>1 DEF Register, AuditedWasStored
  <1>2. ASSUME NEW k \in RotationTasks, NEW kind \in {"get", "rotate", "retire"},
               BeginTask(k, kind)
        PROVE RotInd'
    <2> DEFINE t == [kind |-> kind, at |-> "get", value |-> 0, version |-> 0]
    <2>1. UNCHANGED <<disposed, secret, managed, scheduled, armed, lastSecret, everStored, audited>>
      BY <1>2 DEF BeginTask, rotationCount
    <2>2. t \in RotTask' BY <2>1, <1>0 DEF RotTask
    <2>3. Now(k, t)
      <3>1. [NoTask EXCEPT !.kind = kind, !.at = "get"] = t BY RotBegun
      <3> QED BY <1>2, <3>1 DEF BeginTask
    <2>4. RotTasks' /\ task'[k] = t /\ \A j \in RotationTasks : j # k => task'[j] = task[j]
      BY <2>1, <2>2, <2>3, <1>0, RotTaskStep
    <2>5. task[k].kind # "due" BY <1>2 DEF BeginTask, NoTask
    <2>6. ScheduledIsArmed' BY <2>4, <2>5, <2>1, RotScheduleStep
    <2> QED BY <2>4, <2>6, <2>1 DEF RotationTypeOK, AuditedWasStored
  <1>3. ASSUME NEW k \in RotationTasks, GetFails(k) \/ SetFails(k) PROVE RotInd'
    <2>1. UNCHANGED <<disposed, secret, managed, scheduled, armed, lastSecret, everStored, audited>>
      BY <1>3 DEF GetFails, SetFails
    <2>2. PICK t : t = TaskEnds(k) OBVIOUS
    <2>3. t \in RotTask' /\ (task[k].kind = "due" => t.kind = "due")
      BY <2>1, <2>2, RotTaskEndsType DEF RotTask
    <2>4. Now(k, t) BY <2>2, <1>3 DEF GetFails, SetFails, Now
    <2>5. RotTasks' /\ task'[k] = t /\ \A j \in RotationTasks : j # k => task'[j] = task[j]
      BY <2>1, <2>3, <2>4, <1>0, RotTaskStep
    <2>6. ScheduledIsArmed' BY <2>5, <2>3, <2>1, RotScheduleStep
    <2> QED BY <2>5, <2>6, <2>1 DEF RotationTypeOK, AuditedWasStored
  <1>4. ASSUME NEW k \in RotationTasks, GetReturns(k) PROVE RotInd'
    <2>1. UNCHANGED <<disposed, secret, scheduled, armed, lastSecret, everStored, audited>>
      BY <1>4 DEF GetReturns, rotationCount
    <2>2. Now(k, NoTask) /\ task[k].kind # "due" BY <1>4 DEF GetReturns
    <2>3. RotTasks' /\ \A j \in RotationTasks : j # k => task'[j] = task[j]
      BY <2>1, <2>2, <1>0, RotTaskStep
    <2>4. ScheduledIsArmed' BY <2>1, <2>2, <2>3, RotScheduleStep
    <2>5. managed' \in [value : 0..lastSecret, version : 0..2]
      BY <1>4, <1>0 DEF GetReturns, Absent, RotationTypeOK
    <2> QED BY <2>1, <2>3, <2>4, <2>5 DEF RotationTypeOK, AuditedWasStored
  <1>5. ASSUME NEW k \in RotationTasks, RotateGot(k) PROVE RotInd'
    <2>1. lastSecret' = lastSecret + 1 /\ UNCHANGED <<disposed, secret, scheduled, armed, everStored, audited>>
      BY <1>5 DEF RotateGot
    <2>2. PICK old \in RotTask : old = task[k] BY DEF RotTasks
    <2> DEFINE t == [kind |-> old.kind, at |-> "set", value |-> lastSecret + 1, version |-> 2]
    <2>3. t \in RotTask' BY <2>1, <1>0 DEF RotTask
    <2>4. Now(k, t)
      <3>1. [old EXCEPT !.at = "set", !.value = lastSecret + 1, !.version = 2]
              = [[[old EXCEPT !.at = "set"] EXCEPT !.value = lastSecret + 1] EXCEPT !.version = 2]
        OBVIOUS
      <3>2. [old EXCEPT !.at = "set"]
              = [kind |-> old.kind, at |-> "set", value |-> old.value, version |-> old.version]
        BY DEF RotTask
      <3>3. [[kind |-> old.kind, at |-> "set", value |-> old.value, version |-> old.version]
               EXCEPT !.value = lastSecret + 1]
              = [kind |-> old.kind, at |-> "set", value |-> lastSecret + 1, version |-> old.version]
        OBVIOUS
      <3>4. [[kind |-> old.kind, at |-> "set", value |-> lastSecret + 1, version |-> old.version]
               EXCEPT !.version = 2] = t
        OBVIOUS
      <3>5. [old EXCEPT !.at = "set", !.value = lastSecret + 1, !.version = 2] = t
        BY <3>1, <3>2, <3>3, <3>4, Zenon
      <3> QED BY <1>5, <2>2, <3>5 DEF RotateGot
    <2>5. RotTasks' /\ task'[k] = t /\ \A j \in RotationTasks : j # k => task'[j] = task[j]
      BY <2>1, <2>3, <2>4, <1>0, RotTaskStep
    <2>6. ScheduledIsArmed' BY <2>5, <2>2, <2>1, RotScheduleStep
    <2>7. RotationTypeOK' BY <1>5, <2>1, <1>0 DEF RotateGot, RotationTypeOK
    <2> QED BY <2>5, <2>6, <2>7, <2>1 DEF AuditedWasStored
  <1>6. ASSUME NEW k \in RotationTasks, SetDone(k) PROVE RotInd'
    <2>1. UNCHANGED <<disposed, managed, scheduled, armed, lastSecret>>
      BY <1>6 DEF SetDone, rotationCount
    <2>2. PICK t : t = TaskEnds(k) OBVIOUS
    <2>3. t \in RotTask' /\ (task[k].kind = "due" => t.kind = "due")
      BY <2>1, <2>2, RotTaskEndsType DEF RotTask
    <2>4. Now(k, t) BY <2>2, <1>6 DEF SetDone, Now
    <2>5. RotTasks' /\ task'[k] = t /\ \A j \in RotationTasks : j # k => task'[j] = task[j]
      BY <2>1, <2>3, <2>4, <1>0, RotTaskStep
    <2>6. ScheduledIsArmed' BY <2>5, <2>3, <2>1, RotScheduleStep
    <2>7. task[k].value \in 0..lastSecret BY DEF RotTasks, RotTask
    <2>8. RotationTypeOK' BY <1>6, <2>1, <2>7 DEF SetDone, RotationTypeOK
    <2>9. AuditedWasStored' BY <1>6 DEF SetDone, AuditedWasStored
    <2> QED BY <2>5, <2>6, <2>8, <2>9
  <1>7. ASSUME NEW k \in RotationTasks, Due(k) PROVE RotInd'
    <2>1. UNCHANGED <<disposed, secret, managed, scheduled, lastSecret, everStored, audited>>
      BY <1>7 DEF Due, rotationCount
    <2>2. PICK autoRotate \in BOOLEAN :
            /\ armed' = (scheduled /\ ~autoRotate)
            /\ IF scheduled /\ autoRotate
               THEN Now(k, [NoTask EXCEPT !.kind = "due", !.at = "get"])
               ELSE UNCHANGED task
      BY <1>7 DEF Due
    <2>3. armed' \in BOOLEAN BY <2>2
    <2>4. CASE scheduled /\ autoRotate
      <3> DEFINE t == [kind |-> "due", at |-> "get", value |-> 0, version |-> 0]
      <3>1. t \in RotTask' BY <2>1, <1>0 DEF RotTask
      <3>2. Now(k, t)
        <4>1. [NoTask EXCEPT !.kind = "due", !.at = "get"] = t BY RotBegun
        <4> QED BY <2>2, <2>4, <4>1
      <3>3. RotTasks' /\ task'[k] = t
        BY <2>1, <3>1, <3>2, <1>0, RotTaskStep
      <3>4. ScheduledIsArmed' BY <3>3 DEF ScheduledIsArmed
      <3>5. RotationTypeOK' BY <2>1, <2>3 DEF RotationTypeOK
      <3> QED BY <3>3, <3>4, <3>5, <2>1 DEF AuditedWasStored
    <2>5. CASE ~(scheduled /\ autoRotate)
      <3>1. UNCHANGED task BY <2>2, <2>5
      <3>2. RotTasks' BY <3>1, <2>1 DEF RotTasks, RotTask
      <3>3. ScheduledIsArmed' BY <2>1, <2>2, <2>5 DEF ScheduledIsArmed
      <3> QED BY <3>2, <3>3, <2>1, <2>3 DEF RotationTypeOK, AuditedWasStored
    <2> QED BY <2>4, <2>5
  <1>8. ASSUME NEW k \in RotationTasks, Reschedule(k) PROVE RotInd'
    <2>1. UNCHANGED <<disposed, secret, managed, lastSecret, everStored, audited>>
          /\ scheduled' = TRUE /\ armed' = TRUE /\ Now(k, NoTask)
      BY <1>8 DEF Reschedule, rotationCount
    <2>2. RotTasks' BY <2>1, <1>0, RotTaskStep
    <2> QED BY <2>1, <2>2 DEF RotationTypeOK, AuditedWasStored, ScheduledIsArmed
  <1>9. CASE ScheduleRotation \/ CancelRotation
    <2>1. UNCHANGED <<disposed, secret, managed, task, lastSecret, everStored, audited>>
          /\ scheduled' \in BOOLEAN /\ armed' = scheduled'
      BY <1>9 DEF ScheduleRotation, CancelRotation
    <2>2. RotTasks' BY <2>1 DEF RotTasks, RotTask
    <2> QED BY <2>1, <2>2 DEF RotationTypeOK, AuditedWasStored, ScheduledIsArmed
  <1>10. CASE Dispose
    <2>1. UNCHANGED <<secret, managed, scheduled, task, lastSecret, everStored, audited>>
          /\ disposed' = TRUE /\ armed' = FALSE
      BY <1>10 DEF Dispose, rotationCount
    <2>2. RotTasks' BY <2>1 DEF RotTasks, RotTask
    <2> QED BY <2>1, <2>2 DEF RotationTypeOK, AuditedWasStored, ScheduledIsArmed
  <1>11. CASE UNCHANGED rotationVars
    BY <1>11 DEF rotationVars, rotationCount, RotTasks, RotTask, RotationTypeOK, AuditedWasStored,
                 ScheduledIsArmed
  <1> QED BY <1>1, <1>2, <1>3, <1>4, <1>5, <1>6, <1>7, <1>8, <1>9, <1>10, <1>11
          DEF RotationNext

\* However storage accesses fail and whatever operations run meanwhile, a
\* scheduled key keeps a pending timeout or a rotation that will arm it
\* (#onRotationDue), and only stored secrets are audited.
THEOREM RotationCorrect == RotationSpec => []RotationInvariant
  <1>1. RotationInit => RotInd
    <2> SUFFICES ASSUME RotationInit PROVE RotInd OBVIOUS
    <2>1. lastSecret = 0 /\ NoTask \in RotTask BY DEF RotationInit, RotTask, NoTask
    <2>2. RotTasks BY <2>1 DEF RotationInit, RotTasks
    <2>3. RotationTypeOK
      <3>1. secret \in 0..lastSecret /\ managed \in [value : 0..lastSecret, version : 0..2]
        BY DEF RotationInit, Absent
      <3>2. scheduled \in BOOLEAN /\ armed \in BOOLEAN BY DEF RotationInit
      <3> QED BY <3>1, <3>2 DEF RotationInit, RotationTypeOK
    <2> QED BY <2>2, <2>3 DEF RotationInit, RotInd, ScheduledIsArmed, AuditedWasStored
  <1>2. RotInd /\ [RotationNext]_rotationVars => RotInd' BY RotStep
  <1>3. RotInd => RotationInvariant BY DEF RotInd, RotationInvariant
  <1> QED BY <1>1, <1>2, <1>3, PTL DEF RotationSpec

-----------------------------------------------------------------------------
\* ToolEvents
(***************************************************************************)
(* Proofs about ToolEvents.  While no append throws, what a process        *)
(* reports does not depend on the process because everything it remembers  *)
(* is in the file too; a lone recorder reports its whole run because       *)
(* everything in the file is in its memory; and a permission line has its  *)
(* event because the event's append comes first and must have succeeded.   *)
(***************************************************************************)

-----------------------------------------------------------------------------
\* The events of the file stand in the order in which they were recorded.
FileInOrder ==
    /\ \A i \in DOMAIN eventFile : eventFile[i].body.serial <= serial
    /\ \A i, k \in DOMAIN eventFile :
          i < k => eventFile[i].body.serial < eventFile[k].body.serial
    /\ \A p \in EventProcesses : counter[p] <= serial

\* Nothing is cut while no append threw.
AllWhole ==
    failedAppends = 0 =>
        /\ \A i \in DOMAIN eventFile : eventFile[i].part = "whole"
        /\ \A i \in DOMAIN permFile : permFile[i].part = "whole"

\* An event is in the file, in a process's memory.
Filed(e) == \E j \in DOMAIN eventFile : eventFile[j].body = e
RemembersIt(p, e) == \E k \in DOMAIN remembered[p] : remembered[p][k] = e

Written(f, id) ==
    \E i \in DOMAIN f : f[i].part = "whole" /\ f[i].body.denied /\ EventId(f[i].body) = id

\* What a process remembers is in the file while no append threw.
RememberedIsFiled ==
    failedAppends = 0 =>
        \A p \in EventProcesses : \A i \in DOMAIN remembered[p] : Filed(remembered[p][i])

\* A process remembers its events by their numbers.
MemoryNumbered ==
    \A p \in EventProcesses :
        /\ Len(remembered[p]) = counter[p]
        /\ \A i \in DOMAIN remembered[p] : remembered[p][i].step = i

\* What is in the file is in the memory of who recorded it, until a process ends.
FiledIsRemembered ==
    processEnds = 0 =>
        \A i \in DOMAIN eventFile :
            \E p \in EventProcesses : RemembersIt(p, eventFile[i].body)

\* A request that is due has its event, and a process owes one at most.
DueHasEvent ==
    \A p \in EventProcesses :
        /\ \A id \in requestDue[p] : EventWritten(id)
        /\ \A a, b \in requestDue[p] : a = b

\* An id that a process knows was asked for, while no append threw.
KnownWasAsked ==
    failedAppends = 0 =>
        \A p \in EventProcesses, id \in RequestIds :
            permMap[p][id] # "none" => RequestAt(id, DOMAIN permFile)

\* The inductive invariant of the tool-failure runtime.
EventsInd ==
    /\ EventsTypeOK
    /\ FileInOrder
    /\ AllWhole
    /\ RememberedIsFiled
    /\ MemoryNumbered
    /\ FiledIsRemembered
    /\ DueHasEvent
    /\ PermissionsHaveEvents
    /\ KnownWasAsked
    /\ DecisionsHaveRequests
    /\ NoRequestMissing

-----------------------------------------------------------------------------
(* Sequences *)

LEMMA LeastNat ==
    ASSUME NEW T \in SUBSET Nat, T # {}
    PROVE \E x \in T : \A y \in T : x <= y
<1>1. PICK x \in T : \A y \in T : ~ (<<y, x>> \in OpToRel(<, Nat))
  BY WFMin, NatLessThanWellFounded, Zenon
<1>2. \A y \in T : ~ (y < x)
  BY <1>1 DEF OpToRel
<1> QED BY <1>2

\* A set of places of a sequence has a last one.
LEMMA LastPlace ==
    ASSUME NEW n \in Nat, NEW S \in SUBSET (1..n), S # {}
    PROVE \E m \in S : \A k \in S : k <= m
<1> DEFINE T == {n - k : k \in S}
<1>1. T \in SUBSET Nat /\ T # {}
  <2>1. \A k \in S : n - k \in Nat
    OBVIOUS
  <2> QED BY <2>1
<1>2. PICK x \in T : \A y \in T : x <= y
  BY <1>1, LeastNat
<1>3. PICK m \in S : x = n - m
  OBVIOUS
<1>4. ASSUME NEW k \in S PROVE k <= m
  <2>1. x <= n - k
    BY <1>2
  <2> QED BY <2>1, <1>3
<1> QED BY <1>4

\* g is f with one more element.
Longer(f, g, line) ==
    /\ Len(f) \in Nat /\ Len(g) = Len(f) + 1
    /\ DOMAIN f = 1..Len(f)
    /\ DOMAIN g = 1..(Len(f) + 1)
    /\ \A i \in DOMAIN f : i \in DOMAIN g /\ g[i] = f[i]
    /\ Len(f) + 1 \in DOMAIN g /\ g[Len(f) + 1] = line
    /\ \A i \in DOMAIN g : i \in DOMAIN f \/ i = Len(f) + 1

LEMMA AppendIsLonger ==
    ASSUME NEW S, NEW f \in Seq(S), NEW e \in S
    PROVE Append(f, e) \in Seq(S) /\ Longer(f, Append(f, e), e)
BY DEF Longer

\* An append leaves the file alone, or a line more, or throws.
LEMMA AppendedFacts ==
    ASSUME NEW S, NEW f \in Seq([body : S, part : Parts]), NEW body \in S,
           NEW outcome \in Outcomes
    PROVE /\ Appended(f, body, outcome) \in Seq([body : S, part : Parts])
          /\ outcome = "nothing" => Appended(f, body, outcome) = f
          /\ outcome # "nothing" =>
                /\ outcome \in Parts
                /\ Longer(f, Appended(f, body, outcome), [body |-> body, part |-> outcome])
<1>1. CASE outcome = "nothing"
  BY <1>1 DEF Appended
<1>2. CASE outcome # "nothing"
  <2>1. outcome \in Parts
    BY <1>2 DEF Outcomes
  <2>2. [body |-> body, part |-> outcome] \in [body : S, part : Parts]
    BY <2>1
  <2>3. Appended(f, body, outcome) = Append(f, [body |-> body, part |-> outcome])
    BY <1>2 DEF Appended
  <2> QED BY <1>2, <2>1, <2>2, <2>3, AppendIsLonger
<1> QED BY <1>1, <1>2

LEMMA CountFacts ==
    ASSUME EventsTypeOK, NEW outcome \in Outcomes, CountFailure(outcome)
    PROVE /\ failedAppends' \in 0..MaxFailedAppends
          /\ failedAppends' = 0 => outcome = "whole" /\ failedAppends = 0
<1>1. failedAppends \in Nat /\ failedAppends <= MaxFailedAppends
  BY ToolEventsAssumption DEF EventsTypeOK
<1> QED BY <1>1, ToolEventsAssumption DEF CountFailure

-----------------------------------------------------------------------------
(* The initial state *)

LEMMA EventsIndInit == EventsInit => EventsInd
<1> SUFFICES ASSUME EventsInit PROVE EventsInd
  OBVIOUS
<1>1. EventsTypeOK
  <2>1. PICK none \in [RequestIds -> Known] : none = [id \in RequestIds |-> "none"]
    BY DEF Known
  <2>2. permMap \in [EventProcesses -> [RequestIds -> Known]]
    BY <2>1 DEF EventsInit
  <2>3. /\ serial \in 0..MaxToolEvents /\ decided \in 0..MaxDecisions
        /\ failedAppends \in 0..MaxFailedAppends /\ processEnds \in 0..MaxProcessEnds
        /\ counter \in [EventProcesses -> 0..MaxToolEvents]
    BY ToolEventsAssumption DEF EventsInit
  <2>4. /\ eventFile \in Seq(EventLines) /\ permFile \in Seq(PermWrites)
        /\ remembered \in [EventProcesses -> Seq(Events)]
        /\ requestDue \in [EventProcesses -> SUBSET RequestIds]
    BY DEF EventsInit
  <2>5. cutShort \in BOOLEAN
    BY Zenon DEF EventsInit
  <2> QED BY <2>2, <2>3, <2>4, <2>5 DEF EventsTypeOK
<1>2. FileInOrder /\ AllWhole /\ RememberedIsFiled /\ MemoryNumbered /\ FiledIsRemembered
  BY DEF EventsInit, FileInOrder, AllWhole, RememberedIsFiled, MemoryNumbered, FiledIsRemembered
<1>3. DueHasEvent /\ PermissionsHaveEvents /\ KnownWasAsked
  BY DEF EventsInit, DueHasEvent, PermissionsHaveEvents, KnownWasAsked
<1>4. DecisionsHaveRequests /\ NoRequestMissing
  BY DEF EventsInit, DecisionsHaveRequests, NoRequestMissing
<1> QED BY <1>1, <1>2, <1>3, <1>4 DEF EventsInd

-----------------------------------------------------------------------------
(* recordToolEvent *)

LEMMA NewEventFacts ==
    ASSUME EventsInd, NEW p \in EventProcesses, NEW input \in ToolInputs,
           NEW denied \in BOOLEAN, serial < MaxToolEvents
    PROVE /\ NewEvent(p, input, denied) \in Events
          /\ NewEvent(p, input, denied).step = counter[p] + 1
          /\ NewEvent(p, input, denied).serial = serial + 1
          /\ NewEvent(p, input, denied).denied = denied
          /\ EventId(NewEvent(p, input, denied)) \in RequestIds
<1>1. counter[p] + 1 \in 1..MaxToolEvents /\ serial + 1 \in 1..MaxToolEvents
  BY ToolEventsAssumption DEF EventsInd, EventsTypeOK, FileInOrder
<1> QED BY <1>1 DEF NewEvent, Events, EventId, RequestIds

\* The file after the append: as it was, or a line longer.
LEMMA RecordFile ==
    ASSUME EventsInd, NEW p \in EventProcesses, NEW input \in ToolInputs,
           NEW denied \in BOOLEAN, NEW outcome \in Outcomes,
           RecordToolEvent(p, input, denied, outcome),
           NEW e \in Events, e = NewEvent(p, input, denied)
    PROVE /\ eventFile' \in Seq(EventLines)
          /\ \A i \in DOMAIN eventFile : i \in DOMAIN eventFile' /\ eventFile'[i] = eventFile[i]
          /\ \A i \in DOMAIN eventFile' :
                \/ i \in DOMAIN eventFile
                \/ /\ i = Len(eventFile) + 1 /\ outcome # "nothing"
                   /\ eventFile'[i] = [body |-> e, part |-> outcome]
          /\ outcome # "nothing" =>
                /\ Len(eventFile) + 1 \in DOMAIN eventFile'
                /\ eventFile'[Len(eventFile) + 1] = [body |-> e, part |-> outcome]
<1>1. eventFile \in Seq([body : Events, part : Parts])
  BY DEF EventsInd, EventsTypeOK, EventLines
<1>2. eventFile' = Appended(eventFile, e, outcome)
  BY DEF RecordToolEvent
<1>3. CASE outcome = "nothing"
  <2>1. eventFile' = eventFile
    BY <1>2, <1>3 DEF Appended
  <2> QED BY <1>1, <1>3, <2>1 DEF EventLines
<1>4. CASE outcome # "nothing"
  <2>1. Longer(eventFile, eventFile', [body |-> e, part |-> outcome])
    BY <1>1, <1>2, <1>4, AppendedFacts
  <2>2. eventFile' \in Seq(EventLines)
    BY <1>1, <1>2, AppendedFacts DEF EventLines
  <2> QED BY <2>1, <2>2, <1>4 DEF Longer
<1> QED BY <1>3, <1>4

LEMMA RecordTypes ==
    ASSUME EventsInd, NEW p \in EventProcesses, NEW input \in ToolInputs,
           NEW denied \in BOOLEAN, NEW outcome \in Outcomes,
           RecordToolEvent(p, input, denied, outcome)
    PROVE EventsTypeOK'
<1> USE DEF EventsTypeOK
<1>1. PICK e \in Events : e = NewEvent(p, input, denied)
  BY NewEventFacts DEF RecordToolEvent
<1>2. /\ counter' = [counter EXCEPT ![p] = counter[p] + 1]
      /\ remembered' = [remembered EXCEPT ![p] = Append(remembered[p], e)]
      /\ requestDue' = [requestDue EXCEPT ![p] =
                            IF denied /\ outcome = "whole" THEN {EventId(e)} ELSE {}]
      /\ serial' = serial + 1 /\ serial < MaxToolEvents
      /\ CountFailure(outcome)
      /\ UNCHANGED <<permFile, permMap, decided, processEnds, cutShort>>
  BY <1>1 DEF RecordToolEvent
<1>3. eventFile' \in Seq(EventLines)
  BY <1>1, RecordFile
<1>4. counter' \in [EventProcesses -> 0..MaxToolEvents] /\ serial' \in 0..MaxToolEvents
  <2>1. counter[p] + 1 \in 0..MaxToolEvents /\ serial + 1 \in 0..MaxToolEvents
    BY <1>2, ToolEventsAssumption DEF EventsInd, FileInOrder
  <2> QED BY <2>1, <1>2 DEF EventsInd
<1>5. remembered' \in [EventProcesses -> Seq(Events)]
  <2>1. Append(remembered[p], e) \in Seq(Events)
    BY DEF EventsInd
  <2> QED BY <2>1, <1>2 DEF EventsInd
<1>6. requestDue' \in [EventProcesses -> SUBSET RequestIds]
  <2>1. EventId(e) \in RequestIds
    BY <1>1, <1>2, NewEventFacts
  <2> QED BY <2>1, <1>2 DEF EventsInd
<1>7. failedAppends' \in 0..MaxFailedAppends
  BY <1>2, CountFacts DEF EventsInd
<1> QED BY <1>2, <1>3, <1>4, <1>5, <1>6, <1>7 DEF EventsInd

LEMMA RecordEvents ==
    ASSUME EventsInd, NEW p \in EventProcesses, NEW input \in ToolInputs,
           NEW denied \in BOOLEAN, NEW outcome \in Outcomes,
           RecordToolEvent(p, input, denied, outcome)
    PROVE FileInOrder' /\ AllWhole' /\ RememberedIsFiled' /\ MemoryNumbered' /\ FiledIsRemembered'
<1>0. EventsTypeOK /\ FileInOrder /\ AllWhole
  BY DEF EventsInd
<1>1. PICK e \in Events : e = NewEvent(p, input, denied)
  BY NewEventFacts DEF RecordToolEvent
<1>2. /\ counter' = [counter EXCEPT ![p] = counter[p] + 1]
      /\ remembered' = [remembered EXCEPT ![p] = Append(remembered[p], e)]
      /\ serial' = serial + 1 /\ serial < MaxToolEvents
      /\ UNCHANGED <<permFile, processEnds>>
  BY <1>1 DEF RecordToolEvent
<1>3. /\ e.step = counter[p] + 1 /\ e.serial = serial + 1
      /\ serial \in Nat /\ \A q \in EventProcesses : counter[q] \in Nat /\ counter[q] <= serial
  BY <1>0, <1>1, <1>2, NewEventFacts, ToolEventsAssumption DEF EventsTypeOK, FileInOrder
<1>4. /\ \A i \in DOMAIN eventFile : i \in DOMAIN eventFile' /\ eventFile'[i] = eventFile[i]
      /\ \A i \in DOMAIN eventFile' :
            \/ i \in DOMAIN eventFile
            \/ /\ i = Len(eventFile) + 1 /\ outcome # "nothing"
               /\ eventFile'[i] = [body |-> e, part |-> outcome]
      /\ outcome # "nothing" =>
            /\ Len(eventFile) + 1 \in DOMAIN eventFile'
            /\ eventFile'[Len(eventFile) + 1] = [body |-> e, part |-> outcome]
  BY <1>1, RecordFile
<1>5. failedAppends' = 0 => outcome = "whole" /\ failedAppends = 0
  BY <1>0, CountFacts DEF RecordToolEvent
<1>6. /\ DOMAIN eventFile = 1..Len(eventFile) /\ Len(eventFile) \in Nat
      /\ \A i \in DOMAIN eventFile : eventFile[i].body.serial \in Nat
  <2>1. eventFile \in Seq(EventLines)
    BY <1>0 DEF EventsTypeOK
  <2>2. \A i \in DOMAIN eventFile : eventFile[i] \in EventLines
    BY <2>1
  <2>3. \A i \in DOMAIN eventFile : eventFile[i].body \in Events
    BY <2>2 DEF EventLines
  <2> QED BY <2>1, <2>3, ToolEventsAssumption DEF Events
<1>7. FileInOrder'
  <2>1. ASSUME NEW i \in DOMAIN eventFile'
        PROVE /\ eventFile'[i].body.serial <= serial'
              /\ \A k \in DOMAIN eventFile' :
                    i < k => eventFile'[i].body.serial < eventFile'[k].body.serial
    <3>1. CASE i \in DOMAIN eventFile
      <4>1. eventFile'[i] = eventFile[i] /\ eventFile[i].body.serial <= serial
        BY <3>1, <1>0, <1>4 DEF FileInOrder
      <4>2. ASSUME NEW k \in DOMAIN eventFile', i < k
            PROVE eventFile'[i].body.serial < eventFile'[k].body.serial
        <5>1. CASE k \in DOMAIN eventFile
          BY <5>1, <4>1, <4>2, <3>1, <1>0, <1>4 DEF FileInOrder
        <5>2. CASE eventFile'[k] = [body |-> e, part |-> outcome]
          BY <5>2, <4>1, <3>1, <1>3, <1>6
        <5> QED BY <5>1, <5>2, <1>4
      <4> QED BY <4>1, <4>2, <3>1, <1>2, <1>3, <1>6
    <3>2. CASE i = Len(eventFile) + 1 /\ eventFile'[i] = [body |-> e, part |-> outcome]
      <4>1. \A k \in DOMAIN eventFile' : ~ (i < k)
        BY <3>2, <1>4, <1>6
      <4> QED BY <4>1, <3>2, <1>2, <1>3
    <3> QED BY <3>1, <3>2, <1>4
  <2>2. \A q \in EventProcesses : counter'[q] <= serial'
    BY <1>0, <1>2, <1>3 DEF EventsTypeOK
  <2> QED BY <2>1, <2>2 DEF FileInOrder
<1>8. AllWhole'
  BY <1>0, <1>2, <1>4, <1>5 DEF AllWhole
<1>9. ASSUME NEW q \in EventProcesses
      PROVE /\ q # p => remembered'[q] = remembered[q] /\ counter'[q] = counter[q]
            /\ q = p => /\ counter'[q] = counter[q] + 1
                        /\ Longer(remembered[q], remembered'[q], e)
  <2>1. remembered[q] \in Seq(Events)
    BY <1>0 DEF EventsTypeOK
  <2>2. Longer(remembered[q], Append(remembered[q], e), e)
    BY <2>1, AppendIsLonger
  <2> QED BY <2>2, <1>0, <1>2 DEF EventsTypeOK
<1>10. RememberedIsFiled'
  <2> SUFFICES ASSUME failedAppends' = 0, NEW q \in EventProcesses, NEW i \in DOMAIN remembered'[q]
               PROVE \E j \in DOMAIN eventFile' : eventFile'[j].body = remembered'[q][i]
    BY DEF RememberedIsFiled, Filed
  <2>1. CASE i \in DOMAIN remembered[q] /\ remembered'[q][i] = remembered[q][i]
    <3>1. PICK j \in DOMAIN eventFile : eventFile[j].body = remembered[q][i]
      BY <2>1, <1>5 DEF EventsInd, RememberedIsFiled, Filed
    <3> QED BY <3>1, <2>1, <1>4
  <2>2. CASE remembered'[q][i] = e
    <3>1. eventFile'[Len(eventFile) + 1].body = e /\ Len(eventFile) + 1 \in DOMAIN eventFile'
      BY <1>4, <1>5
    <3> QED BY <3>1, <2>2
  <2> QED BY <2>1, <2>2, <1>9 DEF Longer
<1>11. MemoryNumbered'
  <2> SUFFICES ASSUME NEW q \in EventProcesses
               PROVE /\ Len(remembered'[q]) = counter'[q]
                     /\ \A i \in DOMAIN remembered'[q] : remembered'[q][i].step = i
    BY DEF MemoryNumbered
  <2>1. /\ Len(remembered[q]) = counter[q]
        /\ \A i \in DOMAIN remembered[q] : remembered[q][i].step = i
    BY DEF EventsInd, MemoryNumbered
  <2> QED BY <2>1, <1>3, <1>9 DEF Longer
<1>12. FiledIsRemembered'
  <2> SUFFICES ASSUME processEnds' = 0, NEW i \in DOMAIN eventFile'
               PROVE \E q \in EventProcesses : \E k \in DOMAIN remembered'[q] :
                        remembered'[q][k] = eventFile'[i].body
    BY DEF FiledIsRemembered, RemembersIt
  <2>1. CASE i \in DOMAIN eventFile
    <3>1. PICK q \in EventProcesses : \E k \in DOMAIN remembered[q] :
             remembered[q][k] = eventFile[i].body
      BY <2>1, <1>2 DEF EventsInd, FiledIsRemembered, RemembersIt
    <3>2. PICK k \in DOMAIN remembered[q] : remembered[q][k] = eventFile[i].body
      BY <3>1
    <3>3. k \in DOMAIN remembered'[q] /\ remembered'[q][k] = remembered[q][k]
      BY <1>9 DEF Longer
    <3> QED BY <3>2, <3>3, <2>1, <1>4
  <2>2. CASE eventFile'[i] = [body |-> e, part |-> outcome]
    <3>1. Len(remembered[p]) + 1 \in DOMAIN remembered'[p]
          /\ remembered'[p][Len(remembered[p]) + 1] = e
      BY <1>9 DEF Longer
    <3> QED BY <3>1, <2>2
  <2> QED BY <2>1, <2>2, <1>4
<1> QED BY <1>7, <1>8, <1>10, <1>11, <1>12

LEMMA RecordPerms ==
    ASSUME EventsInd, NEW p \in EventProcesses, NEW input \in ToolInputs,
           NEW denied \in BOOLEAN, NEW outcome \in Outcomes,
           RecordToolEvent(p, input, denied, outcome)
    PROVE /\ DueHasEvent' /\ PermissionsHaveEvents' /\ KnownWasAsked'
          /\ DecisionsHaveRequests' /\ NoRequestMissing'
<1>0. EventsTypeOK
  BY DEF EventsInd
<1>1. PICK e \in Events : e = NewEvent(p, input, denied)
  BY NewEventFacts DEF RecordToolEvent
<1>2. /\ requestDue' = [requestDue EXCEPT ![p] =
                            IF denied /\ outcome = "whole" THEN {EventId(e)} ELSE {}]
      /\ requestDue[p] = {} /\ e.denied = denied
      /\ UNCHANGED <<permFile, permMap, cutShort>>
  BY <1>1, NewEventFacts DEF RecordToolEvent
<1>3. /\ \A i \in DOMAIN eventFile : i \in DOMAIN eventFile' /\ eventFile'[i] = eventFile[i]
      /\ \A i \in DOMAIN eventFile' :
            \/ i \in DOMAIN eventFile
            \/ /\ i = Len(eventFile) + 1 /\ outcome # "nothing"
               /\ eventFile'[i] = [body |-> e, part |-> outcome]
      /\ outcome # "nothing" =>
            /\ Len(eventFile) + 1 \in DOMAIN eventFile'
            /\ eventFile'[Len(eventFile) + 1] = [body |-> e, part |-> outcome]
  BY <1>1, RecordFile
<1>4. failedAppends' = 0 => outcome = "whole" /\ failedAppends = 0
  BY <1>0, CountFacts DEF RecordToolEvent
<1>5. ASSUME NEW id, EventWritten(id) PROVE Written(eventFile', id)
  BY <1>3, <1>5 DEF EventWritten, Written
<1>6. denied /\ outcome = "whole" => Written(eventFile', EventId(e))
  <2> SUFFICES ASSUME denied, outcome = "whole" PROVE Written(eventFile', EventId(e))
    OBVIOUS
  <2>1. PICK n \in DOMAIN eventFile' : eventFile'[n] = [body |-> e, part |-> outcome]
    BY <1>3
  <2>2. eventFile'[n].body = e /\ eventFile'[n].part = "whole"
    BY <2>1
  <2>3. e.denied
    BY <1>2
  <2> QED BY <2>2, <2>3, Zenon DEF Written
<1>7. \A q \in EventProcesses :
         /\ q # p => requestDue'[q] = requestDue[q]
         /\ q = p => requestDue'[q] = IF denied /\ outcome = "whole" THEN {EventId(e)} ELSE {}
  BY <1>0, <1>2 DEF EventsTypeOK
<1>8. DueHasEvent'
  <2> SUFFICES ASSUME NEW q \in EventProcesses
               PROVE /\ \A id \in requestDue'[q] : Written(eventFile', id)
                     /\ \A a, b \in requestDue'[q] : a = b
    BY DEF DueHasEvent, EventWritten, Written
  <2>1. CASE q # p
    BY <2>1, <1>5, <1>7 DEF EventsInd, DueHasEvent
  <2>2. CASE q = p
    BY <2>2, <1>6, <1>7
  <2> QED BY <2>1, <2>2
<1>9. PermissionsHaveEvents'
  <2> SUFFICES
         /\ \A i \in DOMAIN permFile : Written(eventFile', permFile[i].body.id)
         /\ \A q \in EventProcesses, id \in RequestIds :
               permMap[q][id] # "none" => Written(eventFile', id)
    BY <1>2 DEF PermissionsHaveEvents, EventWritten, Written
  <2> QED BY <1>5 DEF EventsInd, PermissionsHaveEvents
<1>10. KnownWasAsked' /\ DecisionsHaveRequests'
  BY <1>2, <1>4 DEF EventsInd, KnownWasAsked, DecisionsHaveRequests, RequestAt
<1>11. NoRequestMissing'
  <2> SUFFICES ASSUME failedAppends' = 0, ~cutShort, NEW i \in DOMAIN eventFile',
                      eventFile'[i].body.denied
               PROVE \/ RequestAt(EventId(eventFile'[i].body), DOMAIN permFile)
                     \/ \E q \in EventProcesses : EventId(eventFile'[i].body) \in requestDue'[q]
    BY <1>2 DEF NoRequestMissing, RequestAt, EventId
  <2>1. CASE i \in DOMAIN eventFile
    <3>1. \/ RequestAt(EventId(eventFile[i].body), DOMAIN permFile)
          \/ \E q \in EventProcesses : EventId(eventFile[i].body) \in requestDue[q]
      BY <2>1, <1>3, <1>4 DEF EventsInd, NoRequestMissing
    <3>2. ASSUME NEW q \in EventProcesses, EventId(eventFile[i].body) \in requestDue[q]
          PROVE EventId(eventFile[i].body) \in requestDue'[q]
      BY <3>2, <1>2, <1>7
    <3> QED BY <3>1, <3>2, <2>1, <1>3
  <2>2. CASE eventFile'[i] = [body |-> e, part |-> outcome]
    <3>1. denied /\ outcome = "whole"
      BY <2>2, <1>2, <1>4
    <3>2. EventId(e) \in requestDue'[p]
      BY <3>1, <1>7
    <3> QED BY <3>2, <2>2
  <2> QED BY <2>1, <2>2, <1>3
<1> QED BY <1>8, <1>9, <1>10, <1>11

-----------------------------------------------------------------------------
(* createPermissionRequest, decidePermission and the end of a process *)

\* What an append to the permission file leaves.
LEMMA PermAppend ==
    ASSUME permFile \in Seq(PermWrites), NEW line \in PermLines, NEW outcome \in Outcomes,
           permFile' = Appended(permFile, line, outcome)
    PROVE /\ permFile' \in Seq(PermWrites)
          /\ \A i \in DOMAIN permFile : i \in DOMAIN permFile' /\ permFile'[i] = permFile[i]
          /\ \A i \in DOMAIN permFile' :
                \/ i \in DOMAIN permFile
                \/ /\ i = Len(permFile) + 1 /\ outcome # "nothing"
                   /\ permFile'[i] = [body |-> line, part |-> outcome]
          /\ outcome # "nothing" =>
                /\ Len(permFile) + 1 \in DOMAIN permFile'
                /\ permFile'[Len(permFile) + 1] = [body |-> line, part |-> outcome]
          /\ DOMAIN permFile = 1..Len(permFile) /\ Len(permFile) \in Nat
<1>1. permFile \in Seq([body : PermLines, part : Parts])
  BY DEF PermWrites
<1>2. CASE outcome = "nothing"
  <2>1. permFile' = permFile
    BY <1>2 DEF Appended
  <2> QED BY <1>2, <2>1
<1>3. CASE outcome # "nothing"
  <2>1. Longer(permFile, permFile', [body |-> line, part |-> outcome])
    BY <1>1, <1>3, AppendedFacts
  <2>2. permFile' \in Seq(PermWrites)
    BY <1>1, AppendedFacts DEF PermWrites
  <2> QED BY <2>1, <2>2, <1>3 DEF Longer
<1> QED BY <1>2, <1>3

\* The line of a request, or of a decision on an id that was asked for.
LEMMA DecisionsStay ==
    ASSUME EventsInd, NEW line \in PermLines, NEW outcome \in Outcomes,
           permFile' = Appended(permFile, line, outcome), CountFailure(outcome),
           failedAppends = 0 => line.kind = "request" \/ RequestAt(line.id, DOMAIN permFile)
    PROVE DecisionsHaveRequests'
<1> SUFFICES ASSUME failedAppends' = 0, NEW i \in DOMAIN permFile',
                    permFile'[i].body.kind # "request"
             PROVE \E j \in 1..(i - 1) :
                     permFile'[j].body = [id |-> permFile'[i].body.id, kind |-> "request"]
  BY DEF DecisionsHaveRequests, RequestAt
<1>0. permFile \in Seq(PermWrites) /\ EventsTypeOK
  BY DEF EventsInd, EventsTypeOK
<1>1. failedAppends = 0
  BY <1>0, CountFacts
<1>2. /\ \A k \in DOMAIN permFile : k \in DOMAIN permFile' /\ permFile'[k] = permFile[k]
      /\ DOMAIN permFile = 1..Len(permFile) /\ Len(permFile) \in Nat
  BY <1>0, PermAppend
<1>3. CASE i \in DOMAIN permFile
  <2>1. permFile'[i] = permFile[i]
    BY <1>2, <1>3
  <2>2. PICK j \in 1..(i - 1) : permFile[j].body = [id |-> permFile[i].body.id, kind |-> "request"]
    BY <2>1, <1>1, <1>3 DEF EventsInd, DecisionsHaveRequests, RequestAt
  <2>3. j \in DOMAIN permFile
    BY <1>2, <1>3
  <2> QED BY <2>1, <2>2, <2>3, <1>2
<1>4. CASE i = Len(permFile) + 1 /\ permFile'[i] = [body |-> line, part |-> outcome]
  <2>1. permFile'[i].body = line
    BY <1>4
  <2>2. PICK j \in DOMAIN permFile : permFile[j].body = [id |-> line.id, kind |-> "request"]
    BY <2>1, <1>1 DEF RequestAt
  <2>3. j \in 1..(i - 1) /\ permFile'[j] = permFile[j]
    BY <1>2, <1>4
  <2> QED BY <2>1, <2>2, <2>3
<1> QED BY <1>0, <1>3, <1>4, PermAppend

\* A request stays in the file.
LEMMA RequestStays ==
    ASSUME permFile \in Seq(PermWrites), NEW line \in PermLines, NEW outcome \in Outcomes,
           permFile' = Appended(permFile, line, outcome),
           NEW id, RequestAt(id, DOMAIN permFile)
    PROVE \E j \in DOMAIN permFile' : permFile'[j].body = [id |-> id, kind |-> "request"]
<1>1. PICK j \in DOMAIN permFile : permFile[j].body = [id |-> id, kind |-> "request"]
  BY DEF RequestAt
<1>2. j \in DOMAIN permFile' /\ permFile'[j] = permFile[j]
  BY PermAppend
<1> QED BY <1>1, <1>2

LEMMA CreateStep ==
    ASSUME EventsInd, NEW p \in EventProcesses, NEW outcome \in Outcomes,
           CreatePermissionRequest(p, outcome)
    PROVE EventsInd'
<1>0. EventsTypeOK /\ permFile \in Seq(PermWrites) /\ requestDue[p] \subseteq RequestIds
  BY DEF EventsInd, EventsTypeOK
<1>1. PICK id \in requestDue[p] :
         /\ permMap' = [permMap EXCEPT ![p] = [permMap[p] EXCEPT ![id] = "request"]]
         /\ permFile' = Appended(permFile, [id |-> id, kind |-> "request"], outcome)
  BY DEF CreatePermissionRequest
<1>2. PICK line \in PermLines : line = [id |-> id, kind |-> "request"]
  BY <1>0 DEF PermLines
<1>3. /\ permFile' = Appended(permFile, line, outcome)
      /\ line.id = id /\ line.kind = "request" /\ id \in RequestIds
      /\ CountFailure(outcome)
      /\ requestDue' = [requestDue EXCEPT ![p] = {}]
      /\ UNCHANGED <<eventFile, counter, remembered, serial, decided, processEnds, cutShort>>
  BY <1>0, <1>1, <1>2 DEF CreatePermissionRequest
<1>4. /\ failedAppends' \in 0..MaxFailedAppends
      /\ failedAppends' = 0 => outcome = "whole" /\ failedAppends = 0
  BY <1>0, <1>3, CountFacts
<1>5. /\ permFile' \in Seq(PermWrites)
      /\ \A i \in DOMAIN permFile : i \in DOMAIN permFile' /\ permFile'[i] = permFile[i]
      /\ \A i \in DOMAIN permFile' :
            \/ i \in DOMAIN permFile
            \/ permFile'[i] = [body |-> line, part |-> outcome]
      /\ outcome # "nothing" =>
            /\ Len(permFile) + 1 \in DOMAIN permFile'
            /\ permFile'[Len(permFile) + 1] = [body |-> line, part |-> outcome]
  BY <1>0, <1>3, PermAppend
<1>6. permMap' \in [EventProcesses -> [RequestIds -> Known]]
  <2>1. permMap[p] \in [RequestIds -> Known] /\ "request" \in Known
    BY <1>0 DEF EventsTypeOK, Known
  <2>2. [permMap[p] EXCEPT ![id] = "request"] \in [RequestIds -> Known]
    BY <2>1
  <2> QED BY <2>2, <1>0, <1>1 DEF EventsTypeOK
<1>7. EventsTypeOK'
  <2>1. requestDue' \in [EventProcesses -> SUBSET RequestIds]
    BY <1>0, <1>3 DEF EventsTypeOK
  <2> QED BY <2>1, <1>0, <1>3, <1>4, <1>5, <1>6 DEF EventsTypeOK
<1>8. FileInOrder' /\ MemoryNumbered' /\ FiledIsRemembered' /\ RememberedIsFiled'
  BY <1>3, <1>4 DEF EventsInd, FileInOrder, MemoryNumbered, FiledIsRemembered, RemembersIt,
                    RememberedIsFiled, Filed
<1>9. AllWhole'
  <2> SUFFICES ASSUME failedAppends' = 0, NEW i \in DOMAIN permFile'
               PROVE permFile'[i].part = "whole"
    BY <1>3, <1>4 DEF EventsInd, AllWhole
  <2> QED BY <1>4, <1>5 DEF EventsInd, AllWhole
<1>10. DueHasEvent'
  <2>1. \A q \in EventProcesses : requestDue'[q] = requestDue[q] \/ requestDue'[q] = {}
    BY <1>0, <1>3 DEF EventsTypeOK
  <2> QED BY <2>1, <1>3 DEF EventsInd, DueHasEvent, EventWritten
<1>11. EventWritten(id)
  BY <1>1 DEF EventsInd, DueHasEvent
<1>12. ASSUME NEW q \in EventProcesses, NEW d \in RequestIds, permMap'[q][d] # "none"
       PROVE d = id \/ permMap[q][d] # "none"
  <2>1. CASE q = p
    <3>1. permMap'[q] = [permMap[q] EXCEPT ![id] = "request"] /\ permMap[q] \in [RequestIds -> Known]
      BY <2>1, <1>0, <1>1 DEF EventsTypeOK
    <3> QED BY <3>1, <1>12
  <2>2. CASE q # p
    BY <2>2, <1>0, <1>1, <1>12 DEF EventsTypeOK
  <2> QED BY <2>1, <2>2
<1>13. PermissionsHaveEvents'
  <2> SUFFICES
         /\ \A i \in DOMAIN permFile' : Written(eventFile, permFile'[i].body.id)
         /\ \A q \in EventProcesses, d \in RequestIds :
               permMap'[q][d] # "none" => Written(eventFile, d)
    BY <1>3 DEF PermissionsHaveEvents, EventWritten, Written
  <2>1. Written(eventFile, id)
    BY <1>11 DEF EventWritten, Written
  <2>2. /\ \A i \in DOMAIN permFile : Written(eventFile, permFile[i].body.id)
        /\ \A q \in EventProcesses, d \in RequestIds :
               permMap[q][d] # "none" => Written(eventFile, d)
    BY DEF EventsInd, PermissionsHaveEvents, EventWritten, Written
  <2>3. ASSUME NEW i \in DOMAIN permFile' PROVE Written(eventFile, permFile'[i].body.id)
    <3>1. CASE i \in DOMAIN permFile
      BY <3>1, <2>2, <1>5
    <3>2. CASE permFile'[i] = [body |-> line, part |-> outcome]
      <4>1. permFile'[i].body.id = id
        BY <3>2, <1>3
      <4> QED BY <4>1, <2>1
    <3> QED BY <3>1, <3>2, <1>5
  <2> QED BY <2>1, <2>2, <2>3, <1>12
<1>14. failedAppends' = 0 =>
          \E j \in DOMAIN permFile' : permFile'[j].body = [id |-> id, kind |-> "request"]
  <2> SUFFICES ASSUME failedAppends' = 0
               PROVE \E j \in DOMAIN permFile' : permFile'[j].body = [id |-> id, kind |-> "request"]
    OBVIOUS
  <2>1. /\ Len(permFile) + 1 \in DOMAIN permFile'
        /\ permFile'[Len(permFile) + 1].body = line
    BY <1>4, <1>5
  <2> QED BY <2>1, <1>2
<1>15. ASSUME failedAppends' = 0, NEW d, d = id \/ RequestAt(d, DOMAIN permFile)
       PROVE \E j \in DOMAIN permFile' : permFile'[j].body = [id |-> d, kind |-> "request"]
  BY <1>0, <1>3, <1>14, <1>15, RequestStays
<1>16. KnownWasAsked'
  <2> SUFFICES ASSUME failedAppends' = 0, NEW q \in EventProcesses, NEW d \in RequestIds,
                      permMap'[q][d] # "none"
               PROVE \E j \in DOMAIN permFile' : permFile'[j].body = [id |-> d, kind |-> "request"]
    BY DEF KnownWasAsked, RequestAt
  <2>1. d = id \/ RequestAt(d, DOMAIN permFile)
    BY <1>4, <1>12 DEF EventsInd, KnownWasAsked
  <2> QED BY <2>1, <1>15
<1>17. DecisionsHaveRequests'
  BY <1>3, DecisionsStay
<1>18. NoRequestMissing'
  <2> SUFFICES ASSUME failedAppends' = 0, ~cutShort, NEW i \in DOMAIN eventFile,
                      eventFile[i].body.denied, NEW d, d = EventId(eventFile[i].body)
               PROVE \/ \E j \in DOMAIN permFile' : permFile'[j].body = [id |-> d, kind |-> "request"]
                     \/ \E q \in EventProcesses : d \in requestDue'[q]
    BY <1>3 DEF NoRequestMissing, RequestAt, EventId
  <2>1. \/ RequestAt(d, DOMAIN permFile)
        \/ \E q \in EventProcesses : d \in requestDue[q]
    BY <1>4 DEF EventsInd, NoRequestMissing
  <2>2. ASSUME NEW q \in EventProcesses, d \in requestDue[q]
        PROVE d = id \/ d \in requestDue'[q]
    <3>1. CASE q = p
      BY <3>1, <2>2, <1>1 DEF EventsInd, DueHasEvent
    <3>2. CASE q # p
      BY <3>2, <2>2, <1>0, <1>3 DEF EventsTypeOK
    <3> QED BY <3>1, <3>2
  <2> QED BY <2>1, <2>2, <1>15
<1> QED BY <1>7, <1>8, <1>9, <1>10, <1>13, <1>16, <1>17, <1>18 DEF EventsInd

\* While no append threw, a line of the file was asked for: it is the request
\* itself, or a decision.
LEMMA LineWasAsked ==
    ASSUME EventsInd, failedAppends = 0, NEW i \in DOMAIN permFile
    PROVE RequestAt(permFile[i].body.id, DOMAIN permFile)
<1>0. permFile \in Seq(PermWrites)
  BY DEF EventsInd, EventsTypeOK
<1>1. permFile[i] \in PermWrites
  BY <1>0
<1>2. permFile[i].body \in PermLines
  BY <1>1 DEF PermWrites
<1>3. CASE permFile[i].body.kind = "request"
  <2>1. permFile[i].body = [id |-> permFile[i].body.id, kind |-> "request"]
    BY <1>2, <1>3 DEF PermLines
  <2> QED BY <2>1 DEF RequestAt
<1>4. CASE permFile[i].body.kind # "request"
  <2>1. PICK j \in 1..(i - 1) :
           permFile[j].body = [id |-> permFile[i].body.id, kind |-> "request"]
    BY <1>4 DEF EventsInd, DecisionsHaveRequests, RequestAt
  <2>2. j \in DOMAIN permFile
    BY <1>0
  <2> QED BY <2>1, <2>2 DEF RequestAt
<1> QED BY <1>3, <1>4

LEMMA MergedFacts ==
    ASSUME EventsInd, NEW p \in EventProcesses
    PROVE /\ Merged(p) \in [RequestIds -> Known]
          /\ \A id \in RequestIds : Merged(p)[id] # "none" =>
                /\ EventWritten(id)
                /\ failedAppends = 0 => RequestAt(id, DOMAIN permFile)
<1>0. EventsTypeOK /\ permFile \in Seq(PermWrites)
  BY DEF EventsInd, EventsTypeOK
<1> SUFFICES ASSUME NEW id \in RequestIds
             PROVE /\ Merged(p)[id] \in Known
                   /\ Merged(p)[id] # "none" =>
                        /\ EventWritten(id)
                        /\ failedAppends = 0 => RequestAt(id, DOMAIN permFile)
  BY DEF Merged
<1> DEFINE at == {i \in ParsedLines(permFile) : permFile[i].body.id = id}
<1>1. CASE at = {}
  <2>1. Merged(p)[id] = permMap[p][id]
    BY <1>1 DEF Merged
  <2> QED BY <2>1, <1>0 DEF EventsInd, EventsTypeOK, KnownWasAsked, PermissionsHaveEvents
<1>2. CASE at # {}
  <2>1. at \in SUBSET (1..Len(permFile)) /\ Len(permFile) \in Nat
    BY <1>0 DEF ParsedLines
  <2>2. \E m \in at : \A k \in at : k <= m
    BY <1>2, <2>1, LastPlace
  <2>3. PICK m \in at : m = CHOOSE i \in at : \A j \in at : j <= i
    BY <2>2
  <2>4. Merged(p)[id] = permFile[m].body.kind
    BY <1>2, <2>3 DEF Merged
  <2>5. m \in DOMAIN permFile /\ permFile[m] \in PermWrites /\ permFile[m].body.id = id
    BY <1>0, <2>1
  <2>6. permFile[m].body \in PermLines
    BY <2>5 DEF PermWrites
  <2>7. permFile[m].body.kind \in {"request", "approve", "deny"}
    BY <2>6 DEF PermLines
  <2>8. EventWritten(id)
    BY <2>5 DEF EventsInd, PermissionsHaveEvents
  <2> QED BY <2>4, <2>5, <2>7, <2>8, LineWasAsked DEF Known
<1> QED BY <1>1, <1>2

LEMMA DecideStep ==
    ASSUME EventsInd, NEW p \in EventProcesses, NEW id \in RequestIds,
           NEW decision \in {"approve", "deny"}, NEW outcome \in Outcomes,
           DecidePermission(p, id, decision, outcome)
    PROVE EventsInd'
<1>0. EventsTypeOK /\ permFile \in Seq(PermWrites)
  BY DEF EventsInd, EventsTypeOK
<1>1. PICK line \in PermLines : line = [id |-> id, kind |-> decision]
  BY DEF PermLines
<1>2. /\ permFile' = Appended(permFile, line, outcome) /\ line.id = id
      /\ permMap' = [permMap EXCEPT ![p] = Merged(p)]
      /\ decided' = decided + 1 /\ decided < MaxDecisions
      /\ CountFailure(outcome)
      /\ UNCHANGED <<eventFile, counter, remembered, requestDue, serial, processEnds, cutShort>>
  BY <1>1 DEF DecidePermission
<1>3. PICK map \in [RequestIds -> Known] :
         map = Merged(p) /\ \A d \in RequestIds : map[d] # "none" =>
                /\ EventWritten(d)
                /\ failedAppends = 0 => RequestAt(d, DOMAIN permFile)
  BY MergedFacts
<1>4. EventWritten(id) /\ (failedAppends = 0 => RequestAt(id, DOMAIN permFile))
  BY <1>3 DEF DecidePermission
<1>5. /\ failedAppends' \in 0..MaxFailedAppends
      /\ failedAppends' = 0 => outcome = "whole" /\ failedAppends = 0
  BY <1>0, <1>2, CountFacts
<1>6. /\ permFile' \in Seq(PermWrites)
      /\ \A i \in DOMAIN permFile : i \in DOMAIN permFile' /\ permFile'[i] = permFile[i]
      /\ \A i \in DOMAIN permFile' :
            \/ i \in DOMAIN permFile
            \/ permFile'[i] = [body |-> line, part |-> outcome]
  BY <1>0, <1>2, PermAppend
<1>7. EventsTypeOK'
  <2>1. decided' \in 0..MaxDecisions
    BY <1>0, <1>2, ToolEventsAssumption DEF EventsTypeOK
  <2>2. permMap' \in [EventProcesses -> [RequestIds -> Known]]
    BY <1>0, <1>2, <1>3 DEF EventsTypeOK
  <2> QED BY <2>1, <2>2, <1>0, <1>2, <1>5, <1>6 DEF EventsTypeOK
<1>8. FileInOrder' /\ MemoryNumbered' /\ FiledIsRemembered' /\ RememberedIsFiled' /\ DueHasEvent'
  BY <1>2, <1>5 DEF EventsInd, FileInOrder, MemoryNumbered, FiledIsRemembered, RemembersIt,
                    RememberedIsFiled, Filed, DueHasEvent, EventWritten
<1>9. AllWhole'
  <2> SUFFICES ASSUME failedAppends' = 0, NEW i \in DOMAIN permFile'
               PROVE permFile'[i].part = "whole"
    BY <1>2, <1>5 DEF EventsInd, AllWhole
  <2> QED BY <1>5, <1>6 DEF EventsInd, AllWhole
<1>10. \A q \in EventProcesses : permMap'[q] = IF q = p THEN map ELSE permMap[q]
  BY <1>0, <1>2, <1>3 DEF EventsTypeOK
<1>11. PermissionsHaveEvents'
  <2> SUFFICES
         /\ \A i \in DOMAIN permFile' : Written(eventFile, permFile'[i].body.id)
         /\ \A q \in EventProcesses, d \in RequestIds :
               permMap'[q][d] # "none" => Written(eventFile, d)
    BY <1>2 DEF PermissionsHaveEvents, EventWritten, Written
  <2>1. /\ Written(eventFile, id)
        /\ \A d \in RequestIds : map[d] # "none" => Written(eventFile, d)
    BY <1>3, <1>4 DEF EventWritten, Written
  <2>2. /\ \A i \in DOMAIN permFile : Written(eventFile, permFile[i].body.id)
        /\ \A q \in EventProcesses, d \in RequestIds :
               permMap[q][d] # "none" => Written(eventFile, d)
    BY DEF EventsInd, PermissionsHaveEvents, EventWritten, Written
  <2>3. ASSUME NEW i \in DOMAIN permFile' PROVE Written(eventFile, permFile'[i].body.id)
    <3>1. CASE i \in DOMAIN permFile
      BY <3>1, <2>2, <1>6
    <3>2. CASE permFile'[i] = [body |-> line, part |-> outcome]
      <4>1. permFile'[i].body.id = id
        BY <3>2, <1>2
      <4> QED BY <4>1, <2>1
    <3> QED BY <3>1, <3>2, <1>6
  <2> QED BY <2>1, <2>2, <2>3, <1>10
<1>12. ASSUME NEW d, RequestAt(d, DOMAIN permFile)
       PROVE \E j \in DOMAIN permFile' : permFile'[j].body = [id |-> d, kind |-> "request"]
  BY <1>0, <1>2, <1>12, RequestStays
<1>13. KnownWasAsked'
  <2> SUFFICES ASSUME failedAppends' = 0, NEW q \in EventProcesses, NEW d \in RequestIds,
                      permMap'[q][d] # "none"
               PROVE \E j \in DOMAIN permFile' : permFile'[j].body = [id |-> d, kind |-> "request"]
    BY DEF KnownWasAsked, RequestAt
  <2>1. RequestAt(d, DOMAIN permFile)
    BY <1>3, <1>5, <1>10 DEF EventsInd, KnownWasAsked
  <2> QED BY <2>1, <1>12
<1>14. DecisionsHaveRequests'
  BY <1>2, <1>4, DecisionsStay
<1>15. NoRequestMissing'
  <2> SUFFICES ASSUME failedAppends' = 0, ~cutShort, NEW i \in DOMAIN eventFile,
                      eventFile[i].body.denied, NEW d, d = EventId(eventFile[i].body)
               PROVE \/ \E j \in DOMAIN permFile' : permFile'[j].body = [id |-> d, kind |-> "request"]
                     \/ \E q \in EventProcesses : d \in requestDue[q]
    BY <1>2 DEF NoRequestMissing, RequestAt, EventId
  <2>1. \/ RequestAt(d, DOMAIN permFile)
        \/ \E q \in EventProcesses : d \in requestDue[q]
    BY <1>5 DEF EventsInd, NoRequestMissing
  <2> QED BY <2>1, <1>12
<1> QED BY <1>7, <1>8, <1>9, <1>11, <1>13, <1>14, <1>15 DEF EventsInd

LEMMA ProcessEndsStep ==
    ASSUME EventsInd, NEW p \in EventProcesses, ProcessEnds(p)
    PROVE EventsInd'
<1>0. EventsTypeOK
  BY DEF EventsInd
<1>1. PICK none \in [RequestIds -> Known] : none = [id \in RequestIds |-> "none"]
  BY DEF Known
<1>2. /\ counter' = [counter EXCEPT ![p] = 0]
      /\ remembered' = [remembered EXCEPT ![p] = <<>>]
      /\ requestDue' = [requestDue EXCEPT ![p] = {}]
      /\ permMap' = [permMap EXCEPT ![p] = none]
      /\ processEnds' = processEnds + 1 /\ processEnds < MaxProcessEnds
      /\ cutShort' = (cutShort \/ requestDue[p] # {})
      /\ UNCHANGED <<eventFile, permFile, serial, decided, failedAppends>>
  BY <1>1 DEF ProcessEnds
<1>3. \A q \in EventProcesses :
         /\ q # p => /\ counter'[q] = counter[q] /\ remembered'[q] = remembered[q]
                     /\ requestDue'[q] = requestDue[q] /\ permMap'[q] = permMap[q]
         /\ q = p => /\ counter'[q] = 0 /\ remembered'[q] = <<>>
                     /\ requestDue'[q] = {} /\ permMap'[q] = none
  BY <1>0, <1>2 DEF EventsTypeOK
<1>4. EventsTypeOK'
  <2>1. permMap' \in [EventProcesses -> [RequestIds -> Known]]
    BY <1>0, <1>2 DEF EventsTypeOK
  <2>2. counter' \in [EventProcesses -> 0..MaxToolEvents]
    BY <1>0, <1>2, ToolEventsAssumption DEF EventsTypeOK
  <2>3. /\ remembered' \in [EventProcesses -> Seq(Events)]
        /\ requestDue' \in [EventProcesses -> SUBSET RequestIds]
    BY <1>0, <1>2 DEF EventsTypeOK
  <2>4. processEnds' \in 0..MaxProcessEnds
    BY <1>0, <1>2, ToolEventsAssumption DEF EventsTypeOK
  <2>5. cutShort' \in BOOLEAN
    BY <1>2, Zenon
  <2> QED BY <1>0, <1>2, <2>1, <2>2, <2>3, <2>4, <2>5 DEF EventsTypeOK
<1>5. FileInOrder' /\ AllWhole'
  <2>1. serial \in Nat
    BY <1>0 DEF EventsTypeOK
  <2> QED BY <2>1, <1>2, <1>3 DEF EventsInd, FileInOrder, AllWhole
<1>6. RememberedIsFiled'
  <2> SUFFICES ASSUME failedAppends = 0, NEW q \in EventProcesses, NEW i \in DOMAIN remembered'[q]
               PROVE \E j \in DOMAIN eventFile : eventFile[j].body = remembered'[q][i]
    BY <1>2 DEF RememberedIsFiled, Filed
  <2>1. q # p
    BY <1>3
  <2> QED BY <2>1, <1>3 DEF EventsInd, RememberedIsFiled, Filed
<1>7. MemoryNumbered'
  BY <1>3 DEF EventsInd, MemoryNumbered
<1>8. FiledIsRemembered'
  <2>1. processEnds' # 0
    BY <1>0, <1>2 DEF EventsTypeOK
  <2> QED BY <2>1 DEF FiledIsRemembered
<1>9. DueHasEvent'
  BY <1>2, <1>3 DEF EventsInd, DueHasEvent, EventWritten
<1>10. ASSUME NEW q \in EventProcesses, NEW d \in RequestIds, permMap'[q][d] # "none"
       PROVE permMap[q][d] # "none"
  BY <1>1, <1>3, <1>10
<1>11. PermissionsHaveEvents' /\ KnownWasAsked'
  BY <1>2, <1>10 DEF EventsInd, PermissionsHaveEvents, EventWritten, KnownWasAsked, RequestAt
<1>12. DecisionsHaveRequests'
  BY <1>2 DEF EventsInd, DecisionsHaveRequests, RequestAt
<1>13. NoRequestMissing'
  <2> SUFFICES ASSUME failedAppends = 0, ~cutShort', NEW i \in DOMAIN eventFile,
                      eventFile[i].body.denied, NEW d, d = EventId(eventFile[i].body)
               PROVE \/ RequestAt(d, DOMAIN permFile)
                     \/ \E q \in EventProcesses : d \in requestDue'[q]
    BY <1>2 DEF NoRequestMissing, RequestAt, EventId
  <2>1. ~cutShort /\ requestDue[p] = {}
    BY <1>2
  <2>2. \/ RequestAt(d, DOMAIN permFile)
        \/ \E q \in EventProcesses : d \in requestDue[q]
    BY <2>1 DEF EventsInd, NoRequestMissing
  <2> QED BY <2>1, <2>2, <1>3
<1> QED BY <1>4, <1>5, <1>6, <1>7, <1>8, <1>9, <1>11, <1>12, <1>13 DEF EventsInd

LEMMA EventsIndStep == EventsInd /\ [EventsNext]_eventVars => EventsInd'
<1> SUFFICES ASSUME EventsInd, [EventsNext]_eventVars PROVE EventsInd'
  OBVIOUS
<1>1. ASSUME NEW p \in EventProcesses, NEW input \in ToolInputs, NEW denied \in BOOLEAN,
             NEW outcome \in Outcomes, RecordToolEvent(p, input, denied, outcome)
      PROVE EventsInd'
  BY <1>1, RecordTypes, RecordEvents, RecordPerms DEF EventsInd
<1>2. CASE UNCHANGED eventVars
  <2>1. /\ UNCHANGED <<eventFile, counter, remembered, requestDue, permFile, permMap>>
        /\ UNCHANGED <<serial, decided, failedAppends, processEnds, cutShort>>
    BY <1>2 DEF eventVars
  <2>2. EventsTypeOK'
    BY <2>1 DEF EventsInd, EventsTypeOK
  <2>3. FileInOrder' /\ AllWhole' /\ RememberedIsFiled' /\ MemoryNumbered' /\ FiledIsRemembered'
    BY <2>1 DEF EventsInd, FileInOrder, AllWhole, RememberedIsFiled, Filed, MemoryNumbered,
                FiledIsRemembered, RemembersIt
  <2>4. DueHasEvent' /\ PermissionsHaveEvents' /\ KnownWasAsked'
    BY <2>1 DEF EventsInd, DueHasEvent, PermissionsHaveEvents, EventWritten, KnownWasAsked,
                RequestAt
  <2>5. DecisionsHaveRequests' /\ NoRequestMissing'
    BY <2>1 DEF EventsInd, DecisionsHaveRequests, NoRequestMissing, RequestAt, EventId
  <2> QED BY <2>2, <2>3, <2>4, <2>5 DEF EventsInd
<1>3. ASSUME NEW p \in EventProcesses, NEW outcome \in Outcomes,
             EventsNext!(p, outcome)
      PROVE EventsInd'
  BY <1>1, <1>3, CreateStep, DecideStep, ProcessEndsStep
<1> QED BY <1>2, <1>3 DEF EventsNext

-----------------------------------------------------------------------------
(* What the inductive invariant says of the reports *)

\* Every parsed event is reported, or a later one with its id is.
LEMMA LastOfId ==
    ASSUME EventsInd, NEW i \in ParsedLines(eventFile)
    PROVE \E m \in ParsedLines(eventFile) :
             /\ eventFile[m].body \in ReportedFromFile
             /\ EventId(eventFile[m].body) = EventId(eventFile[i].body)
             /\ i <= m
<1> DEFINE same == {k \in ParsedLines(eventFile) :
                        EventId(eventFile[k].body) = EventId(eventFile[i].body)}
<1>1. DOMAIN eventFile = 1..Len(eventFile) /\ Len(eventFile) \in Nat
  BY DEF EventsInd, EventsTypeOK
<1>2. i \in same /\ same \in SUBSET (1..Len(eventFile))
  BY <1>1 DEF ParsedLines
<1>3. PICK m \in same : \A k \in same : k <= m
  BY <1>1, <1>2, LastPlace
<1>4. eventFile[m].body \in ReportedFromFile
  BY <1>3 DEF ReportedFromFile
<1> QED BY <1>2, <1>3, <1>4

\* A process's own events with different numbers have different ids.
LEMMA OwnReported ==
    ASSUME EventsInd, NEW p \in EventProcesses, NEW j \in DOMAIN remembered[p]
    PROVE \/ remembered[p][j] \in Reported(p)
          \/ \E k \in ParsedLines(eventFile) :
                EventId(eventFile[k].body) = EventId(remembered[p][j])
<1>1. \A k \in DOMAIN remembered[p] : remembered[p][k].step = k
  BY DEF EventsInd, MemoryNumbered
<1>2. \A k \in DOMAIN remembered[p] :
         EventId(remembered[p][k]) = EventId(remembered[p][j]) => k <= j
  <2> SUFFICES ASSUME NEW k \in DOMAIN remembered[p],
                      EventId(remembered[p][k]) = EventId(remembered[p][j])
               PROVE k <= j
    OBVIOUS
  <2>1. k = j
    BY <1>1 DEF EventId
  <2>2. remembered[p] \in Seq(Events)
    BY DEF EventsInd, EventsTypeOK
  <2> QED BY <2>1, <2>2
<1> QED BY <1>2 DEF Reported, ReportedFromMemory

LEMMA ReportsAgreeHolds == EventsInd => ReportsAgree
<1> SUFFICES ASSUME EventsInd, failedAppends = 0, NEW p \in EventProcesses
             PROVE ReportedFromMemory(p) = {}
  BY DEF ReportsAgree, Reported
<1>0. DOMAIN eventFile = 1..Len(eventFile) /\ Len(eventFile) \in Nat
  BY DEF EventsInd, EventsTypeOK
<1>1. \A k \in DOMAIN eventFile : k \in ParsedLines(eventFile)
  BY <1>0 DEF EventsInd, AllWhole, ParsedLines
<1>2. ASSUME NEW j \in DOMAIN remembered[p]
      PROVE \E k \in ParsedLines(eventFile) : eventFile[k].body = remembered[p][j]
  BY <1>1 DEF EventsInd, RememberedIsFiled, Filed
<1>3. ASSUME NEW j \in DOMAIN remembered[p]
      PROVE \E k \in ParsedLines(eventFile) :
               EventId(eventFile[k].body) = EventId(remembered[p][j])
  BY <1>2
<1> QED BY <1>3 DEF ReportedFromMemory

LEMMA HiddenOnlyByTwinHolds == EventsInd => HiddenOnlyByTwin
<1> SUFFICES ASSUME EventsInd, NEW p \in EventProcesses, NEW i \in DOMAIN eventFile,
                    eventFile[i].part = "whole", i > 1 => eventFile[i - 1].part = "whole"
             PROVE \E r \in Reported(p) : /\ r.step = eventFile[i].body.step
                                          /\ r.input = eventFile[i].body.input
                                          /\ r.serial >= eventFile[i].body.serial
  BY DEF HiddenOnlyByTwin
<1>1. i \in ParsedLines(eventFile)
  BY DEF ParsedLines
<1>2. PICK m \in ParsedLines(eventFile) :
             /\ eventFile[m].body \in ReportedFromFile
             /\ EventId(eventFile[m].body) = EventId(eventFile[i].body)
             /\ i <= m
  BY <1>1, LastOfId
<1>3. /\ eventFile[m].body.step = eventFile[i].body.step
      /\ eventFile[m].body.input = eventFile[i].body.input
  BY <1>2 DEF EventId
<1>4. eventFile[m].body.serial >= eventFile[i].body.serial
  <2>1. eventFile \in Seq(EventLines) /\ m \in DOMAIN eventFile
    BY DEF EventsInd, EventsTypeOK, ParsedLines
  <2>2. eventFile[m].body \in Events /\ eventFile[i].body \in Events
    <3>1. eventFile[m] \in EventLines /\ eventFile[i] \in EventLines
      BY <2>1
    <3> QED BY <3>1 DEF EventLines
  <2>3. eventFile[m].body.serial \in Int /\ eventFile[i].body.serial \in Int
    BY <2>2 DEF Events
  <2>4. m = i \/ i < m
    BY <2>1, <1>2
  <2> QED BY <2>1, <2>3, <2>4 DEF EventsInd, FileInOrder
<1>5. eventFile[m].body \in Reported(p)
  BY <1>2 DEF Reported
<1> QED BY <1>3, <1>4, <1>5

LEMMA LoneRunCompleteHolds == EventsInd => LoneRunComplete
<1> SUFFICES ASSUME EventsInd, NEW p \in EventProcesses, LoneRecorder(p)
             PROVE /\ {r.step : r \in Reported(p)} = 1..counter[p]
                   /\ \A r, s \in Reported(p) : r.step = s.step => r = s
  BY DEF LoneRunComplete
<1>0. /\ counter[p] \in Nat /\ Len(remembered[p]) = counter[p]
      /\ DOMAIN remembered[p] = 1..counter[p]
      /\ \A i \in 1..counter[p] : remembered[p][i].step = i
  BY DEF EventsInd, EventsTypeOK, MemoryNumbered
<1>1. ASSUME NEW i \in DOMAIN eventFile
      PROVE \E k \in 1..counter[p] : remembered[p][k] = eventFile[i].body
  <2>1. PICK q \in EventProcesses : RemembersIt(q, eventFile[i].body)
    BY DEF EventsInd, FiledIsRemembered, LoneRecorder
  <2>2. PICK k \in DOMAIN remembered[q] : remembered[q][k] = eventFile[i].body
    BY <2>1 DEF RemembersIt
  <2>3. q = p
    <3> SUFFICES ASSUME q # p PROVE FALSE
      OBVIOUS
    <3>1. remembered[q] \in Seq(Events) /\ Len(remembered[q]) = 0
      BY DEF EventsInd, EventsTypeOK, MemoryNumbered, LoneRecorder
    <3> QED BY <3>1
  <2> QED BY <2>2, <2>3, <1>0
<1>2. \A r \in Reported(p) : \E k \in 1..counter[p] : remembered[p][k] = r
  <2>1. \A r \in ReportedFromFile : \E k \in 1..counter[p] : remembered[p][k] = r
    BY <1>1 DEF ReportedFromFile, ParsedLines
  <2>2. \A r \in ReportedFromMemory(p) : \E k \in 1..counter[p] : remembered[p][k] = r
    BY <1>0 DEF ReportedFromMemory
  <2> QED BY <2>1, <2>2 DEF Reported
<1>3. ASSUME NEW n \in 1..counter[p] PROVE \E r \in Reported(p) : r.step = n
  <2>1. CASE remembered[p][n] \in Reported(p)
    BY <2>1, <1>0
  <2>2. CASE \E k \in ParsedLines(eventFile) :
                EventId(eventFile[k].body) = EventId(remembered[p][n])
    <3>1. PICK k \in ParsedLines(eventFile) :
                EventId(eventFile[k].body) = EventId(remembered[p][n])
      BY <2>2
    <3>2. PICK m \in ParsedLines(eventFile) :
             /\ eventFile[m].body \in ReportedFromFile
             /\ EventId(eventFile[m].body) = EventId(eventFile[k].body)
      BY LastOfId
    <3>3. eventFile[m].body.step = n
      BY <3>1, <3>2, <1>0 DEF EventId
    <3> QED BY <3>2, <3>3 DEF Reported
  <2> QED BY <2>1, <2>2, <1>0, OwnReported
<1>4. \A r, s \in Reported(p) : r.step = s.step => r = s
  <2> SUFFICES ASSUME NEW r \in Reported(p), NEW s \in Reported(p), r.step = s.step
               PROVE r = s
    OBVIOUS
  <2>1. PICK k \in 1..counter[p] : remembered[p][k] = r
    BY <1>2
  <2>2. PICK l \in 1..counter[p] : remembered[p][l] = s
    BY <1>2
  <2> QED BY <2>1, <2>2, <1>0
<1>5. \A r \in Reported(p) : r.step \in 1..counter[p]
  BY <1>0, <1>2
<1> QED BY <1>3, <1>4, <1>5

\* In every state, for any number of processes, events, decisions, process
\* ends and appends that throw, whole or cut: the processes report the same
\* events while no append threw, only a twin or a cut hides an event, a lone
\* recorder reports its whole run, a permission line has its event, and no
\* decision lacks its request, nor a denied event its own, unless an append
\* threw or a process ended inside a call.
THEOREM EventsCorrect == EventsSpec => []EventsInvariant
<1>1. EventsInit => EventsInd
  BY EventsIndInit
<1>2. EventsInd /\ [EventsNext]_eventVars => EventsInd'
  BY EventsIndStep
<1>3. EventsInd => EventsInvariant
  BY ReportsAgreeHolds, HiddenOnlyByTwinHolds, LoneRunCompleteHolds
     DEF EventsInd, EventsInvariant
<1> QED BY <1>1, <1>2, <1>3, PTL DEF EventsSpec

-----------------------------------------------------------------------------
\* AuditSink
(***************************************************************************)
(* Proofs about AuditSink: where a record can be, and how often it was     *)
(* delivered from there.                                                   *)
(***************************************************************************)

\* A record is in the buffer or in one batch, never in two places; the number
\* of the next one was never used.
OnePlace ==
    /\ \A r \in ToSet(unsent) : r <= written
    /\ \A p \in posts : \A r \in ToSet(p.batch) : r <= written /\ r \notin ToSet(unsent)
    /\ \A p, q \in posts : p # q => ToSet(p.batch) \cap ToSet(q.batch) = {}

\* What is not settled was stored at most once for every answer lost.
StoredPerLoss ==
    /\ \A r \in Records : r > written \/ r \in ToSet(unsent) => delivered[r] = 0
    /\ \A p \in posts : \A r \in ToSet(p.batch) : delivered[r] <= lostAnswers
    /\ \A r \in Records : delivered[r] <= 1 + lostAnswers

\* A batch has failed as often as it was tried before.
AttemptsPaid ==
    \A p \in posts :
        /\ p.attempt <= failedPosts + lostAnswers
        /\ p.phase = "waiting" => /\ p.attempt < MaxPostRetries
                                  /\ p.attempt + 1 <= failedPosts + lostAnswers

GivenPaid == given # {} => failedPosts + lostAnswers > MaxPostRetries

\* The timer is off only while a batch is under way whose end sets it.
Watched == flushTimer \/ posts # {}

AuditInd == /\ AuditTypeOK /\ Watched /\ OnePlace /\ StoredPerLoss
            /\ AttemptsPaid /\ GivenPaid

-----------------------------------------------------------------------------
LEMMA AuSets ==
    /\ ToSet(<<>>) = {}
    /\ \A s \in Seq(Records) : ToSet(s) \subseteq Records
    /\ \A s \in Seq(Records), x \in Records : ToSet(Append(s, x)) = ToSet(s) \cup {x}
  <1>1. ToSet(<<>>) = {} BY DEF ToSet
  <1>2. ASSUME NEW s \in Seq(Records) PROVE ToSet(s) \subseteq Records
    BY DEF ToSet
  <1>3. ASSUME NEW s \in Seq(Records), NEW x \in Records
        PROVE  ToSet(Append(s, x)) = ToSet(s) \cup {x}
    <2>1. DOMAIN Append(s, x) = 1..(Len(s) + 1) /\ DOMAIN s = 1..Len(s) /\ Len(s) \in Nat
      OBVIOUS
    <2>2. \A i \in 1..Len(s) : Append(s, x)[i] = s[i] OBVIOUS
    <2>3. Append(s, x)[Len(s) + 1] = x OBVIOUS
    <2>4. ToSet(Append(s, x)) \subseteq ToSet(s) \cup {x} BY <2>1, <2>2, <2>3 DEF ToSet
    <2>5. ToSet(s) \subseteq ToSet(Append(s, x)) BY <2>1, <2>2 DEF ToSet
    <2>6. x \in ToSet(Append(s, x)) BY <2>1, <2>3 DEF ToSet
    <2> QED BY <2>4, <2>5, <2>6
  <1> QED BY <1>1, <1>2, <1>3

\* The batch and the attempts of a post whose phase changes.
LEMMA AuEdits ==
    ASSUME NEW p \in Post
    PROVE  /\ [p EXCEPT !.phase = "waiting"]
                 = [batch |-> p.batch, attempt |-> p.attempt, phase |-> "waiting"]
           /\ [p EXCEPT !.phase = "posting", !.attempt = @ + 1]
                 = [batch |-> p.batch, attempt |-> p.attempt + 1, phase |-> "posting"]
  <1>1. [p EXCEPT !.phase = "waiting"]
          = [batch |-> p.batch, attempt |-> p.attempt, phase |-> "waiting"]
    BY DEF Post
  <1>2. [p EXCEPT !.phase = "posting"]
          = [batch |-> p.batch, attempt |-> p.attempt, phase |-> "posting"]
    BY DEF Post
  <1>3. [[batch |-> p.batch, attempt |-> p.attempt, phase |-> "posting"]
           EXCEPT !.attempt = p.attempt + 1]
          = [batch |-> p.batch, attempt |-> p.attempt + 1, phase |-> "posting"]
    OBVIOUS
  <1>4. [p EXCEPT !.phase = "posting", !.attempt = @ + 1]
          = [[p EXCEPT !.phase = "posting"] EXCEPT !.attempt = p.attempt + 1]
    OBVIOUS
  <1> QED BY <1>1, <1>2, <1>3, <1>4, Zenon

\* A batch leaves the buffer, the record just written included.
LEMMA AuFlush ==
    ASSUME AuditInd, NEW rs \in Seq(Records), rs # <<>>, FlushOf(rs),
           written' \in written..MaxWritten,
           \A r \in ToSet(rs) : r \in ToSet(unsent) \/ (r = written + 1 /\ r <= written'),
           UNCHANGED <<delivered, given, forgotten, lostAnswers, failedPosts, exits>>
    PROVE  AuditInd'
  <1> USE DEF AuditInd
  <1> DEFINE new == NewPost(rs)
  <1>0. /\ written \in Nat /\ written' \in Nat /\ written' >= written /\ written' <= MaxWritten
        /\ lostAnswers \in Nat /\ failedPosts \in Nat /\ MaxPostRetries \in Nat
        /\ \A r \in Records : r \in Nat /\ delivered[r] \in Nat
    BY AuditAssumption DEF AuditTypeOK, Records
  <1>1. flushTimer' = FALSE /\ unsent' = <<>> /\ posts' = posts \cup {new}
    BY DEF FlushOf
  <1>2. new \in Post /\ new.batch = rs /\ new.attempt = 0 /\ new.phase = "posting"
    BY <1>0 DEF NewPost, Post
  <1> HIDE DEF new
  <1>3. ToSet(rs) \subseteq Records /\ ToSet(unsent') = {} /\ ToSet(unsent) \subseteq Records
    BY <1>1, AuSets DEF AuditTypeOK
  <1>4. AuditTypeOK'
    <2>1. unsent' \in Seq(Records) /\ Len(unsent') < BatchSize
      BY <1>1, AuditAssumption
    <2>2. posts' \subseteq Post BY <1>1, <1>2 DEF AuditTypeOK
    <2>3. written' \in 0..MaxWritten BY <1>0
    <2>4. flushTimer' \in BOOLEAN BY <1>1
    <2> QED BY <2>1, <2>2, <2>3, <2>4 DEF AuditTypeOK
  <1>5. Watched' BY <1>1 DEF Watched
  <1>6. ASSUME NEW p \in posts PROVE ToSet(p.batch) \cap ToSet(rs) = {}
    <2>1. \A r \in ToSet(p.batch) : r <= written /\ r \notin ToSet(unsent)
      BY DEF OnePlace
    <2>2. ToSet(p.batch) \subseteq Records BY AuSets DEF AuditTypeOK, Post
    <2> QED BY <2>1, <2>2, <1>0
  <1>7. OnePlace'
    <2>1. ASSUME NEW p \in posts', NEW r \in ToSet(p.batch) PROVE r <= written'
      <3>1. CASE p \in posts
        <4>1. r <= written /\ r \in Records
          BY <3>1, AuSets DEF OnePlace, AuditTypeOK, Post
        <4> QED BY <4>1, <1>0
      <3>2. CASE p = new
        <4>1. r \in ToSet(rs) /\ r \in Records BY <3>2, <1>2, <1>3
        <4> QED BY <4>1, <1>0, <1>3 DEF OnePlace
      <3> QED BY <3>1, <3>2, <1>1
    <2>2. ASSUME NEW p \in posts', NEW q \in posts', p # q
          PROVE  ToSet(p.batch) \cap ToSet(q.batch) = {}
      BY <2>2, <1>1, <1>2, <1>6 DEF OnePlace
    <2> QED BY <2>1, <2>2, <1>3 DEF OnePlace
  <1>8. StoredPerLoss'
    <2>1. ASSUME NEW r \in Records, r > written' PROVE delivered'[r] = 0
      BY <2>1, <1>0 DEF StoredPerLoss
    <2>2. ASSUME NEW r \in ToSet(rs) PROVE delivered'[r] <= lostAnswers'
      <3>1. r \in Records /\ delivered[r] = 0 BY <1>0, <1>3 DEF StoredPerLoss
      <3> QED BY <3>1, <1>0
    <2>3. ASSUME NEW p \in posts', NEW r \in ToSet(p.batch) PROVE delivered'[r] <= lostAnswers'
      BY <2>2, <2>3, <1>1, <1>2 DEF StoredPerLoss
    <2> QED BY <2>1, <2>3, <1>3 DEF StoredPerLoss
  <1>9. AttemptsPaid'
    <2> SUFFICES ASSUME NEW p \in posts'
                 PROVE  /\ p.attempt <= failedPosts' + lostAnswers'
                        /\ p.phase = "waiting" => /\ p.attempt < MaxPostRetries
                                                  /\ p.attempt + 1 <= failedPosts' + lostAnswers'
      BY DEF AttemptsPaid
    <2>1. CASE p \in posts BY <2>1 DEF AttemptsPaid
    <2>2. CASE p = new BY <2>2, <1>2, <1>0
    <2> QED BY <2>1, <2>2, <1>1
  <1>10. GivenPaid' BY DEF GivenPaid
  <1> QED BY <1>4, <1>5, <1>7, <1>8, <1>9, <1>10

\* A post is replaced by one with the same batch, or ends: its records stay
\* where they are alone, stored once more at most for an answer lost or an end.
LEMMA AuReplace ==
    ASSUME AuditInd, NEW p \in posts, NEW R, R = {} \/ (\E q \in Post : R = {q} /\ q.batch = p.batch),
           posts' = (posts \ {p}) \cup R, unsent' = unsent, written' = written,
           lostAnswers' \in Nat, lostAnswers' >= lostAnswers,
           \A r \in Records : \/ delivered'[r] = delivered[r]
                              \/ /\ r \in ToSet(p.batch) /\ delivered'[r] = delivered[r] + 1
                                 /\ R = {} \/ lostAnswers' > lostAnswers
    PROVE  OnePlace' /\ StoredPerLoss'
  <1> USE DEF AuditInd
  <1>0. /\ written \in Nat /\ lostAnswers \in Nat
        /\ \A r \in Records : r \in Nat /\ delivered[r] \in Nat
        /\ ToSet(unsent) \subseteq Records /\ ToSet(p.batch) \subseteq Records
    BY AuSets DEF AuditTypeOK, Records, Post
  <1>1. ASSUME NEW q \in posts' PROVE (q \in posts /\ q # p) \/ (q \in R /\ q.batch = p.batch)
    BY <1>1
  <1>2. OnePlace'
    <2>1. ASSUME NEW q \in posts', NEW r \in ToSet(q.batch)
          PROVE  r <= written /\ r \notin ToSet(unsent)
      BY <2>1, <1>1 DEF OnePlace
    <2>2. ASSUME NEW q \in posts', NEW o \in posts', q # o
          PROVE  ToSet(q.batch) \cap ToSet(o.batch) = {}
      <3>1. CASE q \in posts /\ q # p /\ o \in posts /\ o # p BY <3>1, <2>2 DEF OnePlace
      <3>2. CASE q \in R /\ q.batch = p.batch /\ o \in posts /\ o # p BY <3>2 DEF OnePlace
      <3>3. CASE o \in R /\ o.batch = p.batch /\ q \in posts /\ q # p BY <3>3 DEF OnePlace
      <3>4. CASE q \in R /\ o \in R BY <3>4, <2>2
      <3> QED BY <3>1, <3>2, <3>3, <3>4, <1>1
    <2> QED BY <2>1, <2>2 DEF OnePlace
  <1>3. \A r \in ToSet(p.batch) : r <= written /\ r \notin ToSet(unsent) BY DEF OnePlace
  <1>4. ASSUME NEW r \in Records, r > written \/ r \in ToSet(unsent) PROVE delivered'[r] = 0
    <2>1. delivered[r] = 0 BY <1>4 DEF StoredPerLoss
    <2>2. r \notin ToSet(p.batch) BY <1>4, <1>0, <1>3
    <2> QED BY <2>1, <2>2
  <1>5. ASSUME NEW r \in Records PROVE delivered'[r] <= 1 + lostAnswers'
    <2>1. delivered[r] <= 1 + lostAnswers BY DEF StoredPerLoss
    <2>2. r \in ToSet(p.batch) => delivered[r] <= lostAnswers BY DEF StoredPerLoss
    <2> QED BY <2>1, <2>2, <1>0
  <1>6. ASSUME NEW q \in posts', NEW r \in ToSet(q.batch) PROVE delivered'[r] <= lostAnswers'
    <2>0. r \in Records BY <1>6, <1>1, <1>0, AuSets DEF AuditTypeOK, Post
    <2>1. CASE q \in posts /\ q # p
      <3>1. delivered[r] <= lostAnswers /\ r \notin ToSet(p.batch)
        BY <1>6, <2>1 DEF StoredPerLoss, OnePlace
      <3> QED BY <3>1, <2>0, <1>0
    <2>2. CASE q \in R /\ q.batch = p.batch
      <3>1. delivered[r] <= lostAnswers /\ R # {} BY <1>6, <2>2 DEF StoredPerLoss
      <3> QED BY <3>1, <2>0, <1>0
    <2> QED BY <2>1, <2>2, <1>1
  <1> QED BY <1>2, <1>4, <1>5, <1>6 DEF StoredPerLoss

-----------------------------------------------------------------------------
LEMMA AuWrite ==
    ASSUME AuditInd, WriteRecord
    PROVE  AuditInd'
  <1> DEFINE rs == Append(unsent, written + 1)
  <1>0. /\ written \in Nat /\ written < MaxWritten /\ written' = written + 1 /\ MaxWritten \in Nat
        /\ UNCHANGED <<delivered, given, forgotten, lostAnswers, failedPosts, exits>>
        /\ unsent \in Seq(Records) /\ written + 1 \in Records
    BY AuditAssumption DEF WriteRecord, AuditInd, AuditTypeOK, Records
  <1>1. rs \in Seq(Records) /\ rs # <<>> /\ ToSet(rs) = ToSet(unsent) \cup {written + 1}
        /\ ToSet(unsent) \subseteq Records
    BY <1>0, AuSets
  <1>2. CASE Len(rs) >= BatchSize
    <2>1. FlushOf(rs) BY <1>2 DEF WriteRecord
    <2>2. written' \in written..MaxWritten BY <1>0
    <2>3. \A r \in ToSet(rs) : r \in ToSet(unsent) \/ (r = written + 1 /\ r <= written')
      BY <1>0, <1>1
    <2> HIDE DEF rs
    <2> QED BY <2>1, <2>2, <2>3, <1>0, <1>1, AuFlush
  <1>3. CASE ~(Len(rs) >= BatchSize)
    <2>1. unsent' = rs /\ posts' = posts /\ flushTimer' = flushTimer
      BY <1>3 DEF WriteRecord
    <2>2. Len(rs) < BatchSize
      <3>1. Len(rs) \in Nat BY <1>1
      <3> QED BY <1>3, <3>1, AuditAssumption
    <2> HIDE DEF rs
    <2>3. AuditTypeOK'
      <3>1. written' \in 0..MaxWritten BY <1>0
      <3> QED BY <2>1, <2>2, <3>1, <1>0, <1>1 DEF AuditInd, AuditTypeOK
    <2>4. Watched' BY <2>1 DEF AuditInd, Watched
    <2>5. OnePlace'
      <3>1. \A r \in ToSet(unsent) : r <= written BY DEF AuditInd, OnePlace
      <3>2. \A r \in ToSet(rs) : r <= written' BY <3>1, <1>0, <1>1 DEF Records
      <3>3. ASSUME NEW p \in posts, NEW r \in ToSet(p.batch)
            PROVE  r <= written' /\ r \notin ToSet(rs)
        <4>1. r <= written /\ r \notin ToSet(unsent) /\ r \in Records
          BY AuSets DEF AuditInd, OnePlace, AuditTypeOK, Post
        <4> QED BY <4>1, <1>0, <1>1 DEF Records
      <3> QED BY <3>2, <3>3, <2>1 DEF AuditInd, OnePlace
    <2>6. StoredPerLoss'
      <3>1. ASSUME NEW r \in Records, r > written' \/ r \in ToSet(rs) PROVE delivered[r] = 0
        <4>1. r > written \/ r \in ToSet(unsent) BY <3>1, <1>0, <1>1 DEF Records
        <4> QED BY <4>1 DEF AuditInd, StoredPerLoss
      <3> QED BY <3>1, <2>1, <1>0 DEF AuditInd, StoredPerLoss
    <2>7. AttemptsPaid' /\ GivenPaid'
      BY <2>1, <1>0 DEF AuditInd, AttemptsPaid, GivenPaid
    <2> QED BY <2>3, <2>4, <2>5, <2>6, <2>7 DEF AuditInd
  <1> QED BY <1>2, <1>3

LEMMA AuTimer ==
    ASSUME AuditInd, TimerFires
    PROVE  AuditInd'
  <1>1. /\ unsent # <<>> /\ FlushOf(unsent) /\ written' = written
        /\ UNCHANGED <<delivered, given, forgotten, lostAnswers, failedPosts, exits>>
    BY DEF TimerFires
  <1>2. PICK rs : rs = unsent OBVIOUS
  <1>3. FlushOf(rs) BY <1>1, <1>2 DEF FlushOf
  <1>4. rs \in Seq(Records) /\ written' \in written..MaxWritten
    BY <1>1, <1>2, AuditAssumption DEF AuditInd, AuditTypeOK
  <1> QED BY <1>1, <1>2, <1>3, <1>4, AuFlush

\* What the counts allow is what the next attempt will have paid.
LEMMA AuEnds ==
    ASSUME AuditInd, NEW p \in posts,
           Answered(p) \/ PostFails(p) \/ AnswerLost(p) \/ BackoffOver(p)
    PROVE  AuditInd'
  <1> USE DEF AuditInd
  <1>0. /\ lostAnswers \in Nat /\ failedPosts \in Nat /\ MaxPostRetries \in Nat
        /\ lostAnswers <= MaxLostAnswers /\ failedPosts <= MaxFailedPosts
        /\ MaxLostAnswers \in Nat /\ MaxFailedPosts \in Nat
        /\ p \in Post /\ p.attempt \in 0..MaxPostRetries /\ p.batch \in Seq(Records)
        /\ delivered \in [Records -> 0..(1 + MaxLostAnswers)]
        /\ ToSet(p.batch) \subseteq Records
    BY AuditAssumption, AuSets DEF AuditTypeOK, Post
  <1> DEFINE w == [batch |-> p.batch, attempt |-> p.attempt, phase |-> "waiting"]
             a == [batch |-> p.batch, attempt |-> p.attempt + 1, phase |-> "posting"]
  <1>1. unsent' = unsent /\ written' = written /\ exits' = exits /\ forgotten' = forgotten
    BY DEF Answered, PostFails, AnswerLost, BackoffOver
  <1>2. w \in Post BY <1>0 DEF Post
  <1>3. /\ [p EXCEPT !.phase = "waiting"] = w
        /\ [p EXCEPT !.phase = "posting", !.attempt = @ + 1] = a
    BY <1>0, AuEdits
  <1>4. \A r \in Records : StoredOnceMore(p.batch)[r] = IF r \in ToSet(p.batch)
                             THEN delivered[r] + 1 ELSE delivered[r]
    BY DEF StoredOnceMore
  \* The two ends of a failed attempt, and what they need of the counts.
  <1>5. ASSUME AfterFailure(p), p.phase = "posting",
               failedPosts' \in Nat, lostAnswers' \in Nat,
               failedPosts' + lostAnswers' = failedPosts + lostAnswers + 1,
               failedPosts' >= failedPosts, lostAnswers' >= lostAnswers
        PROVE  /\ AttemptsPaid' /\ GivenPaid'
               /\ posts' \subseteq Post /\ flushTimer' \in BOOLEAN /\ given' \subseteq Records
               /\ flushTimer' \/ posts' # {}
               /\ \E R : /\ R = {} \/ (\E q \in Post : R = {q} /\ q.batch = p.batch)
                         /\ posts' = (posts \ {p}) \cup R
    <2>0. p.attempt <= failedPosts + lostAnswers BY DEF AttemptsPaid
    <2>00. ASSUME NEW q \in posts
           PROVE  /\ q.attempt <= failedPosts' + lostAnswers'
                  /\ q.phase = "waiting" => /\ q.attempt < MaxPostRetries
                                            /\ q.attempt + 1 <= failedPosts' + lostAnswers'
      <3>1. PICK n \in Nat, m \in Nat : n = failedPosts + lostAnswers /\ m = q.attempt
        BY <1>0 DEF AuditTypeOK, Post
      <3>2. failedPosts' + lostAnswers' = n + 1 BY <3>1, <1>5
      <3>3. m <= n /\ (q.phase = "waiting" => q.attempt < MaxPostRetries /\ m + 1 <= n)
        BY <3>1 DEF AttemptsPaid
      <3>4. m <= n + 1 /\ (m + 1 <= n => m + 1 <= n + 1) BY <3>3
      <3> QED BY <3>1, <3>2, <3>3, <3>4
    <2>1. CASE p.attempt = MaxPostRetries
      <3>1. posts' = posts \ {p} /\ given' = given \cup ToSet(p.batch) /\ flushTimer' = TRUE
        BY <1>5, <2>1 DEF AfterFailure
      <3>2. AttemptsPaid'
        <4> SUFFICES ASSUME NEW q \in posts
                     PROVE  /\ q.attempt <= failedPosts' + lostAnswers'
                            /\ q.phase = "waiting" => /\ q.attempt < MaxPostRetries
                                                      /\ q.attempt + 1 <= failedPosts' + lostAnswers'
          BY <3>1 DEF AttemptsPaid
        <4> QED BY <2>00
      <3>3. GivenPaid'
        <4>1. PICK n \in Nat : n = failedPosts + lostAnswers BY <1>0
        <4>2. failedPosts' + lostAnswers' = n + 1 BY <4>1, <1>5
        <4>3. MaxPostRetries <= n BY <4>1, <2>0, <2>1
        <4>4. n + 1 > MaxPostRetries BY <4>3, <1>0
        <4> QED BY <4>2, <4>4 DEF GivenPaid
      <3>4. posts' = (posts \ {p}) \cup {} BY <3>1
      <3> QED BY <3>1, <3>2, <3>3, <3>4, <1>0 DEF AuditTypeOK
    <2>2. CASE p.attempt # MaxPostRetries
      <3>1. posts' = (posts \ {p}) \cup {w} /\ given' = given /\ flushTimer' = flushTimer
        BY <1>5, <1>3, <2>2 DEF AfterFailure
      <3>2. w.attempt = p.attempt /\ w.phase = "waiting" /\ w.batch = p.batch OBVIOUS
      <3> HIDE DEF w
      <3>3. AttemptsPaid'
        <4> SUFFICES ASSUME NEW q \in posts'
                     PROVE  /\ q.attempt <= failedPosts' + lostAnswers'
                            /\ q.phase = "waiting" => /\ q.attempt < MaxPostRetries
                                                      /\ q.attempt + 1 <= failedPosts' + lostAnswers'
          BY DEF AttemptsPaid
        <4>1. CASE q \in posts BY <4>1, <2>00
        <4>2. CASE q = w
          <5>1. q.attempt = p.attempt BY <4>2, <3>2
          <5>2. p.attempt < MaxPostRetries BY <2>2, <1>0
          <5>3. PICK n \in Nat : n = failedPosts + lostAnswers BY <1>0
          <5>4. failedPosts' + lostAnswers' = n + 1 BY <5>3, <1>5
          <5>5. p.attempt <= n /\ p.attempt \in Nat BY <5>3, <2>0, <1>0
          <5>6. p.attempt <= n + 1 /\ p.attempt + 1 <= n + 1 BY <5>5
          <5> QED BY <5>1, <5>2, <5>4, <5>6
        <4> QED BY <4>1, <4>2, <3>1
      <3>4. GivenPaid'
        <4>1. PICK n \in Nat : n = failedPosts + lostAnswers BY <1>0
        <4>2. failedPosts' + lostAnswers' = n + 1 BY <4>1, <1>5
        <4>3. n > MaxPostRetries => n + 1 > MaxPostRetries BY <1>0
        <4> QED BY <4>1, <4>2, <4>3, <3>1 DEF GivenPaid
      <3>5. w \in posts' BY <3>1
      <3> QED BY <3>1, <3>2, <3>3, <3>4, <3>5, <1>2 DEF AuditTypeOK
    <2> QED BY <2>1, <2>2
  <1>6. CASE Answered(p)
    <2>1. /\ delivered' = StoredOnceMore(p.batch) /\ posts' = (posts \ {p}) \cup {}
          /\ flushTimer' = TRUE /\ UNCHANGED <<given, lostAnswers, failedPosts>>
      BY <1>6 DEF Answered
    <2>2. \A r \in Records : \/ delivered'[r] = delivered[r]
                             \/ r \in ToSet(p.batch) /\ delivered'[r] = delivered[r] + 1
      BY <2>1, <1>4
    <2>3. lostAnswers' \in Nat /\ lostAnswers' >= lostAnswers BY <2>1, <1>0
    <2>4. OnePlace' /\ StoredPerLoss' BY <2>1, <2>2, <2>3, <1>1, AuReplace
    <2>5. delivered' \in [Records -> 0..(1 + MaxLostAnswers)]
      <3>1. \A r \in Records : delivered[r] <= 1 + lostAnswers /\
              (r \in ToSet(p.batch) => delivered[r] <= lostAnswers)
        BY DEF StoredPerLoss
      <3>2. \A r \in Records : StoredOnceMore(p.batch)[r] \in 0..(1 + MaxLostAnswers)
        BY <3>1, <1>4, <1>0
      <3> QED BY <2>1, <3>2 DEF StoredOnceMore
    <2>6. AuditTypeOK' BY <2>1, <2>5, <1>1 DEF AuditTypeOK
    <2>7. Watched' BY <2>1 DEF Watched
    <2>8. AttemptsPaid' /\ GivenPaid' BY <2>1 DEF AttemptsPaid, GivenPaid
    <2> QED BY <2>4, <2>6, <2>7, <2>8
  <1>7. CASE PostFails(p)
    <2>1. /\ p.phase = "posting" /\ failedPosts < MaxFailedPosts /\ failedPosts' = failedPosts + 1
          /\ AfterFailure(p) /\ UNCHANGED <<delivered, lostAnswers>>
      BY <1>7 DEF PostFails
    <2>2. /\ failedPosts' \in Nat /\ lostAnswers' \in Nat /\ failedPosts' >= failedPosts
          /\ failedPosts' + lostAnswers' = failedPosts + lostAnswers + 1
          /\ lostAnswers' >= lostAnswers /\ failedPosts' \in 0..MaxFailedPosts
      BY <2>1, <1>0
    <2>3. PICK R : /\ R = {} \/ (\E q \in Post : R = {q} /\ q.batch = p.batch)
                   /\ posts' = (posts \ {p}) \cup R
      BY <2>1, <2>2, <1>5
    <2>4. OnePlace' /\ StoredPerLoss' BY <2>1, <2>2, <2>3, <1>1, AuReplace
    <2>5. /\ AttemptsPaid' /\ GivenPaid' /\ posts' \subseteq Post /\ flushTimer' \in BOOLEAN
          /\ given' \subseteq Records
          /\ flushTimer' \/ posts' # {}
      BY <2>1, <2>2, <1>5
    <2>6. AuditTypeOK' BY <2>1, <2>2, <2>5, <1>1 DEF AuditTypeOK
    <2>7. Watched' BY <2>5 DEF Watched
    <2> QED BY <2>4, <2>5, <2>6, <2>7
  <1>8. CASE AnswerLost(p)
    <2>1. /\ p.phase = "posting" /\ lostAnswers < MaxLostAnswers /\ lostAnswers' = lostAnswers + 1
          /\ AfterFailure(p) /\ failedPosts' = failedPosts
          /\ delivered' = StoredOnceMore(p.batch)
      BY <1>8 DEF AnswerLost
    <2>2. /\ failedPosts' \in Nat /\ lostAnswers' \in Nat /\ failedPosts' >= failedPosts
          /\ failedPosts' + lostAnswers' = failedPosts + lostAnswers + 1
          /\ lostAnswers' > lostAnswers /\ lostAnswers' >= lostAnswers
          /\ lostAnswers' \in 0..MaxLostAnswers
      BY <2>1, <1>0
    <2>3. PICK R : /\ R = {} \/ (\E q \in Post : R = {q} /\ q.batch = p.batch)
                   /\ posts' = (posts \ {p}) \cup R
      BY <2>1, <2>2, <1>5
    <2>4. OnePlace' /\ StoredPerLoss'
      <3>1. \A r \in Records : \/ delivered'[r] = delivered[r]
                               \/ r \in ToSet(p.batch) /\ delivered'[r] = delivered[r] + 1
        BY <2>1, <1>4
      <3> QED BY <3>1, <2>2, <2>3, <1>1, AuReplace
    <2>5. /\ AttemptsPaid' /\ GivenPaid' /\ posts' \subseteq Post /\ flushTimer' \in BOOLEAN
          /\ given' \subseteq Records
          /\ flushTimer' \/ posts' # {}
      BY <2>1, <2>2, <1>5
    <2>6. delivered' \in [Records -> 0..(1 + MaxLostAnswers)]
      <3>1. \A r \in Records : delivered[r] <= 1 + lostAnswers /\
              (r \in ToSet(p.batch) => delivered[r] <= lostAnswers)
        BY DEF StoredPerLoss
      <3>2. \A r \in Records : StoredOnceMore(p.batch)[r] \in 0..(1 + MaxLostAnswers)
        BY <3>1, <1>4, <1>0
      <3> QED BY <2>1, <3>2 DEF StoredOnceMore
    <2>7. AuditTypeOK' BY <2>1, <2>2, <2>5, <2>6, <1>1 DEF AuditTypeOK
    <2>8. Watched' BY <2>5 DEF Watched
    <2> QED BY <2>4, <2>5, <2>7, <2>8
  <1>9. CASE BackoffOver(p)
    <2>1. /\ p.phase = "waiting" /\ posts' = (posts \ {p}) \cup {a}
          /\ UNCHANGED <<flushTimer, delivered, given, lostAnswers, failedPosts>>
      BY <1>9, <1>3 DEF BackoffOver
    <2>2. p.attempt < MaxPostRetries /\ p.attempt + 1 <= failedPosts + lostAnswers
      BY <2>1 DEF AttemptsPaid
    <2>3. a \in Post /\ a.batch = p.batch /\ a.attempt = p.attempt + 1 /\ a.phase = "posting"
      BY <2>2, <1>0 DEF Post
    <2> HIDE DEF a
    <2>4. lostAnswers' \in Nat /\ lostAnswers' >= lostAnswers
          /\ \A r \in Records : delivered'[r] = delivered[r]
      BY <2>1, <1>0
    <2>5. OnePlace' /\ StoredPerLoss'
      <3>1. PICK R : R = {a} OBVIOUS
      <3>2. posts' = (posts \ {p}) \cup R /\ \E q \in Post : R = {q} /\ q.batch = p.batch
        BY <2>1, <2>3, <3>1
      <3> QED BY <2>4, <3>2, <1>1, AuReplace
    <2>6. AuditTypeOK' BY <2>1, <2>3, <1>1 DEF AuditTypeOK
    <2>7. Watched' BY <2>1 DEF Watched
    <2>8. AttemptsPaid' BY <2>1, <2>2, <2>3, <1>0 DEF AttemptsPaid
    <2> QED BY <2>1, <2>5, <2>6, <2>7, <2>8 DEF GivenPaid
  <1> QED BY <1>6, <1>7, <1>8, <1>9

LEMMA AuExit ==
    ASSUME AuditInd, ProcessExits
    PROVE  AuditInd'
  <1> USE DEF AuditInd
  <1>1. /\ unsent' = <<>> /\ posts' = {} /\ flushTimer' = TRUE
        /\ UNCHANGED <<delivered, given, written, lostAnswers, failedPosts>>
        /\ exits' = exits + 1 /\ exits < MaxExits
        /\ forgotten' = forgotten \cup ToSet(unsent) \cup UNION {ToSet(p.batch) : p \in posts}
    BY DEF ProcessExits
  <1>2. forgotten' \subseteq Records
    <2>1. \A p \in posts : ToSet(p.batch) \subseteq Records
      BY AuSets DEF AuditTypeOK, Post
    <2>2. ToSet(unsent) \subseteq Records BY AuSets DEF AuditTypeOK
    <2> QED BY <1>1, <2>1, <2>2 DEF AuditTypeOK
  <1>3. exits' \in 0..MaxExits BY <1>1, AuditAssumption DEF AuditTypeOK
  <1>4. unsent' \in Seq(Records) /\ Len(unsent') < BatchSize BY <1>1, AuditAssumption
  <1>5. AuditTypeOK' BY <1>1, <1>2, <1>3, <1>4 DEF AuditTypeOK
  <1>6. ToSet(unsent') = {} BY <1>1, AuSets
  <1> QED BY <1>1, <1>5, <1>6
          DEF Watched, OnePlace, StoredPerLoss, AttemptsPaid, GivenPaid

\* The sink never loses sight of a buffered record (_flushTimer, flush), stores
\* one twice only for an answer that was lost, and drops a batch only after
\* every attempt of _sendWithRetry, for every size of batch and every order of
\* flushes, answers, retries and exits.
THEOREM AuditCorrect == AuditSpec => []AuditInvariant
  <1>1. AuditInit => AuditInd
    <2> SUFFICES ASSUME AuditInit PROVE AuditInd OBVIOUS
    <2>1. /\ unsent = <<>> /\ posts = {} /\ flushTimer = TRUE /\ given = {} /\ forgotten = {}
          /\ written = 0 /\ lostAnswers = 0 /\ failedPosts = 0 /\ exits = 0
          /\ delivered = [r \in Records |-> 0]
      BY DEF AuditInit
    <2>2. delivered \in [Records -> 0..(1 + MaxLostAnswers)] BY <2>1, AuditAssumption
    <2>3. AuditTypeOK BY <2>1, <2>2, AuditAssumption DEF AuditTypeOK
    <2>4. ToSet(unsent) = {} BY <2>1, AuSets
    <2>5. StoredPerLoss BY <2>1, <2>4 DEF StoredPerLoss
    <2> QED BY <2>1, <2>3, <2>4, <2>5 DEF AuditInd, Watched, OnePlace, AttemptsPaid, GivenPaid
  <1>2. ASSUME AuditInd, [AuditNext]_auditVars PROVE AuditInd'
    <2>1. CASE UNCHANGED auditVars
      BY <1>2, <2>1 DEF auditVars, AuditInd, AuditTypeOK, Watched, OnePlace, StoredPerLoss,
                        AttemptsPaid, GivenPaid
    <2> QED BY <1>2, <2>1, AuWrite, AuTimer, AuEnds, AuExit DEF AuditNext, Sending
  <1>3. AuditInd => AuditInvariant
    <2> SUFFICES ASSUME AuditInd PROVE AuditInvariant OBVIOUS
    <2>1. \A r \in Records : delivered[r] > 1 => lostAnswers > 0
      <3>1. lostAnswers \in Nat /\ \A r \in Records : delivered[r] \in Nat
        BY AuditAssumption DEF AuditInd, AuditTypeOK
      <3> QED BY <3>1 DEF AuditInd, StoredPerLoss
    <2> QED BY <2>1 DEF AuditInd, AuditInvariant, BufferIsWatched, Watched,
                        DroppedAfterAllAttempts, GivenPaid
  <1> QED BY <1>1, <1>2, <1>3, PTL DEF AuditSpec

-----------------------------------------------------------------------------
\* CircuitBreaker
(***************************************************************************)
(* Proofs about CircuitBreaker: how many calls reach a failing provider,   *)
(* and how an open circuit is left.                                        *)
(***************************************************************************)

\* A circuit that is not there has the default fields.
Sound(c) == Coherent(c) /\ (c.state = "none" => c = NoCircuit)

\* A request to the endpoint, with sound circuits in it.
Request(s) ==
  /\ s = [id |-> s.id, body |-> s.body, live |-> s.live, obj |-> s.obj, left |-> s.left,
          waiting |-> s.waiting]
  /\ Sound(s.body) /\ Sound(s.obj)

BreakerTypes ==
  /\ Sound(circuit) /\ Sound(kept) /\ Sound(loading.data)
  /\ \A s \in saves : Request(s)
  /\ calls \in 0..MaxCallers /\ burst \in Nat /\ breakerNow \in Nat

\* The calls a circuit lets through that starts with nothing counted.
OneRound == FailureThreshold - 1 + MaxCallers

\* A load may still replace the circuit.
Pending == circuit = NoCircuit \/ loading # NotLoading

\* The calls of the burst beyond the first k are in the circuit's own count, or
\* under way; an open circuit that has counted some of them is not recovered.
Covers(c, k) ==
  /\ c.state = "none" => burst <= k
  /\ c.state = "CLOSED" => burst <= k + c.failures + calls
  /\ c.state = "HALF_OPEN" => burst <= k + calls
  /\ c.state = "OPEN" => burst <= k + OneRound /\ (burst <= k \/ ~Recovered(c))
Within(k) == Covers(circuit, k)

\* A load throws away one round of counting, and only one: the next reset or
\* restart ends the burst.
Rounds ==
  /\ Within(OneRound)
  /\ Pending \/ ~overwritten => Within(0)

BreakerInd == BreakerTypes /\ Rounds

-----------------------------------------------------------------------------
(* Circuits.                                                               *)

LEMMA BrSoundStays ==
  ASSUME NEW c, Sound(c), breakerNow \in Nat, breakerNow' \in Nat, breakerNow' >= breakerNow
  PROVE  Sound(c)'
  BY DEF Sound, Coherent, Circuits, NoCircuit

LEMMA BrDefaults ==
  ASSUME breakerNow \in Nat
  PROVE  /\ Sound(NoCircuit) /\ Sound(Closed)
         /\ Closed = [state |-> "CLOSED", failures |-> 0, successes |-> 0, openedAt |-> 0]
  <1>1. Closed = [state |-> "CLOSED", failures |-> 0, successes |-> 0, openedAt |-> 0]
    BY DEF Closed, NoCircuit
  <1> QED BY <1>1, BreakerAssumption DEF Sound, Coherent, Circuits, NoCircuit

LEMMA BrPresent ==
  ASSUME BreakerTypes
  PROVE  /\ Sound(Present) /\ Present.state # "none"
         /\ circuit # NoCircuit => Present = circuit
         /\ circuit = NoCircuit => Present = Closed
  BY BrDefaults DEF BreakerTypes, Present, Sound

\* The circuit c with three of its fields replaced, field by field.
Replaced(c, f, st, o) ==
  [c EXCEPT !.failures = f, !.state = st, !.openedAt = o]
    = [state |-> st, failures |-> f, successes |-> c.successes, openedAt |-> o]

\* A record of a circuit, field by field.
LEMMA BrFields ==
  ASSUME NEW c \in Circuits, NEW f, NEW st, NEW o
  PROVE  Replaced(c, f, st, o)
  <1>1. [c EXCEPT !.failures = f, !.state = st, !.openedAt = o]
          = [[[c EXCEPT !.failures = f] EXCEPT !.state = st] EXCEPT !.openedAt = o]
    OBVIOUS
  <1>2. [c EXCEPT !.failures = f]
          = [state |-> c.state, failures |-> f, successes |-> c.successes, openedAt |-> c.openedAt]
    BY DEF Circuits
  <1>3. [[state |-> c.state, failures |-> f, successes |-> c.successes, openedAt |-> c.openedAt]
           EXCEPT !.state = st]
          = [state |-> st, failures |-> f, successes |-> c.successes, openedAt |-> c.openedAt]
    OBVIOUS
  <1>4. [[state |-> st, failures |-> f, successes |-> c.successes, openedAt |-> c.openedAt]
           EXCEPT !.openedAt = o]
          = [state |-> st, failures |-> f, successes |-> c.successes, openedAt |-> o]
    OBVIOUS
  <1> QED BY <1>1, <1>2, <1>3, <1>4, Zenon DEF Replaced

\* recordFailure leaves a sound circuit, and opens it now or counts.
LEMMA BrFailed ==
  ASSUME NEW c, Sound(c), c.state # "none", breakerNow \in Nat
  PROVE  /\ Sound(Failed(c)) /\ Failed(c).state # "none"
         /\ Opens(c) => Failed(c).state = "OPEN" /\ Failed(c).openedAt = breakerNow
         /\ ~Opens(c) => Failed(c).state = c.state /\ Failed(c).openedAt = c.openedAt
         /\ c.state = "CLOSED" /\ ~Opens(c) => Failed(c).failures = c.failures + 1
  <1> DEFINE f == IF c.failures < FailureThreshold THEN c.failures + 1 ELSE c.failures
             st == IF Opens(c) THEN "OPEN" ELSE c.state
             o == IF Opens(c) THEN breakerNow ELSE c.openedAt
  <1>1. c \in Circuits BY DEF Sound, Coherent
  <1>2. Failed(c) = [state |-> st, failures |-> f, successes |-> c.successes, openedAt |-> o]
    <2>1. Failed(c) = [c EXCEPT !.failures = f, !.state = st, !.openedAt = o]
      BY DEF Failed
    <2> HIDE DEF f, st, o
    <2>2. Replaced(c, f, st, o) BY <1>1, BrFields, Zenon
    <2> QED BY <2>1, <2>2, Zenon DEF Replaced
  <1>3. f \in 0..FailureThreshold BY <1>1, BreakerAssumption DEF Circuits
  <1>4. st \in {"CLOSED", "OPEN", "HALF_OPEN"} /\ o \in Nat /\ o <= breakerNow
    BY <1>1 DEF Circuits, Sound, Coherent
  <1>5. st = "CLOSED" => f < FailureThreshold /\ c.successes = 0
    BY <1>1, BreakerAssumption DEF Opens, Sound, Coherent, Circuits
  <1>6. c.successes \in 0..(SuccessThreshold - 1) BY <1>1 DEF Circuits
  <1>7. c.state = "CLOSED" => f = c.failures + 1 BY <1>1, BreakerAssumption DEF Sound, Coherent
  <1>8. Sound(Failed(c)) /\ Failed(c).state # "none"
    <2> HIDE DEF f, st, o
    <2> QED BY <1>2, <1>3, <1>4, <1>5, <1>6 DEF Sound, Coherent, Circuits
  <1> QED BY <1>2, <1>7, <1>8

LEMMA BrSucceeded ==
  ASSUME NEW c, Sound(c), c.state # "none", breakerNow \in Nat
  PROVE  /\ Sound(Succeeded(c)) /\ Succeeded(c).state # "none"
         /\ c.state = "OPEN" => Succeeded(c) = c
  <1>1. c \in Circuits BY DEF Sound, Coherent
  <1>2. CASE c.state = "OPEN" BY <1>2 DEF Succeeded
  <1>3. CASE c.state = "CLOSED"
    <2>1. Succeeded(c) = [state |-> c.state, failures |-> 0, successes |-> c.successes,
                          openedAt |-> c.openedAt]
      BY <1>1, <1>3 DEF Succeeded, Circuits
    <2> QED BY <2>1, <1>1, <1>3, BreakerAssumption DEF Sound, Coherent, Circuits
  <1>4. CASE c.state = "HALF_OPEN"
    <2>1. CASE c.successes + 1 >= SuccessThreshold
      <3>1. Succeeded(c) = [c EXCEPT !.state = "CLOSED", !.failures = 0, !.successes = 0]
        BY <1>4, <2>1 DEF Succeeded
      <3>2. [c EXCEPT !.state = "CLOSED", !.failures = 0, !.successes = 0]
              = [[[c EXCEPT !.state = "CLOSED"] EXCEPT !.failures = 0] EXCEPT !.successes = 0]
        OBVIOUS
      <3>3. [c EXCEPT !.state = "CLOSED"]
              = [state |-> "CLOSED", failures |-> c.failures, successes |-> c.successes,
                 openedAt |-> c.openedAt]
        BY <1>1 DEF Circuits
      <3>4. [[state |-> "CLOSED", failures |-> c.failures, successes |-> c.successes,
                 openedAt |-> c.openedAt] EXCEPT !.failures = 0]
              = [state |-> "CLOSED", failures |-> 0, successes |-> c.successes,
                 openedAt |-> c.openedAt]
        OBVIOUS
      <3>5. [[state |-> "CLOSED", failures |-> 0, successes |-> c.successes,
                 openedAt |-> c.openedAt] EXCEPT !.successes = 0]
              = [state |-> "CLOSED", failures |-> 0, successes |-> 0,
                 openedAt |-> c.openedAt]
        OBVIOUS
      <3>6. Succeeded(c) = [state |-> "CLOSED", failures |-> 0, successes |-> 0,
                            openedAt |-> c.openedAt]
        BY <3>1, <3>2, <3>3, <3>4, <3>5, Zenon
      <3> QED BY <3>6, <1>1, <1>4, BreakerAssumption DEF Sound, Coherent, Circuits
    <2>2. CASE ~(c.successes + 1 >= SuccessThreshold)
      <3>1. Succeeded(c) = [state |-> c.state, failures |-> c.failures,
                            successes |-> c.successes + 1, openedAt |-> c.openedAt]
        BY <1>1, <1>4, <2>2 DEF Succeeded, Circuits
      <3> QED BY <3>1, <1>1, <1>4, <2>2, BreakerAssumption DEF Sound, Coherent, Circuits
    <2> QED BY <2>1, <2>2
  <1> QED BY <1>1, <1>2, <1>3, <1>4 DEF Circuits

LEMMA BrHalfOpen ==
  ASSUME NEW c, Sound(c), c.state # "none", breakerNow \in Nat
  PROVE  Sound(HalfOpen(c)) /\ HalfOpen(c).state = "HALF_OPEN"
  <1>1. c \in Circuits BY DEF Sound, Coherent
  <1>2. [c EXCEPT !.state = "HALF_OPEN", !.successes = 0]
          = [[c EXCEPT !.state = "HALF_OPEN"] EXCEPT !.successes = 0]
    OBVIOUS
  <1>3. [c EXCEPT !.state = "HALF_OPEN"]
          = [state |-> "HALF_OPEN", failures |-> c.failures, successes |-> c.successes,
             openedAt |-> c.openedAt]
    BY <1>1 DEF Circuits
  <1>4. [[state |-> "HALF_OPEN", failures |-> c.failures, successes |-> c.successes,
             openedAt |-> c.openedAt] EXCEPT !.successes = 0]
          = [state |-> "HALF_OPEN", failures |-> c.failures, successes |-> 0,
             openedAt |-> c.openedAt]
    OBVIOUS
  <1>5. HalfOpen(c) = [state |-> "HALF_OPEN", failures |-> c.failures, successes |-> 0,
                       openedAt |-> c.openedAt]
    BY <1>2, <1>3, <1>4, Zenon DEF HalfOpen
  <1> QED BY <1>5, <1>1, BreakerAssumption DEF Sound, Coherent, Circuits

-----------------------------------------------------------------------------
(* Requests.                                                               *)

LEMMA BrNewRequest ==
  ASSUME NEW c, NEW i, Sound(c), breakerNow \in Nat
  PROVE  Request(Save(c, i)) /\ Request(Delete(i))
  BY BrDefaults DEF Request, Save, Delete

\* A request with other flags or another circuit is one.
LEMMA BrRequestEdits ==
  ASSUME NEW s, Request(s), NEW b, Sound(b), NEW n, NEW v, breakerNow \in Nat
  PROVE  /\ Request([s EXCEPT !.live = v, !.obj = b])
         /\ Request([s EXCEPT !.waiting = v, !.body = b])
         /\ Request([s EXCEPT !.waiting = v, !.left = n, !.body = b])
         /\ Request([s EXCEPT !.left = n, !.live = v])
  <1> DEFINE R(bo, li, ob, le, wa) == [id |-> s.id, body |-> bo, live |-> li, obj |-> ob,
                                       left |-> le, waiting |-> wa]
  <1>0. s = R(s.body, s.live, s.obj, s.left, s.waiting) /\ Sound(s.body) /\ Sound(s.obj)
    BY DEF Request
  <1>5. ASSUME NEW bo, NEW li, NEW ob, NEW le, NEW wa, Sound(bo), Sound(ob)
        PROVE  Request(R(bo, li, ob, le, wa))
    BY <1>5 DEF Request
  <1>1. Request([s EXCEPT !.live = v, !.obj = b])
    <2>1. [s EXCEPT !.live = v, !.obj = b] = [[s EXCEPT !.live = v] EXCEPT !.obj = b]
      OBVIOUS
    <2>2. [s EXCEPT !.live = v] = R(s.body, v, s.obj, s.left, s.waiting) BY <1>0
    <2>3. [R(s.body, v, s.obj, s.left, s.waiting) EXCEPT !.obj = b]
            = R(s.body, v, b, s.left, s.waiting)
      OBVIOUS
    <2> HIDE DEF R
    <2>4. [s EXCEPT !.live = v, !.obj = b] = R(s.body, v, b, s.left, s.waiting)
      BY <2>1, <2>2, <2>3, Zenon
    <2>6. Request(R(s.body, v, b, s.left, s.waiting)) BY <1>0, <1>5
    <2> QED BY <2>4, <2>6, Zenon
  <1>2. Request([s EXCEPT !.waiting = v, !.body = b])
    <2>1. [s EXCEPT !.waiting = v, !.body = b] = [[s EXCEPT !.waiting = v] EXCEPT !.body = b]
      OBVIOUS
    <2>2. [s EXCEPT !.waiting = v] = R(s.body, s.live, s.obj, s.left, v) BY <1>0
    <2>3. [R(s.body, s.live, s.obj, s.left, v) EXCEPT !.body = b]
            = R(b, s.live, s.obj, s.left, v)
      OBVIOUS
    <2> HIDE DEF R
    <2>4. [s EXCEPT !.waiting = v, !.body = b] = R(b, s.live, s.obj, s.left, v)
      BY <2>1, <2>2, <2>3, Zenon
    <2>6. Request(R(b, s.live, s.obj, s.left, v)) BY <1>0, <1>5
    <2> QED BY <2>4, <2>6, Zenon
  <1>3. Request([s EXCEPT !.waiting = v, !.left = n, !.body = b])
    <2>1. [s EXCEPT !.waiting = v, !.left = n, !.body = b]
            = [[[s EXCEPT !.waiting = v] EXCEPT !.left = n] EXCEPT !.body = b]
      OBVIOUS
    <2>2. [s EXCEPT !.waiting = v] = R(s.body, s.live, s.obj, s.left, v) BY <1>0
    <2>3. [R(s.body, s.live, s.obj, s.left, v) EXCEPT !.left = n]
            = R(s.body, s.live, s.obj, n, v)
      OBVIOUS
    <2>4. [R(s.body, s.live, s.obj, n, v) EXCEPT !.body = b] = R(b, s.live, s.obj, n, v)
      OBVIOUS
    <2> HIDE DEF R
    <2>5. [s EXCEPT !.waiting = v, !.left = n, !.body = b] = R(b, s.live, s.obj, n, v)
      BY <2>1, <2>2, <2>3, <2>4, Zenon
    <2>6. Request(R(b, s.live, s.obj, n, v)) BY <1>0, <1>5
    <2> QED BY <2>5, <2>6, Zenon
  <1>4. Request([s EXCEPT !.left = n, !.live = v])
    <2>1. [s EXCEPT !.left = n, !.live = v] = [[s EXCEPT !.left = n] EXCEPT !.live = v]
      OBVIOUS
    <2>2. [s EXCEPT !.left = n] = R(s.body, s.live, s.obj, n, s.waiting) BY <1>0
    <2>3. [R(s.body, s.live, s.obj, n, s.waiting) EXCEPT !.live = v]
            = R(s.body, v, s.obj, n, s.waiting)
      OBVIOUS
    <2> HIDE DEF R
    <2>4. [s EXCEPT !.left = n, !.live = v] = R(s.body, v, s.obj, n, s.waiting)
      BY <2>1, <2>2, <2>3, Zenon
    <2>6. Request(R(s.body, v, s.obj, n, s.waiting)) BY <1>0, <1>5
    <2> QED BY <2>4, <2>6, Zenon
  <1> QED BY <1>1, <1>2, <1>3, <1>4

LEMMA BrDetached ==
  ASSUME BreakerTypes
  PROVE  \A s \in Detached : Request(s)
  <1> SUFFICES ASSUME NEW s \in saves
               PROVE  Request([s EXCEPT !.live = FALSE,
                                        !.obj = IF s.live THEN circuit ELSE s.obj])
    BY DEF Detached
  <1>1. PICK b : b = IF s.live THEN circuit ELSE s.obj OBVIOUS
  <1>2. Sound(b) /\ Request(s) BY <1>1 DEF BreakerTypes, Request
  <1>3. Request([s EXCEPT !.live = FALSE, !.obj = b]) BY <1>2, BrRequestEdits DEF BreakerTypes
  <1> QED BY <1>1, <1>3

LEMMA BrRequestStays ==
  ASSUME NEW s, Request(s), breakerNow \in Nat, breakerNow' \in Nat, breakerNow' >= breakerNow
  PROVE  Request(s)'
  BY BrSoundStays DEF Request

\* The types after a step, from what the step may have changed.
LEMMA BrTypesStep ==
  ASSUME BreakerTypes, breakerNow' \in Nat, breakerNow' >= breakerNow,
         Sound(circuit)', Sound(kept)', Sound(loading.data)',
         calls' \in 0..MaxCallers, burst' \in Nat,
         \A s \in saves' : Request(s)
  PROVE  BreakerTypes'
  BY BrRequestStays DEF BreakerTypes

-----------------------------------------------------------------------------
(* The burst.                                                              *)

LEMMA BrOneRound ==
  /\ OneRound \in Nat /\ MaxCallers <= OneRound
  /\ \A f \in Nat, n \in 0..MaxCallers : f < FailureThreshold => f + n <= OneRound
  BY BreakerAssumption DEF OneRound

\* The default circuit that stands in for a missing one covers what it covered.
LEMMA BrPresentCovers ==
  ASSUME BreakerTypes, NEW k \in Nat, Within(k)
  PROVE  Covers(Present, k)
  <1>1. CASE circuit = NoCircuit
    <2>1. burst <= k BY <1>1 DEF Within, Covers, NoCircuit
    <2> QED BY <1>1, <2>1, BrDefaults, BrPresent DEF Covers, BreakerTypes
  <1> QED BY <1>1, BrPresent DEF Within

\* recordFailure turns a call under way into a counted one, or opens.
LEMMA BrFailedCovers ==
  ASSUME BreakerTypes, RecoveryTime > 0, NEW c, Sound(c), c.state # "none",
         NEW k \in Nat, Covers(c, k), NEW d, d = Failed(c),
         calls > 0, calls' = calls - 1, burst' = burst, breakerNow' = breakerNow
  PROVE  Covers(d, k)'
  <1>0. /\ calls \in 0..MaxCallers /\ burst \in Nat /\ breakerNow \in Nat /\ MaxCallers \in Nat
        /\ RecoveryTime \in Nat
    BY BreakerAssumption DEF BreakerTypes
  <1>1. c \in Circuits /\ (c.state = "CLOSED" => c.failures < FailureThreshold)
    BY DEF Sound, Coherent
  <1>2. c.failures \in Nat /\ c.state \in {"CLOSED", "OPEN", "HALF_OPEN"} /\ c.openedAt \in Nat
    BY <1>1, BreakerAssumption DEF Circuits
  <1>3. CASE Opens(c)
    <2>1. d.state = "OPEN" /\ d.openedAt = breakerNow BY <1>0, <1>3, BrFailed
    <2>2. ~Recovered(d)' BY <2>1, <1>0 DEF Recovered
    <2>3. burst <= k + OneRound
      <3>1. CASE c.state = "CLOSED"
        <4>1. c.failures + calls <= OneRound BY <3>1, <1>0, <1>1, <1>2, BrOneRound
        <4> QED BY <3>1, <4>1, <1>0, <1>2, BrOneRound DEF Covers
      <3>2. CASE c.state = "HALF_OPEN" BY <3>2, <1>0, BrOneRound DEF Covers
      <3> QED BY <3>1, <3>2, <1>3 DEF Opens
    <2> QED BY <2>1, <2>2, <2>3 DEF Covers
  <1>4. CASE ~Opens(c)
    <2>1. d.state = c.state /\ d.openedAt = c.openedAt
          /\ (c.state = "CLOSED" => d.failures = c.failures + 1)
      BY <1>0, <1>4, BrFailed
    <2>2. c.state # "HALF_OPEN" BY <1>4 DEF Opens
    <2>3. CASE c.state = "CLOSED" BY <2>1, <2>3, <1>0, <1>2 DEF Covers
    <2>4. CASE c.state = "OPEN"
      <3>1. Recovered(d)' <=> Recovered(c) BY <2>1 DEF Recovered
      <3> QED BY <2>1, <2>4, <3>1 DEF Covers
    <2> QED BY <2>2, <2>3, <2>4, <1>2
  <1> QED BY <1>3, <1>4

\* What Rounds becomes when a step keeps every bound and no load ends in it.
LEMMA BrRoundsStep ==
  ASSUME Rounds,
         ASSUME NEW k \in Nat, Within(k) PROVE Within(k)',
         Pending' \/ ~overwritten' => Pending \/ ~overwritten
  PROVE  Rounds'
  <1>1. OneRound \in Nat /\ OneRound' = OneRound BY BrOneRound
  <1>2. Within(OneRound)' BY <1>1 DEF Rounds
  <1>3. Within(0) => Within(0)' OBVIOUS
  <1> QED BY <1>2, <1>3 DEF Rounds

\* A step that ends the burst.
LEMMA BrRoundsEnd ==
  ASSUME burst' = 0, calls' \in 0..MaxCallers, Sound(circuit)'
  PROVE  Rounds'
  <1>1. PICK c : c = circuit' OBVIOUS
  <1>2. c.failures \in Nat BY <1>1, BreakerAssumption DEF Sound, Coherent, Circuits
  <1>3. ASSUME NEW k \in Nat PROVE Within(k)'
    <2>0. calls' \in Nat /\ OneRound \in Nat BY BrOneRound, BreakerAssumption
    <2>1. burst' <= k /\ burst' <= k + c.failures + calls' /\ burst' <= k + calls'
          /\ burst' <= k + OneRound
      <3>1. PICK f \in Nat : f = c.failures BY <1>2
      <3>2. PICK n \in Nat : n = calls' BY <2>0
      <3>3. PICK m \in Nat : m = OneRound BY <2>0
      <3>4. 0 <= k /\ 0 <= k + f + n /\ 0 <= k + n /\ 0 <= k + m OBVIOUS
      <3> QED BY <3>1, <3>2, <3>3, <3>4
    <2> QED BY <1>1, <2>1 DEF Within, Covers
  <1> QED BY <1>3, BrOneRound DEF Rounds

-----------------------------------------------------------------------------
(* The steps.                                                              *)

\* loadCircuitFromStore is started only where Pending held already.
LEMMA BrLoading ==
  ASSUME BreakerTypes, loading' = Loading
  PROVE  /\ Sound(loading'.data)
         /\ circuit # NoCircuit => loading' = loading
         /\ Pending' => Pending \/ circuit' = NoCircuit
  BY BrDefaults DEF BreakerTypes, Loading, StartsLoad, Pending

LEMMA BrAdmit ==
  ASSUME BreakerInd, Admit, RecoveryTime > 0
  PROVE  BreakerInd'
  <1> USE DEF BreakerInd
  <1>0. PICK c : c = Present OBVIOUS
  <1>1. Sound(c) /\ c.state # "none" BY <1>0, BrPresent
  <1>2. /\ calls < MaxCallers /\ calls' = calls + 1 /\ burst' = burst + 1
        /\ breakerNow' = breakerNow /\ kept' = kept /\ overwritten' = overwritten
        /\ loading' = Loading
    BY DEF Admit
  <1>3. calls \in 0..MaxCallers /\ burst \in Nat /\ breakerNow \in Nat /\ MaxCallers \in Nat
    BY BreakerAssumption DEF BreakerTypes
  <1>4. Sound(circuit') /\ circuit'.state # "none" /\ \A s \in saves' : Request(s)
    <2>1. CASE c.state = "OPEN"
      <3>1. PICK h : h = HalfOpen(c) OBVIOUS
      <3>2. Sound(h) /\ h.state = "HALF_OPEN" BY <3>1, <1>1, <1>3, BrHalfOpen
      <3>3. circuit' = h /\ saves' = saves \cup {Save(h, FreshId)}
        BY <2>1, <3>1, <1>0 DEF Admit
      <3>4. Request(Save(h, FreshId)) BY <3>2, <1>3, BrNewRequest
      <3> QED BY <3>2, <3>3, <3>4 DEF BreakerTypes
    <2>2. CASE c.state # "OPEN"
      <3>1. circuit' = c /\ saves' = saves BY <2>2, <1>0 DEF Admit
      <3> QED BY <3>1, <1>1 DEF BreakerTypes
    <2> QED BY <2>1, <2>2
  <1>5. ASSUME NEW k \in Nat, Within(k) PROVE Within(k)'
    <2>1. Covers(c, k) BY <1>0, <1>5, BrPresentCovers
    <2>2. CASE c.state = "OPEN"
      <3>1. Recovered(c) BY <2>2, <1>0 DEF Admit
      <3>2. burst <= k BY <2>1, <2>2, <3>1 DEF Covers
      <3>3. circuit'.state = "HALF_OPEN" BY <2>2, <1>0, <1>1, <1>3, BrHalfOpen DEF Admit
      <3> QED BY <3>2, <3>3, <1>2, <1>3 DEF Within, Covers
    <2>3. CASE c.state # "OPEN"
      <3>1. circuit' = c BY <2>3, <1>0 DEF Admit
      <3>2. c.failures \in Nat BY <1>1, BreakerAssumption DEF Sound, Coherent, Circuits
      <3> QED BY <3>1, <3>2, <2>1, <2>3, <1>1, <1>2, <1>3 DEF Within, Covers
    <2> QED BY <2>2, <2>3
  <1>6. Pending' => Pending BY <1>2, <1>4, BrLoading DEF NoCircuit
  <1>7. Rounds' BY <1>5, <1>6, <1>2, BrRoundsStep
  <1>8. Sound(circuit)' /\ Sound(kept)' /\ Sound(loading.data)'
    <2>1. Sound(loading'.data) /\ Sound(kept) BY <1>2, BrLoading DEF BreakerTypes
    <2> QED BY <2>1, <1>2, <1>4 DEF Sound, Coherent
  <1>9. calls' \in 0..MaxCallers /\ burst' \in Nat /\ breakerNow' \in Nat
        /\ breakerNow' >= breakerNow
    BY <1>2, <1>3
  <1> QED BY <1>4, <1>7, <1>8, <1>9, BrTypesStep

\* A failure recorded, for a call that was refused or one that returned.
LEMMA BrRecordsFailure ==
  ASSUME BreakerInd, RecoveryTime > 0, Refuse \/ CallFails
  PROVE  BreakerInd'
  <1> USE DEF BreakerInd
  <1>0. PICK c : c = Present OBVIOUS
  <1>1. Sound(c) /\ c.state # "none" BY <1>0, BrPresent
  <1>2. PICK d : d = Failed(c) OBVIOUS
  <1>3. /\ burst' = burst /\ breakerNow' = breakerNow /\ kept' = kept
        /\ overwritten' = overwritten /\ circuit' = d
        /\ saves' = saves \cup {Save(d, FreshId)}
    BY <1>0, <1>2 DEF Refuse, CallFails
  <1>4. calls \in 0..MaxCallers /\ burst \in Nat /\ breakerNow \in Nat /\ MaxCallers \in Nat
    BY BreakerAssumption DEF BreakerTypes
  <1>5. Sound(d) /\ d.state # "none" BY <1>1, <1>2, <1>4, BrFailed
  <1>6. Request(Save(d, FreshId)) BY <1>5, <1>4, BrNewRequest
  <1>7. \A s \in saves' : Request(s) BY <1>3, <1>6 DEF BreakerTypes
  <1>8. /\ Sound(loading'.data) /\ (Pending' => Pending) /\ calls' \in 0..MaxCallers
        /\ \A k \in Nat : Within(k) => Within(k)'
    <2>1. CASE CallFails
      <3>1. loading' = Loading /\ calls > 0 /\ calls' = calls - 1 BY <2>1 DEF CallFails
      <3>2. Pending' => Pending BY <3>1, <1>3, <1>5, BrLoading DEF NoCircuit
      <3>3. ASSUME NEW k \in Nat, Within(k) PROVE Within(k)'
        <4>1. Covers(c, k) BY <1>0, <3>3, BrPresentCovers
        <4>2. Covers(d, k)' BY <4>1, <3>1, <1>1, <1>2, <1>3, BrFailedCovers
        <4> QED BY <4>2, <1>3 DEF Within, Covers
      <3> QED BY <3>1, <3>2, <3>3, <1>4, BrLoading
    <2>2. CASE Refuse
      <3>1. loading' = loading /\ calls' = calls /\ c.state = "OPEN"
        BY <2>2, <1>0 DEF Refuse
      <3>2. circuit # NoCircuit /\ c = circuit
        BY <3>1, <1>0, <1>4, BrPresent, BrDefaults
      <3>3. Pending' => Pending BY <3>1, <3>2, <1>3, <1>5 DEF Pending, NoCircuit
      <3>4. ~Opens(c) BY <3>1 DEF Opens
      <3>5. d.state = "OPEN" /\ d.openedAt = c.openedAt
        BY <3>1, <3>4, <1>1, <1>2, <1>4, BrFailed
      <3>6. ASSUME NEW k \in Nat, Within(k) PROVE Within(k)'
        <4>1. Recovered(d)' <=> Recovered(c) BY <3>5, <1>3 DEF Recovered
        <4> QED BY <4>1, <3>6, <3>1, <3>2, <3>5, <1>3 DEF Within, Covers
      <3> QED BY <3>1, <3>3, <3>6, <1>4 DEF BreakerTypes
    <2> QED BY <2>1, <2>2
  <1>9. Rounds' BY <1>8, <1>3, BrRoundsStep
  <1>10. Sound(circuit)' /\ Sound(kept)' /\ Sound(loading.data)'
    <2>1. Sound(kept) BY DEF BreakerTypes
    <2> QED BY <2>1, <1>3, <1>5, <1>8 DEF Sound, Coherent
  <1>11. burst' \in Nat /\ breakerNow' \in Nat /\ breakerNow' >= breakerNow BY <1>3, <1>4
  <1> QED BY <1>7, <1>8, <1>9, <1>10, <1>11, BrTypesStep

LEMMA BrCallSucceeds ==
  ASSUME BreakerInd, CallSucceeds
  PROVE  BreakerInd'
  <1> USE DEF BreakerInd
  <1>0. PICK c : c = Present OBVIOUS
  <1>1. Sound(c) /\ c.state # "none" BY <1>0, BrPresent
  <1>2. PICK d : d = Succeeded(c) OBVIOUS
  <1>3. /\ burst' = 0 /\ breakerNow' = breakerNow /\ kept' = kept /\ circuit' = d
        /\ calls > 0 /\ calls' = calls - 1 /\ loading' = Loading
        /\ saves' = saves \cup {Save(d, FreshId)}
    BY <1>0, <1>2 DEF CallSucceeds
  <1>4. calls \in 0..MaxCallers /\ breakerNow \in Nat /\ MaxCallers \in Nat
    BY BreakerAssumption DEF BreakerTypes
  <1>5. Sound(d) BY <1>1, <1>2, <1>4, BrSucceeded
  <1>6. Request(Save(d, FreshId)) BY <1>5, <1>4, BrNewRequest
  <1>7. \A s \in saves' : Request(s) BY <1>3, <1>6 DEF BreakerTypes
  <1>8. Sound(circuit)' /\ Sound(kept)' /\ Sound(loading.data)'
    <2>1. Sound(loading'.data) /\ Sound(kept) BY <1>3, BrLoading DEF BreakerTypes
    <2> QED BY <2>1, <1>3, <1>5 DEF Sound, Coherent
  <1>9. calls' \in 0..MaxCallers /\ burst' \in Nat /\ breakerNow' \in Nat
        /\ breakerNow' >= breakerNow
    BY <1>3, <1>4
  <1> QED BY <1>3, <1>7, <1>8, <1>9, BrTypesStep, BrRoundsEnd

LEMMA BrCallUnavailable ==
  ASSUME BreakerInd, CallUnavailable
  PROVE  BreakerInd'
  <1> USE DEF BreakerInd
  <1>1. /\ breakerNow' = breakerNow /\ kept' = kept /\ circuit' = circuit
        /\ calls > 0 /\ calls' = calls - 1 /\ loading' = loading /\ saves' = saves
        /\ overwritten' = overwritten
    BY DEF CallUnavailable
  <1>2. calls \in 0..MaxCallers /\ breakerNow \in Nat /\ MaxCallers \in Nat /\ burst \in Nat
    BY BreakerAssumption DEF BreakerTypes
  <1>3. burst' \in Nat /\ (burst' = burst - 1 \/ (burst' = 0 /\ burst = 0))
    BY <1>2 DEF CallUnavailable
  <1>4. ASSUME NEW k \in Nat, Within(k) PROVE Within(k)'
    <2>1. Recovered(circuit)' <=> Recovered(circuit) BY <1>1 DEF Recovered
    <2>2. circuit.failures \in Nat
      BY BreakerAssumption DEF BreakerTypes, Sound, Coherent, Circuits
    <2>3. burst' <= burst /\ calls' \in Nat BY <1>1, <1>2, <1>3
    <2>4. circuit.state = "none" => burst' <= k BY <1>4, <2>3, <1>2, <1>3 DEF Within, Covers
    <2>5. circuit.state = "CLOSED" => burst' <= k + circuit.failures + calls'
      BY <1>1, <1>4, <2>2, <2>3, <1>2, <1>3 DEF Within, Covers
    <2>6. circuit.state = "HALF_OPEN" => burst' <= k + calls'
      BY <1>1, <1>4, <2>2, <2>3, <1>2, <1>3 DEF Within, Covers
    <2>7. circuit.state = "OPEN" => burst' <= k + OneRound /\ (burst' <= k \/ ~Recovered(circuit))
      BY <1>4, <2>3, <1>2, <1>3, BrOneRound DEF Within, Covers
    <2> QED BY <1>1, <2>1, <2>4, <2>5, <2>6, <2>7 DEF Within, Covers
  <1>5. Pending' => Pending BY <1>1 DEF Pending
  <1>6. Rounds' BY <1>1, <1>4, <1>5, BrRoundsStep
  <1>7. Sound(circuit)' /\ Sound(kept)' /\ Sound(loading.data)'
    BY <1>1 DEF Sound, Coherent, BreakerTypes
  <1>8. calls' \in 0..MaxCallers /\ breakerNow' \in Nat /\ breakerNow' >= breakerNow
    BY <1>1, <1>2
  <1>9. \A s \in saves' : Request(s) BY <1>1 DEF BreakerTypes
  <1> QED BY <1>3, <1>6, <1>7, <1>8, <1>9, BrTypesStep

\* A step that leaves the circuit, the calls and the burst alone.
LEMMA BrOutside ==
  ASSUME BreakerInd, UNCHANGED <<circuit, calls, breakerNow, burst, overwritten>>,
         loading' # NotLoading => loading # NotLoading,
         Sound(kept'), Sound(loading'.data), \A s \in saves' : Request(s)
  PROVE  BreakerInd'
  <1> USE DEF BreakerInd
  <1>1. ASSUME NEW k \in Nat, Within(k) PROVE Within(k)'
    BY <1>1 DEF Within, Covers, Recovered
  <1>2. Pending' => Pending BY DEF Pending
  <1>3. Rounds' BY <1>1, <1>2, BrRoundsStep
  <1>4. Sound(circuit)' /\ Sound(kept)' /\ Sound(loading.data)'
    BY DEF Sound, Coherent, BreakerTypes
  <1>5. calls' \in 0..MaxCallers /\ burst' \in Nat /\ breakerNow' \in Nat
        /\ breakerNow' >= breakerNow
    BY DEF BreakerTypes
  <1> QED BY <1>3, <1>4, <1>5, BrTypesStep

LEMMA BrLoadAnswers ==
  ASSUME BreakerInd, LoadAnswered \/ LoadFails
  PROVE  BreakerInd'
  <1>1. UNCHANGED <<circuit, calls, breakerNow, burst, overwritten>>
    BY DEF LoadAnswered, LoadFails
  <1>2. loading # NotLoading BY DEF LoadAnswered, LoadFails, NotLoading
  <1>3. kept' = kept /\ saves' = saves BY DEF LoadAnswered, LoadFails
  <1>4. Sound(loading'.data)
    BY BrDefaults DEF LoadAnswered, LoadFails, BreakerInd, BreakerTypes
  <1> QED BY <1>1, <1>2, <1>3, <1>4, BrOutside DEF BreakerInd, BreakerTypes

LEMMA BrRequestSteps ==
  ASSUME BreakerInd, NEW s \in saves, Delivered(s) \/ Lost(s) \/ Resent(s)
  PROVE  BreakerInd'
  <1>0. Request(s) /\ breakerNow \in Nat /\ Sound(NoCircuit) /\ Sound(circuit)
    BY BrDefaults DEF BreakerInd, BreakerTypes
  <1>1. UNCHANGED <<circuit, calls, breakerNow, burst, overwritten>> /\ loading' = loading
    BY DEF Delivered, Lost, Resent
  <1>2. Sound(kept') BY <1>0 DEF Delivered, Lost, Resent, Request, BreakerInd, BreakerTypes
  <1>3. Request([s EXCEPT !.waiting = TRUE, !.body = NoCircuit]) BY <1>0, BrRequestEdits
  <1>4. PICK b : b = IF s.live THEN circuit ELSE s.obj OBVIOUS
  <1>5. Sound(b) BY <1>0, <1>4 DEF Request
  <1>6. Request([s EXCEPT !.waiting = FALSE, !.left = s.left - 1, !.body = b])
    BY <1>0, <1>5, BrRequestEdits
  <1>7. ASSUME NEW r \in saves' PROVE Request(r)
    <2>1. \/ r \in saves
          \/ r = [s EXCEPT !.waiting = TRUE, !.body = NoCircuit]
          \/ r = [s EXCEPT !.waiting = FALSE, !.left = s.left - 1, !.body = b]
      BY <1>4, <1>7 DEF Delivered, Lost, Resent
    <2> QED BY <2>1, <1>3, <1>6 DEF BreakerInd, BreakerTypes
  <1> QED BY <1>0, <1>1, <1>2, <1>7, BrOutside DEF BreakerInd, BreakerTypes

LEMMA BrLoadDone ==
  ASSUME BreakerInd, LoadDone
  PROVE  BreakerInd'
  <1>1. UNCHANGED <<kept, calls, breakerNow, burst>> /\ loading' = NotLoading
        /\ loading # NotLoading
    BY DEF LoadDone, NotLoading
  <1>2. Sound(NoCircuit) /\ breakerNow \in Nat
    BY BrDefaults DEF BreakerInd, BreakerTypes
  <1>3. CASE loading.data = NoCircuit
    <2>1. UNCHANGED <<circuit, saves, overwritten>> BY <1>3 DEF LoadDone
    <2> QED BY <1>1, <1>2, <2>1, BrOutside DEF BreakerInd, BreakerTypes, NotLoading
  <1>4. CASE loading.data # NoCircuit
    <2>1. circuit' = loading.data /\ saves' = Detached /\ overwritten' = TRUE
      BY <1>4 DEF LoadDone
    <2>2. PICK c : c = loading.data OBVIOUS
    <2>3. Sound(c) /\ c # NoCircuit BY <2>2, <1>4 DEF BreakerInd, BreakerTypes
    <2>4. /\ calls \in 0..MaxCallers /\ burst \in Nat /\ MaxCallers \in Nat
          /\ Sound(circuit)
      BY BreakerAssumption DEF BreakerInd, BreakerTypes
    <2>5. burst <= OneRound
      <3>1. Within(0) BY <1>1 DEF BreakerInd, Rounds, Pending
      <3>2. /\ circuit.failures \in Nat
            /\ circuit.state \in {"none", "CLOSED", "OPEN", "HALF_OPEN"}
            /\ circuit.state = "CLOSED" => circuit.failures < FailureThreshold
        BY <2>4, BreakerAssumption DEF Sound, Coherent, Circuits
      <3>3. OneRound \in Nat /\ calls <= OneRound BY BrOneRound, <2>4
      <3>4. circuit.state = "CLOSED" => circuit.failures + calls <= OneRound
        BY <3>2, <2>4, BrOneRound
      <3> QED BY <3>1, <3>2, <3>3, <3>4, <2>4 DEF Within, Covers
    <2>6. Within(OneRound)'
      <3>1. c.failures \in Nat /\ OneRound \in Nat /\ calls \in Nat
        BY <2>3, <2>4, BreakerAssumption, BrOneRound DEF Sound, Coherent, Circuits
      <3>2. /\ burst <= OneRound + c.failures + calls
            /\ burst <= OneRound + calls /\ burst <= OneRound + OneRound
        BY <3>1, <2>4, <2>5
      <3> QED BY <3>2, <2>5, <2>1, <2>2, <1>1 DEF Within, Covers
    <2>7. ~Pending' /\ overwritten' BY <2>1, <2>2, <2>3, <1>1 DEF Pending
    <2>8. Rounds' BY <2>6, <2>7 DEF Rounds
    <2>9. Sound(circuit)' /\ Sound(kept)' /\ Sound(loading.data)'
      BY <2>1, <2>2, <2>3, <1>1, <1>2
      DEF Sound, Coherent, BreakerInd, BreakerTypes, NotLoading
    <2>10. \A s \in saves' : Request(s) BY <2>1, BrDetached DEF BreakerInd
    <2>11. calls' \in 0..MaxCallers /\ burst' \in Nat /\ breakerNow' \in Nat
           /\ breakerNow' >= breakerNow
      BY <1>1, <1>2, <2>4
    <2> QED BY <2>8, <2>9, <2>10, <2>11, BrTypesStep DEF BreakerInd
  <1> QED BY <1>3, <1>4

LEMMA BrReset ==
  ASSUME BreakerInd, Reset \/ Restart
  PROVE  BreakerInd'
  <1>1. /\ circuit' = NoCircuit /\ kept' = kept /\ breakerNow' = breakerNow /\ burst' = 0
        /\ loading' \in {loading, NotLoading} /\ calls' \in {calls, 0}
    BY DEF Reset, Restart
  <1>2. /\ Sound(NoCircuit) /\ breakerNow \in Nat /\ Sound(kept) /\ Sound(loading.data)
        /\ calls \in 0..MaxCallers /\ MaxCallers \in Nat
    BY BrDefaults, BreakerAssumption DEF BreakerInd, BreakerTypes
  <1>3. ASSUME NEW r \in saves' PROVE Request(r)
    <2>1. CASE Reset
      <3>1. r \in Detached \/ r = Delete(FreshId) BY <1>3, <2>1 DEF Reset
      <3> QED BY <3>1, <1>2, BrDetached, BrNewRequest DEF BreakerInd
    <2>2. CASE Restart
      <3>1. PICK s \in saves : r = [s EXCEPT !.left = 0, !.live = FALSE]
        BY <1>3, <2>2 DEF Restart
      <3>2. Request(s) BY DEF BreakerInd, BreakerTypes
      <3> QED BY <3>1, <3>2, <1>2, BrRequestEdits
    <2> QED BY <2>1, <2>2
  <1>4. Sound(circuit)' /\ Sound(kept)' /\ Sound(loading.data)'
    BY <1>1, <1>2 DEF Sound, Coherent, NotLoading
  <1>5. calls' \in 0..MaxCallers /\ burst' \in Nat /\ breakerNow' \in Nat
        /\ breakerNow' >= breakerNow
    BY <1>1, <1>2
  <1> QED BY <1>1, <1>3, <1>4, <1>5, BrTypesStep, BrRoundsEnd DEF BreakerInd

LEMMA BrTick ==
  ASSUME BreakerInd, BreakerTick
  PROVE  BreakerInd'
  <1>1. UNCHANGED <<circuit, kept, loading, saves, calls>> /\ breakerNow' = breakerNow + 1
        /\ burst' = 0
    BY DEF BreakerTick
  <1>2. breakerNow \in Nat /\ calls \in 0..MaxCallers BY DEF BreakerInd, BreakerTypes
  <1>3. breakerNow' \in Nat /\ breakerNow' >= breakerNow /\ calls' \in 0..MaxCallers
        /\ burst' \in Nat
    BY <1>1, <1>2
  <1>4. Sound(circuit)' /\ Sound(kept)' /\ Sound(loading.data)'
    <2>1. PICK c, k, d : c = circuit /\ k = kept /\ d = loading.data OBVIOUS
    <2>2. Sound(c)' /\ Sound(k)' /\ Sound(d)'
      BY <2>1, <1>2, <1>3, BrSoundStays DEF BreakerInd, BreakerTypes
    <2> QED BY <2>1, <2>2, <1>1 DEF Sound, Coherent
  <1>5. \A s \in saves' : Request(s) BY <1>1 DEF BreakerInd, BreakerTypes
  <1> QED BY <1>1, <1>3, <1>4, <1>5, BrTypesStep, BrRoundsEnd DEF BreakerInd

LEMMA BreakerStep ==
  ASSUME BreakerInd, [BreakerNext]_breakerVars, RecoveryTime > 0
  PROVE  BreakerInd'
  <1>1. CASE UNCHANGED breakerVars
    BY <1>1, BrOutside DEF breakerVars, BreakerInd, BreakerTypes
  <1> QED BY <1>1, BrAdmit, BrRecordsFailure, BrCallSucceeds, BrCallUnavailable, BrLoadAnswers,
             BrLoadDone, BrRequestSteps, BrReset, BrTick
          DEF BreakerNext

LEMMA BreakerStart ==
  ASSUME BreakerInit
  PROVE  BreakerInd
  <1>1. breakerNow = 0 /\ calls = 0 /\ burst = 0 /\ saves = {} /\ circuit = NoCircuit
          /\ kept = NoCircuit /\ loading.data = NoCircuit
      BY DEF BreakerInit, NotLoading
  <1>2. Sound(NoCircuit) BY <1>1, BrDefaults
  <1>3. BreakerTypes BY <1>1, <1>2, BreakerAssumption DEF BreakerTypes
  <1>4. Within(0) /\ Within(OneRound) BY <1>1, BrOneRound DEF Within, Covers, NoCircuit
  <1> QED BY <1>3, <1>4 DEF BreakerInd, Rounds

\* The circuit breaker bounds what reaches a failing provider: between two
\* successes, ticks, resets or restarts at most FailureThreshold - 1 calls and
\* the ones under way, and once as many again when the answer of the load
\* replaces the circuit.  A recovery time of nothing would bound nothing.
THEOREM BreakerCorrect ==
  ASSUME RecoveryTime > 0
  PROVE  BreakerSpec => []BreakerInvariant
  <1>1. BreakerInit => BreakerInd BY BreakerStart
  <1>2. BreakerInd /\ [BreakerNext]_breakerVars => BreakerInd' BY BreakerStep
  <1>3. BreakerInd => BreakerInvariant
    <2> SUFFICES ASSUME BreakerInd PROVE BreakerInvariant OBVIOUS
    <2>1. BreakerTypeOK BY DEF BreakerInd, BreakerTypes, Sound, Request, BreakerTypeOK
    <2>2. /\ calls \in 0..MaxCallers /\ burst \in Nat /\ MaxCallers \in Nat
          /\ circuit.failures \in Nat
          /\ circuit.state \in {"none", "CLOSED", "OPEN", "HALF_OPEN"}
          /\ circuit.state = "CLOSED" => circuit.failures < FailureThreshold
      BY BreakerAssumption DEF BreakerInd, BreakerTypes, Sound, Coherent, Circuits
    <2>3. OneRound \in Nat /\ calls <= OneRound BY BrOneRound, <2>2
    <2>4. circuit.state = "CLOSED" => circuit.failures + calls <= OneRound
      BY <2>2, BrOneRound
    <2>5. ASSUME NEW k \in Nat, Within(k) PROVE burst <= k + OneRound
      BY <2>2, <2>3, <2>4, <2>5 DEF Within, Covers
    <2>6. burst <= OneRound + OneRound BY <2>3, <2>5 DEF BreakerInd, Rounds
    <2>7. ~overwritten => burst <= OneRound BY <2>3, <2>5 DEF BreakerInd, Rounds
    <2>8. FailuresAreCapped
      <3>1. PICK m \in Nat : m = OneRound BY <2>3
      <3>2. m = FailureThreshold - 1 + MaxCallers BY <3>1 DEF OneRound
      <3>3. CASE overwritten BY <2>6, <3>1, <3>2, <3>3 DEF FailuresAreCapped
      <3>4. CASE ~overwritten BY <2>7, <3>1, <3>2, <3>4 DEF FailuresAreCapped
      <3> QED BY <3>3, <3>4
    <2> QED BY <2>1, <2>8 DEF BreakerInvariant
  <1> QED BY <1>1, <1>2, <1>3, PTL DEF BreakerSpec

\* An open circuit is closed by probes alone (checkCircuit, recordSuccess), but
\* for the end of a load.
THEOREM OpenIsLeftCorrect ==
  ASSUME RecoveryTime > 0
  PROVE  BreakerSpec => OpenIsLeftByProbe
  <1> DEFINE ClosedByProbe == circuit.state = "OPEN" /\ circuit'.state = "CLOSED"
                       => loading.at = "answered" /\ loading' = NotLoading
  <1>1. ASSUME BreakerInd, [BreakerNext]_breakerVars, circuit.state = "OPEN",
               circuit'.state = "CLOSED"
        PROVE  loading.at = "answered" /\ loading' = NotLoading
    <2>1. /\ circuit # NoCircuit /\ Present = circuit /\ Sound(circuit) /\ breakerNow \in Nat
      BY <1>1, BrPresent DEF BreakerInd, BreakerTypes, NoCircuit
    <2>2. Failed(circuit).state = "OPEN" /\ Succeeded(circuit).state = "OPEN"
          /\ HalfOpen(circuit).state = "HALF_OPEN"
      <3>1. ~Opens(circuit) BY <1>1 DEF Opens
      <3> QED BY <1>1, <2>1, <3>1, BrFailed, BrSucceeded, BrHalfOpen
    <2>3. ~Admit /\ ~Refuse /\ ~CallFails /\ ~CallSucceeds
      BY <1>1, <2>1, <2>2 DEF Admit, Refuse, CallFails, CallSucceeds
    <2>4. circuit' # circuit /\ circuit'.state # "none" BY <1>1
    <2>5. ~CallUnavailable /\ ~LoadAnswered /\ ~LoadFails /\ ~BreakerTick
      BY <2>4 DEF CallUnavailable, LoadAnswered, LoadFails, BreakerTick
    <2>6. ASSUME NEW s \in saves PROVE ~Delivered(s) /\ ~Lost(s) /\ ~Resent(s)
      BY <2>4 DEF Delivered, Lost, Resent
    <2>7. ~Reset /\ ~Restart
      <3>1. Reset \/ Restart => circuit' = NoCircuit BY DEF Reset, Restart
      <3>2. NoCircuit.state = "none" BY DEF NoCircuit
      <3> QED BY <2>4, <3>1, <3>2
    <2>8. LoadDone BY <1>1, <2>3, <2>4, <2>5, <2>6, <2>7 DEF BreakerNext, breakerVars
    <2> QED BY <2>8 DEF LoadDone
  <1>2. BreakerInd /\ [BreakerNext]_breakerVars => [ClosedByProbe]_breakerVars BY <1>1
  <1>3. BreakerInit => BreakerInd BY BreakerStart
  <1>4. BreakerInd /\ [BreakerNext]_breakerVars => BreakerInd' BY BreakerStep
  <1> QED BY <1>2, <1>3, <1>4, PTL DEF BreakerSpec, OpenIsLeftByProbe

-----------------------------------------------------------------------------
\* ToolExecution
(***************************************************************************)
(* Proofs about ToolExecution, for every set of calls, hashes and results, *)
(* every limit on depth and chain, and every number of crashes.            *)
(***************************************************************************)

Invocations == [at : {"idle", "policy", "lookup", "running", "store"},
                hash : Hashes \cup {NoHash}, result : Results \cup {NoHash}]
ToolRecords == [hash : Hashes, result : Results]

ToolTypes ==
  /\ invocation \in [ToolCalls -> Invocations]
  /\ \A c \in ToolCalls :
       /\ invocation[c].at \in {"lookup", "store"} => invocation[c].hash \in Hashes
       /\ invocation[c].at = "store" => invocation[c].result \in Results
  /\ chain \in 0..(MaxChain + 1) /\ orphans \in Nat
  /\ records \in Seq(ToolRecords \cup {Torn})
  /\ served \in [Hashes -> Results \cup {NoHash}]

\* What the depth counts, and the guard on it.
DepthKnown ==
  /\ refusedCalls \in Nat
  /\ depth = Cardinality(Active) + refusedCalls
  /\ Cardinality(Active) <= MaxDepth

\* Line j is the one a search for h stops at.
StopsAt(q, j, h) ==
  /\ j \in 1..Len(q) /\ q[j] # Torn /\ q[j].hash = h
  /\ \A k \in 1..(j - 1) : q[k] # Torn /\ q[k].hash # h

HasTorn(q) == \E i \in 1..Len(q) : q[i] = Torn

\* What was served for h is what a search still finds, or the file is torn:
\* then no record that is yet to come can be found.
ServedIs(q, s, h) ==
  /\ \A j : StopsAt(q, j, h) => s = NoHash \/ s = q[j].result
  /\ s # NoHash => HasTorn(q) \/ \E j : StopsAt(q, j, h)

ServedKnown == /\ cut \in BOOLEAN /\ (cut => Len(records) > 0)
               /\ \A h \in Hashes : ServedIs(records, served[h], h)

ToolInd == ToolTypes /\ DepthKnown /\ ServedKnown

-----------------------------------------------------------------------------
(* The replay file. *)

LEMMA ToolAppendServed ==
  ASSUME NEW q \in Seq(ToolRecords \cup {Torn}), NEW e \in ToolRecords \cup {Torn}, NEW s, NEW h,
         ServedIs(q, s, h)
  PROVE  ServedIs(Append(q, e), s, h)
<1>1. PICK n \in Nat : n = Len(q)
  OBVIOUS
<1>2. PICK t : t = Append(q, e)
  OBVIOUS
<1>3. Len(t) = n + 1 /\ t[n + 1] = e /\ \A i \in 1..n : t[i] = q[i]
  BY <1>1, <1>2
<1>4. \A j \in 1..n : StopsAt(t, j, h) <=> StopsAt(q, j, h)
  <2>1. ASSUME NEW j \in 1..n
        PROVE  StopsAt(t, j, h) <=> StopsAt(q, j, h)
    <3>1. \A k \in 1..(j - 1) : k \in 1..n
      BY <1>1
    <3>2. j \in 1..Len(t) /\ j \in 1..Len(q) /\ t[j] = q[j]
      BY <1>1, <1>3
    <3> QED
      BY <1>3, <3>1, <3>2 DEF StopsAt
  <2> QED
    BY <2>1
<1>5. ASSUME StopsAt(t, n + 1, h)
      PROVE  s = NoHash
  <2>1. \A k \in 1..n : t[k] # Torn /\ t[k].hash # h
    BY <1>1, <1>5 DEF StopsAt
  <2>2. ~ HasTorn(q)
    BY <1>1, <1>3, <2>1 DEF HasTorn
  <2>3. \A j : ~ StopsAt(q, j, h)
    BY <1>1, <1>3, <2>1 DEF StopsAt
  <2> QED
    BY <2>2, <2>3 DEF ServedIs
<1>6. ASSUME NEW j, StopsAt(t, j, h)
      PROVE  s = NoHash \/ s = t[j].result
  <2>1. j \in 1..n \/ j = n + 1
    BY <1>1, <1>3, <1>6 DEF StopsAt
  <2>2. CASE j \in 1..n
    BY <1>3, <1>4, <1>6, <2>2 DEF ServedIs
  <2>3. CASE j = n + 1
    BY <1>5, <1>6, <2>3
  <2> QED
    BY <2>1, <2>2, <2>3
<1>7. HasTorn(q) => HasTorn(t)
  <2>1. \A i \in 1..n : i \in 1..Len(t)
    BY <1>3
  <2> QED
    BY <1>1, <1>3, <2>1 DEF HasTorn
<1>8. \A j : StopsAt(q, j, h) => StopsAt(t, j, h)
  BY <1>1, <1>4 DEF StopsAt
<1>9. s # NoHash => HasTorn(t) \/ \E j : StopsAt(t, j, h)
  BY <1>7, <1>8 DEF ServedIs
<1> QED
  BY <1>2, <1>6, <1>9 DEF ServedIs

LEMMA ToolTearServed ==
  ASSUME NEW q \in Seq(ToolRecords \cup {Torn}), Len(q) > 0, NEW s, NEW h, ServedIs(q, s, h)
  PROVE  ServedIs([q EXCEPT ![Len(q)] = Torn], s, h)
<1>1. PICK n \in Nat : n = Len(q) /\ n > 0
  OBVIOUS
<1>2. PICK t : t = [q EXCEPT ![n] = Torn]
  OBVIOUS
<1>3. Len(t) = n /\ t[n] = Torn /\ \A i \in 1..n : i # n => t[i] = q[i]
  BY <1>1, <1>2
<1>4. ASSUME NEW j, StopsAt(t, j, h)
      PROVE  s = NoHash \/ s = t[j].result
  <2>1. j \in 1..n /\ j # n
    BY <1>3, <1>4 DEF StopsAt
  <2>2. \A k \in 1..(j - 1) : k \in 1..n /\ k # n
    BY <1>1, <2>1
  <2>3. StopsAt(q, j, h)
    BY <1>1, <1>3, <1>4, <2>1, <2>2 DEF StopsAt
  <2> QED
    BY <1>3, <2>1, <2>3 DEF ServedIs
<1>5. HasTorn(t)
  <2>1. n \in 1..Len(t)
    BY <1>1, <1>3
  <2> QED
    BY <1>3, <2>1 DEF HasTorn
<1> QED
  BY <1>1, <1>2, <1>4, <1>5 DEF ServedIs

\* A write, whole or not.
LEMMA ToolWriteKeeps ==
  ASSUME ToolTypes, ServedKnown, NEW e \in ToolRecords \cup {Torn}, records' = WithRecord(e)
  PROVE  /\ records' \in Seq(ToolRecords \cup {Torn}) /\ Len(records') > 0
         /\ \A h \in Hashes : ServedIs(records', served[h], h)
<1>1. PICK q \in Seq(ToolRecords \cup {Torn}) : q = records
  BY DEF ToolTypes
<1>2. \A h \in Hashes : ServedIs(q, served[h], h)
  BY <1>1 DEF ServedKnown
<1>3. CASE cut
  <2>1. records' = [q EXCEPT ![Len(q)] = Torn] /\ Len(q) > 0
    BY <1>1, <1>3 DEF WithRecord, ServedKnown
  <2>2. \A h \in Hashes : ServedIs([q EXCEPT ![Len(q)] = Torn], served[h], h)
    BY <1>2, <2>1, ToolTearServed
  <2>3. /\ [q EXCEPT ![Len(q)] = Torn] \in Seq(ToolRecords \cup {Torn})
        /\ Len([q EXCEPT ![Len(q)] = Torn]) = Len(q)
    BY <2>1
  <2> QED
    BY <2>1, <2>2, <2>3
<1>4. CASE ~ cut
  <2>1. records' = Append(q, e)
    BY <1>1, <1>4 DEF WithRecord
  <2>2. \A h \in Hashes : ServedIs(Append(q, e), served[h], h)
    BY <1>2, ToolAppendServed
  <2>3. Append(q, e) \in Seq(ToolRecords \cup {Torn}) /\ Len(Append(q, e)) = Len(q) + 1
    OBVIOUS
  <2> QED
    BY <2>1, <2>2, <2>3
<1> QED
  BY <1>3, <1>4

-----------------------------------------------------------------------------
(* The calls. *)

\* One call's record is replaced by a proper one.
LEMMA ToolInvocationStep ==
  ASSUME ToolTypes, NEW c \in ToolCalls, NEW r \in Invocations,
         r.at \in {"lookup", "store"} => r.hash \in Hashes,
         r.at = "store" => r.result \in Results,
         invocation' = [invocation EXCEPT ![c] = r]
  PROVE  /\ invocation' \in [ToolCalls -> Invocations]
         /\ \A d \in ToolCalls :
              /\ invocation'[d].at \in {"lookup", "store"} => invocation'[d].hash \in Hashes
              /\ invocation'[d].at = "store" => invocation'[d].result \in Results
         /\ Active' = IF r.at = "idle" THEN Active \ {c} ELSE Active \cup {c}
<1>1. invocation \in [ToolCalls -> Invocations]
  BY DEF ToolTypes
<1>2. /\ invocation' \in [ToolCalls -> Invocations] /\ invocation'[c] = r
      /\ \A d \in ToolCalls : d # c => invocation'[d] = invocation[d]
  BY <1>1
<1>3. \A d \in ToolCalls :
              /\ invocation'[d].at \in {"lookup", "store"} => invocation'[d].hash \in Hashes
              /\ invocation'[d].at = "store" => invocation'[d].result \in Results
  BY <1>2 DEF ToolTypes
<1>4. \A d \in ToolCalls :
        (d \in Active') <=> (d \in (IF r.at = "idle" THEN Active \ {c} ELSE Active \cup {c}))
  BY <1>2 DEF Active
<1>5. Active' \subseteq ToolCalls /\ Active \subseteq ToolCalls
  BY DEF Active
<1> QED
  BY <1>2, <1>3, <1>4, <1>5

LEMMA ToolActiveFinite == IsFiniteSet(Active) /\ Cardinality(Active) \in Nat
<1>1. Active \subseteq ToolCalls
  BY DEF Active
<1> QED
  BY <1>1, ToolAssumption, FS_Subset, FS_CardinalityType

LEMMA ToolUnused == Unused \in Invocations /\ Unused.at = "idle"
  BY DEF Unused, Invocations

\* The finally block: one call less, and the depth says so.
LEMMA ToolLeaves ==
  ASSUME ToolTypes, DepthKnown, NEW c \in ToolCalls, invocation[c].at # "idle", Leaves(c),
         refusedCalls' = refusedCalls
  PROVE  /\ invocation' \in [ToolCalls -> Invocations]
         /\ \A d \in ToolCalls :
              /\ invocation'[d].at \in {"lookup", "store"} => invocation'[d].hash \in Hashes
              /\ invocation'[d].at = "store" => invocation'[d].result \in Results
         /\ DepthKnown'
<1>1. invocation' = [invocation EXCEPT ![c] = Unused]
  BY DEF Leaves
<1>2. /\ invocation' \in [ToolCalls -> Invocations]
      /\ \A d \in ToolCalls :
              /\ invocation'[d].at \in {"lookup", "store"} => invocation'[d].hash \in Hashes
              /\ invocation'[d].at = "store" => invocation'[d].result \in Results
      /\ Active' = Active \ {c}
  BY <1>1, ToolUnused, ToolInvocationStep
<1>3. c \in Active
  BY DEF Active
<1>4. Cardinality(Active') = Cardinality(Active) - 1
  BY <1>2, <1>3, ToolActiveFinite, FS_RemoveElement
<1>5. Cardinality(Active) \in Nat /\ Cardinality(Active) > 0
  BY <1>3, ToolActiveFinite, FS_EmptySet
<1>6. depth' = Cardinality(Active') + refusedCalls'
  BY <1>4, <1>5 DEF DepthKnown, Leaves
<1> QED
  BY <1>2, <1>4, <1>5, <1>6, ToolAssumption DEF DepthKnown

\* A call goes on, inside the guard.
LEMMA ToolGoesOn ==
  ASSUME ToolTypes, DepthKnown, NEW c \in ToolCalls, invocation[c].at # "idle",
         NEW r \in Invocations, r.at # "idle",
         r.at \in {"lookup", "store"} => r.hash \in Hashes,
         r.at = "store" => r.result \in Results,
         invocation' = [invocation EXCEPT ![c] = r],
         refusedCalls' = refusedCalls, depth' = depth
  PROVE  /\ invocation' \in [ToolCalls -> Invocations]
         /\ \A d \in ToolCalls :
              /\ invocation'[d].at \in {"lookup", "store"} => invocation'[d].hash \in Hashes
              /\ invocation'[d].at = "store" => invocation'[d].result \in Results
         /\ DepthKnown'
<1>1. c \in Active
  BY DEF Active
<1>2. Active' = Active \cup {c}
  BY ToolInvocationStep
<1>3. Active' = Active
  BY <1>1, <1>2
<1>4. DepthKnown'
  BY <1>3 DEF DepthKnown
<1> QED
  BY <1>4, ToolInvocationStep

\* A step on one call, given what it does to the calls, the file and the answers.
LEMMA ToolIndStep ==
  ASSUME ToolInd,
         invocation' \in [ToolCalls -> Invocations],
         \A d \in ToolCalls :
              /\ invocation'[d].at \in {"lookup", "store"} => invocation'[d].hash \in Hashes
              /\ invocation'[d].at = "store" => invocation'[d].result \in Results,
         DepthKnown', chain' \in 0..(MaxChain + 1), orphans' \in Nat,
         UNCHANGED records, UNCHANGED served, UNCHANGED cut
  PROVE  ToolInd'
<1>1. ToolTypes'
  BY DEF ToolInd, ToolTypes
<1>2. ServedKnown'
  BY DEF ToolInd, ServedKnown
<1> QED
  BY <1>1, <1>2 DEF ToolInd

-----------------------------------------------------------------------------
LEMMA ToolInitInd == ToolInit => ToolInd
<1> SUFFICES ASSUME ToolInit
             PROVE  ToolInd
  OBVIOUS
<1>1. \A c \in ToolCalls : invocation[c] = Unused
  BY DEF ToolInit
<1>2. invocation \in [ToolCalls -> Invocations]
  BY ToolUnused DEF ToolInit
<1>3. ToolTypes
  BY <1>1, <1>2, ToolUnused, ToolAssumption DEF ToolInit, ToolTypes
<1>4. Active = {}
  BY <1>1, ToolUnused DEF Active
<1>5. DepthKnown
  BY <1>4, FS_EmptySet, ToolAssumption DEF ToolInit, DepthKnown
<1>6. Len(records) = 0 /\ \A h \in Hashes : served[h] = NoHash
  BY DEF ToolInit
<1>7. \A h \in Hashes : ServedIs(records, served[h], h)
  BY <1>6 DEF ServedIs
<1>8. cut \in BOOLEAN /\ ~ cut
  BY DEF ToolInit
<1>9. ServedKnown
  BY <1>7, <1>8 DEF ServedKnown
<1> QED
  BY <1>3, <1>5, <1>9 DEF ToolInd

LEMMA ToolOf ==
  ASSUME ToolInd
  PROVE  /\ ToolTypes /\ DepthKnown /\ ServedKnown
         /\ chain \in 0..(MaxChain + 1) /\ orphans \in Nat
         /\ depth \in Nat /\ MaxDepth \in Nat /\ MaxChain \in Nat
  BY ToolActiveFinite, ToolAssumption DEF ToolInd, ToolTypes, DepthKnown

LEMMA BeginCallInd ==
  ASSUME ToolInd, NEW c \in ToolCalls, NEW h \in Hashes \cup {NoHash}, BeginCall(c, h)
  PROVE  ToolInd'
<1>1. /\ invocation[c] = Unused
      /\ depth + 1 <= MaxDepth /\ chain + 1 <= MaxChain
      /\ depth' = depth + 1 /\ chain' = chain + 1
      /\ UNCHANGED <<orphans, records, refusedCalls, served>>
  BY DEF BeginCall
<1>2. UNCHANGED cut
  BY DEF BeginCall
<1>3. PICK r : r = [Unused EXCEPT !.at = "policy", !.hash = h]
  OBVIOUS
<1>4. invocation' = [invocation EXCEPT ![c] = r]
  BY <1>1, <1>3 DEF BeginCall
<1>5. r \in Invocations /\ r.at = "policy"
  BY <1>3 DEF Unused, Invocations
<1>6. /\ invocation' \in [ToolCalls -> Invocations]
      /\ \A d \in ToolCalls :
              /\ invocation'[d].at \in {"lookup", "store"} => invocation'[d].hash \in Hashes
              /\ invocation'[d].at = "store" => invocation'[d].result \in Results
      /\ Active' = Active \cup {c}
  BY <1>4, <1>5, ToolOf, ToolInvocationStep
<1>7. c \notin Active
  BY <1>1, ToolUnused DEF Active
<1>8. Cardinality(Active') = Cardinality(Active) + 1
  BY <1>6, <1>7, ToolActiveFinite, FS_AddElement
<1>9. DepthKnown'
  BY <1>1, <1>8, ToolOf, ToolActiveFinite DEF DepthKnown
<1> QED
  BY <1>1, <1>2, <1>6, <1>9, ToolOf, ToolIndStep

\* A refused call stays counted.
LEMMA RefuseCallInd ==
  ASSUME ToolInd, RefuseCall
  PROVE  ToolInd'
<1>1. /\ depth' = depth + 1 /\ refusedCalls' = refusedCalls + 1
      /\ chain' = (IF chain > MaxChain THEN chain ELSE chain + 1)
      /\ UNCHANGED <<invocation, orphans, records, served>>
  BY DEF RefuseCall
<1>2. UNCHANGED cut
  BY DEF RefuseCall
<1>3. Active' = Active
  BY <1>1 DEF Active
<1>4. DepthKnown'
  BY <1>1, <1>3, ToolOf, ToolActiveFinite DEF DepthKnown
<1>5. chain' \in 0..(MaxChain + 1)
  BY <1>1, ToolOf
<1>6. /\ invocation' \in [ToolCalls -> Invocations]
      /\ \A d \in ToolCalls :
              /\ invocation'[d].at \in {"lookup", "store"} => invocation'[d].hash \in Hashes
              /\ invocation'[d].at = "store" => invocation'[d].result \in Results
  BY <1>1, ToolOf DEF ToolTypes
<1> QED
  BY <1>1, <1>2, <1>4, <1>5, <1>6, ToolOf, ToolIndStep

\* The calls that end without touching the file.
LEMMA EndsInd ==
  ASSUME ToolInd, NEW c \in ToolCalls,
         \/ Deny(c) \/ HandlerThrows(c) \/ TimesOut(c)
         \/ invocation[c].hash = NoHash /\ \E r \in Results : HandlerReturns(c, r)
  PROVE  ToolInd'
<1>1. /\ invocation[c].at # "idle" /\ Leaves(c)
      /\ UNCHANGED <<chain, records, refusedCalls, served>>
      /\ orphans' = orphans \/ orphans' = orphans + 1
  BY DEF Deny, HandlerThrows, TimesOut, HandlerReturns
<1>2. UNCHANGED cut
  BY DEF Deny, HandlerThrows, TimesOut, HandlerReturns
<1>3. /\ invocation' \in [ToolCalls -> Invocations]
      /\ \A d \in ToolCalls :
              /\ invocation'[d].at \in {"lookup", "store"} => invocation'[d].hash \in Hashes
              /\ invocation'[d].at = "store" => invocation'[d].result \in Results
      /\ DepthKnown'
  BY <1>1, ToolOf, ToolLeaves
<1> QED
  BY <1>1, <1>2, <1>3, ToolOf, ToolIndStep

\* The calls that go on to their next phase.
LEMMA GoesOnInd ==
  ASSUME ToolInd, NEW c \in ToolCalls,
         \/ Allow(c) \/ Miss(c)
         \/ invocation[c].hash # NoHash /\ \E r \in Results : HandlerReturns(c, r)
  PROVE  ToolInd'
<1>1. /\ invocation[c].at # "idle"
      /\ UNCHANGED <<depth, chain, orphans, records, refusedCalls, served>>
  BY DEF Allow, Miss, HandlerReturns
<1>2. UNCHANGED cut
  BY DEF Allow, Miss, HandlerReturns
<1>3. PICK q \in Invocations : q = invocation[c]
  BY ToolOf DEF ToolTypes
<1>4. PICK r \in Invocations :
        /\ invocation' = [invocation EXCEPT ![c] = r] /\ r.at # "idle"
        /\ r.at \in {"lookup", "store"} => r.hash \in Hashes
        /\ r.at = "store" => r.result \in Results
  <2>1. CASE Allow(c)
    <3>1. PICK p : p = IF q.hash = NoHash THEN "running" ELSE "lookup"
      OBVIOUS
    <3>2. PICK r : r = [q EXCEPT !.at = p]
      OBVIOUS
    <3>3. r \in Invocations /\ r.at = p /\ r.hash = q.hash
      BY <3>1, <3>2 DEF Invocations
    <3>4. invocation' = [invocation EXCEPT ![c] = r]
      BY <1>3, <2>1, <3>1, <3>2 DEF Allow, Step
    <3>5. p = "lookup" => q.hash \in Hashes
      BY <3>1 DEF Invocations
    <3> QED
      BY <3>1, <3>3, <3>4, <3>5
  <2>2. CASE Miss(c)
    <3>1. PICK r : r = [q EXCEPT !.at = "running"]
      OBVIOUS
    <3>2. r \in Invocations /\ r.at = "running"
      BY <3>1 DEF Invocations
    <3>3. invocation' = [invocation EXCEPT ![c] = r]
      BY <1>3, <2>2, <3>1 DEF Miss, Step
    <3> QED
      BY <3>2, <3>3
  <2>3. ASSUME NEW v \in Results, HandlerReturns(c, v), q.hash # NoHash
        PROVE  \E r \in Invocations :
                 /\ invocation' = [invocation EXCEPT ![c] = r] /\ r.at # "idle"
                 /\ r.at \in {"lookup", "store"} => r.hash \in Hashes
                 /\ r.at = "store" => r.result \in Results
    <3>1. PICK s : s = [q EXCEPT !.at = "store"]
      OBVIOUS
    <3>2. s \in Invocations /\ s.at = "store" /\ s.hash = q.hash
      BY <3>1 DEF Invocations
    <3>3. PICK r : r = [s EXCEPT !.result = v]
      OBVIOUS
    <3>4. r \in Invocations /\ r.at = "store" /\ r.hash = q.hash /\ r.result = v
      BY <3>2, <3>3 DEF Invocations
    <3>5. r = [q EXCEPT !.at = "store", !.result = v]
      BY <3>1, <3>3
    <3>6. invocation' = [invocation EXCEPT ![c] = r]
      BY <1>3, <2>3, <3>5 DEF HandlerReturns
    <3>7. q.hash \in Hashes
      BY <2>3 DEF Invocations
    <3> QED
      BY <3>4, <3>6, <3>7
  <2> QED
    BY <1>3, <2>1, <2>2, <2>3
<1>5. /\ invocation' \in [ToolCalls -> Invocations]
      /\ \A d \in ToolCalls :
              /\ invocation'[d].at \in {"lookup", "store"} => invocation'[d].hash \in Hashes
              /\ invocation'[d].at = "store" => invocation'[d].result \in Results
      /\ DepthKnown'
  BY <1>1, <1>4, ToolOf, ToolGoesOn
<1> QED
  BY <1>1, <1>2, <1>5, ToolOf, ToolIndStep

\* An answer from the file: the first one for its hash is remembered, and the
\* search stops at the same line for the next.
LEMMA HitInd ==
  ASSUME ToolInd, NEW c \in ToolCalls, Hit(c)
  PROVE  ToolInd'
<1>1. /\ invocation[c].at = "lookup" /\ Leaves(c)
      /\ UNCHANGED <<chain, orphans, records, refusedCalls>>
  BY DEF Hit
<1>2. UNCHANGED cut
  BY DEF Hit
<1>3. PICK h \in Hashes : h = invocation[c].hash
  BY <1>1, ToolOf DEF ToolTypes
<1>4. PICK r \in Found(h) :
        served' = IF served[r.hash] = NoHash THEN [served EXCEPT ![r.hash] = r.result]
                                             ELSE served
  BY <1>3 DEF Hit
<1>5. PICK i \in 1..Len(records) : StopsAt(records, i, h) /\ records[i] = r
  BY <1>4 DEF Found, StopsAt
<1>6. r.hash = h /\ r \in ToolRecords
  BY <1>5, ToolOf DEF StopsAt, ToolTypes
<1>7. r.result \in Results
  BY <1>6 DEF ToolRecords
<1>8. /\ served \in [Hashes -> Results \cup {NoHash}]
      /\ records \in Seq(ToolRecords \cup {Torn})
  BY ToolOf DEF ToolTypes
<1>9. served' \in [Hashes -> Results \cup {NoHash}]
  BY <1>4, <1>6, <1>7, <1>8
<1>10. \A j : StopsAt(records, j, h) => j = i
  <2>1. ASSUME NEW j, StopsAt(records, j, h)
        PROVE  j = i
    <3>1. i \in 1..Len(records) /\ j \in 1..Len(records) /\ Len(records) \in Nat
      BY <1>5, <1>8, <2>1 DEF StopsAt
    <3>2. ~ (i < j)
      <4>1. i < j => i \in 1..(j - 1)
        BY <3>1
      <4> QED
        BY <1>5, <2>1, <4>1 DEF StopsAt
    <3>3. ~ (j < i)
      <4>1. j < i => j \in 1..(i - 1)
        BY <3>1
      <4> QED
        BY <1>5, <2>1, <4>1 DEF StopsAt
    <3> QED
      BY <3>1, <3>2, <3>3
  <2> QED
    BY <2>1
<1>11. ASSUME NEW k \in Hashes
       PROVE  ServedIs(records, served'[k], k)
  <2>1. ServedIs(records, served[k], k)
    BY ToolOf DEF ServedKnown
  <2>2. CASE served'[k] = served[k]
    BY <2>1, <2>2
  <2>3. CASE served'[k] # served[k]
    <3>1. k = h /\ served'[k] = r.result
      BY <1>4, <1>6, <1>8, <2>3
    <3>2. \A j : StopsAt(records, j, h) => served'[k] = records[j].result
      BY <1>5, <1>10, <3>1
    <3> QED
      BY <1>5, <3>1, <3>2 DEF ServedIs
  <2> QED
    BY <2>2, <2>3
<1>12. ServedKnown'
  BY <1>1, <1>2, <1>11, ToolOf DEF ServedKnown
<1>13. /\ invocation' \in [ToolCalls -> Invocations]
       /\ \A d \in ToolCalls :
              /\ invocation'[d].at \in {"lookup", "store"} => invocation'[d].hash \in Hashes
              /\ invocation'[d].at = "store" => invocation'[d].result \in Results
       /\ DepthKnown'
  BY <1>1, ToolOf, ToolLeaves
<1>14. ToolTypes'
  BY <1>1, <1>8, <1>9, <1>13, ToolOf DEF ToolTypes
<1> QED
  BY <1>12, <1>13, <1>14 DEF ToolInd

LEMMA ToolRecordOf ==
  ASSUME ToolInd, NEW c \in ToolCalls, invocation[c].at = "store"
  PROVE  RecordOf(c) \in ToolRecords
<1>1. invocation[c].hash \in Hashes /\ invocation[c].result \in Results
  BY ToolOf DEF ToolTypes
<1> QED
  BY <1>1 DEF RecordOf, ToolRecords

\* What any write, whole or cut off, leaves of the file.
LEMMA ToolFileKept ==
  ASSUME ToolInd, served' = served,
         \/ UNCHANGED <<records, cut>>
         \/ \E c \in ToolCalls : CutsOff(c)
         \/ \E c \in ToolCalls : /\ invocation[c].at = "store"
                                 /\ records' = WithRecord(RecordOf(c)) /\ cut' = FALSE
  PROVE  records' \in Seq(ToolRecords \cup {Torn}) /\ ServedKnown'
<1>1. CASE UNCHANGED <<records, cut>>
  <2>1. records' = records
    BY <1>1
  <2>2. cut' = cut
    BY <1>1
  <2> QED
    BY <2>1, <2>2, ToolOf DEF ToolTypes, ServedKnown
<1>2. ASSUME NEW e \in ToolRecords \cup {Torn}, records' = WithRecord(e), cut' \in BOOLEAN
      PROVE  records' \in Seq(ToolRecords \cup {Torn}) /\ ServedKnown'
  <2>1. /\ records' \in Seq(ToolRecords \cup {Torn}) /\ Len(records') > 0
        /\ \A h \in Hashes : ServedIs(records', served[h], h)
    BY <1>2, ToolOf, ToolWriteKeeps
  <2> QED
    BY <1>2, <2>1 DEF ServedKnown
<1>3. ASSUME NEW c \in ToolCalls, CutsOff(c)
      PROVE  records' \in Seq(ToolRecords \cup {Torn}) /\ ServedKnown'
  <2>1. cut' \in BOOLEAN
    BY <1>3 DEF CutsOff
  <2>2. RecordOf(c) \in ToolRecords
    BY <1>3, ToolRecordOf DEF CutsOff
  <2>3. PICK e \in {Torn, RecordOf(c)} : records' = WithRecord(e)
    BY <1>3 DEF CutsOff
  <2> QED
    BY <1>2, <2>1, <2>2, <2>3
<1>4. ASSUME NEW c \in ToolCalls, invocation[c].at = "store",
             records' = WithRecord(RecordOf(c)), cut' = FALSE
      PROVE  records' \in Seq(ToolRecords \cup {Torn}) /\ ServedKnown'
  <2>1. cut' \in BOOLEAN
    BY <1>4
  <2>2. RecordOf(c) \in ToolRecords
    BY <1>4, ToolRecordOf
  <2> QED
    BY <1>2, <1>4, <2>1, <2>2
<1> QED
  BY <1>1, <1>3, <1>4

LEMMA StoreInd ==
  ASSUME ToolInd, NEW c \in ToolCalls, Store(c) \/ StoreFails(c)
  PROVE  ToolInd'
<1>1. /\ invocation[c].at = "store" /\ Leaves(c)
      /\ UNCHANGED <<chain, orphans, refusedCalls, served>>
  BY DEF Store, StoreFails
<1>2. records' \in Seq(ToolRecords \cup {Torn}) /\ ServedKnown'
  <2>1. CASE Store(c)
    <3>1. records' = WithRecord(RecordOf(c)) /\ cut' = FALSE
      BY <2>1 DEF Store
    <3> QED
      BY <1>1, <3>1, ToolFileKept
  <2>2. CASE StoreFails(c)
    <3>1. UNCHANGED <<records, cut>> \/ CutsOff(c)
      BY <2>2 DEF StoreFails
    <3> QED
      BY <1>1, <3>1, ToolFileKept
  <2> QED
    BY <2>1, <2>2
<1>3. /\ invocation' \in [ToolCalls -> Invocations]
      /\ \A d \in ToolCalls :
              /\ invocation'[d].at \in {"lookup", "store"} => invocation'[d].hash \in Hashes
              /\ invocation'[d].at = "store" => invocation'[d].result \in Results
      /\ DepthKnown'
  BY <1>1, ToolOf, ToolLeaves
<1>4. ToolTypes'
  BY <1>1, <1>2, <1>3, ToolOf DEF ToolTypes
<1> QED
  BY <1>2, <1>3, <1>4 DEF ToolInd

\* A crash: the counters start at zero again, the file stays.
LEMMA ToolCrashInd ==
  ASSUME ToolInd, ToolCrash
  PROVE  ToolInd'
<1>1. /\ depth' = 0 /\ chain' = 0 /\ orphans' = 0 /\ refusedCalls' = 0
      /\ invocation' = [c \in ToolCalls |-> Unused] /\ served' = served
  BY DEF ToolCrash
<1>2. UNCHANGED <<records, cut>> \/ \E c \in ToolCalls : CutsOff(c)
  BY DEF ToolCrash
<1>3. records' \in Seq(ToolRecords \cup {Torn}) /\ ServedKnown'
  BY <1>1, <1>2, ToolFileKept
<1>4. \A c \in ToolCalls : invocation'[c] = Unused
  BY <1>1
<1>5. invocation' \in [ToolCalls -> Invocations]
  BY <1>1, ToolUnused
<1>6. ToolTypes'
  BY <1>1, <1>3, <1>4, <1>5, ToolUnused, ToolOf DEF ToolTypes
<1>7. Active' = {}
  BY <1>4, ToolUnused DEF Active
<1>8. DepthKnown'
  BY <1>1, <1>7, FS_EmptySet, ToolAssumption DEF DepthKnown
<1> QED
  BY <1>3, <1>6, <1>8 DEF ToolInd

LEMMA ToolQuietInd ==
  ASSUME ToolInd, OrphanEnds \/ UNCHANGED toolVars
  PROVE  ToolInd'
<1>1. /\ UNCHANGED <<depth, chain, invocation, records, refusedCalls, served>>
      /\ orphans' \in Nat
  BY ToolOf DEF OrphanEnds, toolVars
<1>2. UNCHANGED cut
  BY DEF OrphanEnds, toolVars
<1>3. DepthKnown'
  BY <1>1, ToolOf DEF DepthKnown, Active
<1>4. /\ invocation' \in [ToolCalls -> Invocations]
      /\ \A d \in ToolCalls :
              /\ invocation'[d].at \in {"lookup", "store"} => invocation'[d].hash \in Hashes
              /\ invocation'[d].at = "store" => invocation'[d].result \in Results
  BY <1>1, ToolOf DEF ToolTypes
<1> QED
  BY <1>1, <1>2, <1>3, <1>4, ToolOf, ToolIndStep

LEMMA ToolStepInd == ToolInd /\ [ToolNext]_toolVars => ToolInd'
<1> SUFFICES ASSUME ToolInd, [ToolNext]_toolVars
             PROVE  ToolInd'
  OBVIOUS
<1>1. ASSUME NEW c \in ToolCalls, NEW h \in Hashes \cup {NoHash}, BeginCall(c, h)
      PROVE  ToolInd'
  BY <1>1, BeginCallInd
<1>2. ASSUME NEW c \in ToolCalls, NEW r \in Results, HandlerReturns(c, r)
      PROVE  ToolInd'
  <2>1. CASE invocation[c].hash = NoHash
    BY <1>2, <2>1, EndsInd
  <2>2. CASE invocation[c].hash # NoHash
    BY <1>2, <2>2, GoesOnInd
  <2> QED
    BY <2>1, <2>2
<1>3. ASSUME NEW c \in ToolCalls, \/ Deny(c) \/ Allow(c) \/ Hit(c) \/ Miss(c)
                                 \/ HandlerThrows(c) \/ TimesOut(c) \/ Store(c) \/ StoreFails(c)
      PROVE  ToolInd'
  BY <1>3, EndsInd, GoesOnInd, HitInd, StoreInd
<1> QED
  BY <1>1, <1>2, <1>3, RefuseCallInd, ToolQuietInd, ToolCrashInd DEF ToolNext

LEMMA ToolIndImplies == ToolInd => ToolInvariant
<1> SUFFICES ASSUME ToolInd
             PROVE  ToolInvariant
  OBVIOUS
<1>1. \A i \in 1..Len(records) :
        records[i] = Torn \/ records[i] \in [hash : Hashes, result : Results]
  BY ToolOf DEF ToolTypes, ToolRecords
<1>2. ToolTypeOK
  BY <1>1, ToolOf DEF ToolTypeOK, DepthKnown
<1>3. DepthBounded
  BY ToolOf DEF DepthBounded, DepthKnown
<1>4. ASSUME NEW h \in Hashes, NEW r \in Found(h)
      PROVE  served[h] \in {NoHash, r.result}
  <2>1. PICK i \in 1..Len(records) : StopsAt(records, i, h) /\ records[i] = r
    BY <1>4 DEF Found, StopsAt
  <2> QED
    BY <2>1, ToolOf DEF ServedKnown, ServedIs
<1>5. ReplayStable
  BY <1>4 DEF ReplayStable
<1> QED
  BY <1>2, <1>3, <1>5 DEF ToolInvariant

\* At most MAX_DEPTH calls of a trace are under way, and every call of a hash
\* that is answered from the replay file is answered alike, whatever calls
\* overlap, time out or are cut off in the middle of a write.
THEOREM ToolCorrect == ToolSpec => []ToolInvariant
<1>1. ToolSpec => []ToolInd
  BY ToolInitInd, ToolStepInd, PTL DEF ToolSpec
<1> QED
  BY <1>1, ToolIndImplies, PTL

-----------------------------------------------------------------------------
\* SemanticLedger
(***************************************************************************)
(* Proofs about SemanticLedger: what a store used by one process at a time *)
(* keeps in its files.                                                     *)
(***************************************************************************)

\* The content of a Map: states, one per id.
KeyedStates(states) ==
  /\ states \in SUBSET States
  /\ \A s, t \in states : s.id = t.id => s = t

\* Every state is still there, as far as assertNoStateMutation compares.
Extends(later, earlier) == \A s \in earlier : \E t \in later : t.id = s.id /\ t.head = s.head

StoreRec == [open : BOOLEAN, states : SUBSET States, transitions : SUBSET Transitions,
             saving : {"no", "states", "transitions"}]

LedStores ==
  /\ store \in [Processes -> StoreRec]
  /\ \A p \in Processes : KeyedStates(store[p].states)
  /\ \A p \in Processes : store[p].saving # "no" => store[p].open

LedFiles ==
  /\ statesFile = TornFile \/ KeyedStates(statesFile)
  /\ transitionsFile = TornFile \/ transitionsFile \in SUBSET Transitions

LedFlags == shared \in BOOLEAN /\ imported \in BOOLEAN /\ refused \in BOOLEAN /\ tears \in Nat

\* A store, the files, and whether bundles were imported and refused: the store
\* has all the files have, and what of it is saved is there.
LedgerCovers(r, states, moves, taken, thrown) ==
  /\ moves \subseteq r.transitions
  /\ IdsOf(states) \subseteq IdsOf(r.states)
  /\ ~taken => Extends(r.states, states)
  /\ r.saving = "transitions" => states = r.states
  /\ r.saving = "no" => moves = r.transitions /\ (~thrown => states = r.states)

\* Used by one process at a time and never torn.
LedOneUser ==
  /\ \A p, q \in Processes : store[p].open /\ store[q].open => p = q
  /\ statesFile # TornFile /\ transitionsFile # TornFile
  /\ \A p \in Processes : store[p].open =>
       LedgerCovers(store[p], statesFile, transitionsFile, imported, refused)

LedgerInd == LedStores /\ LedFiles /\ LedFlags /\ (Orderly => LedOneUser)

-----------------------------------------------------------------------------
(* Sets of states.                                                         *)

LEMMA LedEmpty == KeyedStates({}) BY DEF KeyedStates

LEMMA LedWithStates ==
  ASSUME NEW states, KeyedStates(states), NEW new, KeyedStates(new)
  PROVE  /\ KeyedStates(WithStates(states, new))
         /\ IdsOf(states) \subseteq IdsOf(WithStates(states, new))
  <1>1. KeyedStates(WithStates(states, new))
    BY DEF KeyedStates, WithStates, IdsOf
  <1>2. ASSUME NEW s \in states PROVE \E t \in WithStates(states, new) : t.id = s.id
    BY DEF WithStates, IdsOf
  <1> QED BY <1>1, <1>2 DEF IdsOf

LEMMA LedOneState ==
  ASSUME NEW s \in States
  PROVE  KeyedStates({s}) /\ IdsOf({s}) = {s.id}
  BY DEF KeyedStates, IdsOf

LEMMA LedPutExtends ==
  ASSUME NEW states, NEW s \in States, NoMutation(states, s), NEW file, Extends(states, file)
  PROVE  Extends(WithStates(states, {s}), file)
  <1> SUFFICES ASSUME NEW o \in file
               PROVE  \E t \in WithStates(states, {s}) : t.id = o.id /\ t.head = o.head
    BY DEF Extends
  <1>1. PICK t \in states : t.id = o.id /\ t.head = o.head BY DEF Extends
  <1>2. CASE t.id = s.id
    BY <1>1, <1>2 DEF NoMutation, WithStates
  <1>3. CASE t.id # s.id BY <1>1, <1>3, LedOneState DEF WithStates
  <1> QED BY <1>2, <1>3

\* The fields of a store that changes and begins to save.
LEMMA LedChanged ==
  ASSUME NEW r \in StoreRec, NEW a, NEW b
  PROVE  [r EXCEPT !.states = a, !.transitions = b, !.saving = "states"]
           = [open |-> r.open, states |-> a, transitions |-> b, saving |-> "states"]
  <1>1. [r EXCEPT !.states = a, !.transitions = b, !.saving = "states"]
          = [[[r EXCEPT !.states = a] EXCEPT !.transitions = b] EXCEPT !.saving = "states"]
    OBVIOUS
  <1>2. [r EXCEPT !.states = a]
          = [open |-> r.open, states |-> a, transitions |-> r.transitions, saving |-> r.saving]
    BY DEF StoreRec
  <1>3. [[open |-> r.open, states |-> a, transitions |-> r.transitions, saving |-> r.saving]
           EXCEPT !.transitions = b]
          = [open |-> r.open, states |-> a, transitions |-> b, saving |-> r.saving]
    OBVIOUS
  <1>4. [[open |-> r.open, states |-> a, transitions |-> b, saving |-> r.saving]
           EXCEPT !.saving = "states"]
          = [open |-> r.open, states |-> a, transitions |-> b, saving |-> "states"]
    OBVIOUS
  <1> QED BY <1>1, <1>2, <1>3, <1>4, Zenon

\* A save goes on.
LEMMA LedSaving ==
  ASSUME LedStores, NEW p \in Processes, NEW v
  PROVE  [store EXCEPT ![p].saving = v]
           = [store EXCEPT ![p] = [open |-> store[p].open, states |-> store[p].states,
                                   transitions |-> store[p].transitions, saving |-> v]]
  <1>0. PICK r \in StoreRec : r = store[p] BY DEF LedStores
  <1>1. [r EXCEPT !.saving = v]
          = [open |-> r.open, states |-> r.states, transitions |-> r.transitions, saving |-> v]
    BY DEF StoreRec
  <1>2. [store EXCEPT ![p].saving = v] = [store EXCEPT ![p] = [r EXCEPT !.saving = v]]
    BY <1>0
  <1> QED BY <1>0, <1>1, <1>2

-----------------------------------------------------------------------------
(* A step of a process that leaves it with store r.                        *)

LEMMA LedStep ==
  ASSUME LedgerInd, NEW p \in Processes, NEW r \in StoreRec, store' = [store EXCEPT ![p] = r],
         KeyedStates(r.states), r.saving # "no" => r.open,
         LedFiles', LedFlags', Orderly' => Orderly,
         UNCHANGED <<statesFile, transitionsFile, imported, refused>> \/ store[p].open,
         Orderly' => statesFile' # TornFile /\ transitionsFile' # TornFile,
         Orderly' /\ r.open =>
           /\ \A q \in Processes \ {p} : ~store[q].open
           /\ LedgerCovers(r, statesFile', transitionsFile', imported', refused')
  PROVE  LedgerInd'
  <1>1. store'[p] = r /\ \A q \in Processes : q # p => store'[q] = store[q]
    BY DEF LedgerInd, LedStores
  <1>2. LedStores' BY <1>1 DEF LedgerInd, LedStores
  <1>3. ASSUME Orderly' PROVE LedOneUser'
    <2>0. LedOneUser BY <1>3 DEF LedgerInd
    <2>1. ASSUME NEW q \in Processes, NEW o \in Processes, store'[q].open, store'[o].open
          PROVE  q = o
      BY <2>0, <2>1, <1>1, <1>3 DEF LedOneUser
    <2>2. ASSUME NEW q \in Processes, store'[q].open
          PROVE  LedgerCovers(store'[q], statesFile', transitionsFile', imported', refused')
      <3>1. CASE q = p BY <3>1, <2>2, <1>1, <1>3
      <3>2. CASE q # p
        <4>1. store'[q] = store[q] /\ store[q].open BY <3>2, <2>2, <1>1
        <4>2. ~store[p].open BY <4>1, <3>2, <2>0 DEF LedOneUser
        <4>3. UNCHANGED <<statesFile, transitionsFile, imported, refused>> BY <4>2
        <4> QED BY <4>1, <4>3, <2>0 DEF LedOneUser
      <3> QED BY <3>1, <3>2
    <2>3. \A q \in Processes : store'[q].open =>
            LedgerCovers(store[q], statesFile, transitionsFile, imported, refused)'
      BY <2>2 DEF LedgerCovers, IdsOf, Extends
    <2> QED BY <2>1, <2>3, <1>3 DEF LedOneUser
  <1> QED BY <1>2, <1>3 DEF LedgerInd

LEMMA LedOpen ==
  ASSUME LedgerInd, NEW p \in Processes, OpenStore(p)
  PROVE  LedgerInd'
  <1> DEFINE r == [open |-> TRUE, states |-> Loaded(statesFile),
                   transitions |-> Loaded(transitionsFile), saving |-> "no"]
  <1>1. /\ UNCHANGED <<statesFile, transitionsFile, tears, imported, refused>>
        /\ shared' = (shared \/ \E q \in Processes : store[q].open)
        /\ store' = [store EXCEPT ![p] = r] /\ ~store[p].open
    BY DEF OpenStore
  <1>2. KeyedStates(Loaded(statesFile)) /\ Loaded(transitionsFile) \in SUBSET Transitions
    BY LedEmpty DEF LedgerInd, LedFiles, Loaded
  <1>3. r \in StoreRec /\ KeyedStates(r.states) /\ r.saving = "no" /\ r.open
    <2>1. PICK t : t = TRUE OBVIOUS
    <2>2. Loaded(statesFile) \in SUBSET States BY <1>2 DEF KeyedStates
    <2> QED BY <1>2, <2>2 DEF StoreRec
  <1>4. LedFiles' BY <1>1 DEF LedgerInd, LedFiles
  <1>5. shared' \in BOOLEAN BY <1>1
  <1>6. LedFlags' BY <1>1, <1>5 DEF LedgerInd, LedFlags
  <1>7. ASSUME Orderly' PROVE Orderly /\ LedOneUser /\ \A q \in Processes : ~store[q].open
    BY <1>1, <1>7 DEF Orderly, LedgerInd
  <1>8. ASSUME Orderly'
        PROVE  /\ r.states = statesFile /\ r.transitions = transitionsFile
               /\ statesFile # TornFile /\ transitionsFile # TornFile
    BY <1>7, <1>8 DEF LedOneUser, Loaded
  <1> HIDE DEF r
  <1>9. Extends(statesFile, statesFile) BY DEF Extends
  <1>10. Orderly' => LedgerCovers(r, statesFile, transitionsFile, imported, refused)
    BY <1>3, <1>8, <1>9 DEF LedgerCovers
  <1>11. Orderly' => Orderly /\ (\A q \in Processes \ {p} : ~store[q].open)
    BY <1>7
  <1> QED BY <1>1, <1>3, <1>4, <1>6, <1>8, <1>10, <1>11, LedStep

\* A change in memory to a keyed set of states that has the ids of the old one,
\* and to transitions that include the old ones.
LEMMA LedChanges ==
  ASSUME LedgerInd, NEW p \in Processes, Quiet(p), NEW a, NEW b, Changes(p, a, b),
         KeyedStates(a), b \in SUBSET Transitions, imported' \in {imported, TRUE},
         refused' = refused,
         IdsOf(store[p].states) \subseteq IdsOf(a), store[p].transitions \subseteq b,
         ~imported' => \A file : Extends(store[p].states, file) => Extends(a, file)
  PROVE  LedgerInd'
  <1> DEFINE r == [open |-> store[p].open, states |-> a, transitions |-> b, saving |-> "states"]
  <1>1. /\ UNCHANGED <<statesFile, transitionsFile, tears, shared>>
        /\ store' = [store EXCEPT ![p] = r] /\ store[p].open
    <2>0. PICK q \in StoreRec : q = store[p] BY DEF LedgerInd, LedStores
    <2>1. [q EXCEPT !.states = a, !.transitions = b, !.saving = "states"] = r
      BY <2>0, LedChanged
    <2> HIDE DEF r
    <2>2. store' = [store EXCEPT ![p] = [q EXCEPT !.states = a, !.transitions = b,
                                                  !.saving = "states"]]
      BY <2>0 DEF Changes
    <2> QED BY <2>1, <2>2 DEF Changes, Quiet
  <1>2. r \in StoreRec /\ r.states = a /\ r.transitions = b /\ r.saving = "states" /\ r.open
    BY <1>1 DEF StoreRec, LedgerInd, LedStores, KeyedStates
  <1> HIDE DEF r
  <1>3. LedFiles' BY <1>1 DEF LedgerInd, LedFiles
  <1>4. LedFlags' BY <1>1 DEF LedgerInd, LedFlags
  <1>5. Orderly' => Orderly /\ LedOneUser BY <1>1 DEF Orderly, LedgerInd
  <1>6. ASSUME Orderly'
        PROVE  /\ \A q \in Processes \ {p} : ~store[q].open
               /\ LedgerCovers(r, statesFile, transitionsFile, imported', refused')
               /\ statesFile # TornFile /\ transitionsFile # TornFile
    <2>1. LedOneUser BY <1>5, <1>6
    <2>2. \A q \in Processes \ {p} : ~store[q].open BY <2>1, <1>1 DEF LedOneUser
    <2>3. LedgerCovers(store[p], statesFile, transitionsFile, imported, refused)
      BY <2>1, <1>1 DEF LedOneUser
    <2>4. ~imported' => ~imported OBVIOUS
    <2>5. LedgerCovers(r, statesFile, transitionsFile, imported', refused')
      BY <2>3, <2>4, <1>2 DEF LedgerCovers
    <2> QED BY <2>1, <2>2, <2>5 DEF LedOneUser
  <1> QED BY <1>1, <1>2, <1>3, <1>4, <1>5, <1>6, LedStep

LEMMA LedPut ==
  ASSUME LedgerInd, NEW p \in Processes, NEW s \in States, PutState(p, s)
  PROVE  LedgerInd'
  <1>0. PICK old : old = store[p].states OBVIOUS
  <1>1. KeyedStates(old) /\ store[p].transitions \in SUBSET Transitions
    BY <1>0 DEF LedgerInd, LedStores, StoreRec
  <1>2. PICK a : a = WithStates(old, {s}) OBVIOUS
  <1>3. KeyedStates(a) /\ IdsOf(old) \subseteq IdsOf(a)
    BY <1>1, <1>2, LedWithStates, LedOneState
  <1>4. /\ Quiet(p) /\ Changes(p, a, store[p].transitions) /\ imported' = imported
        /\ refused' = refused /\ NoMutation(old, s)
    BY <1>0, <1>2 DEF PutState
  <1>5. \A file : Extends(old, file) => Extends(a, file)
    BY <1>2, <1>4, LedPutExtends
  <1> QED BY <1>0, <1>1, <1>3, <1>4, <1>5, LedChanges

LEMMA LedAppend ==
  ASSUME LedgerInd, NEW p \in Processes, NEW t \in Transitions, AppendTransition(p, t)
  PROVE  LedgerInd'
  <1>0. PICK a, b : a = store[p].states /\ b = store[p].transitions \cup {t} OBVIOUS
  <1>1. /\ Quiet(p) /\ Changes(p, a, b) /\ imported' = imported /\ refused' = refused
    BY <1>0 DEF AppendTransition
  <1>2. KeyedStates(a) /\ b \in SUBSET Transitions /\ store[p].transitions \subseteq b
    BY <1>0 DEF LedgerInd, LedStores, StoreRec
  <1> QED BY <1>0, <1>1, <1>2, LedChanges

LEMMA LedImport ==
  ASSUME LedgerInd, NEW p \in Processes, NEW new \in Bundles, NEW moves \in BundleMoves,
         ImportBundle(p, new, moves)
  PROVE  LedgerInd'
  <1>0. PICK a, b : /\ a = WithStates(store[p].states, new)
                    /\ b = store[p].transitions \cup moves
    OBVIOUS
  <1>1. KeyedStates(store[p].states) /\ store[p].transitions \in SUBSET Transitions
    BY DEF LedgerInd, LedStores, StoreRec
  <1>2. KeyedStates(new) BY DEF Bundles, KeyedStates
  <1>3. KeyedStates(a) /\ IdsOf(store[p].states) \subseteq IdsOf(a)
    BY <1>0, <1>1, <1>2, LedWithStates
  <1>4. /\ Quiet(p) /\ Changes(p, a, b) /\ imported' = TRUE /\ refused' = refused
    BY <1>0 DEF ImportBundle
  <1>5. b \in SUBSET Transitions /\ store[p].transitions \subseteq b
    BY <1>0, <1>1 DEF BundleMoves
  <1> QED BY <1>3, <1>4, <1>5, LedChanges

LEMMA LedImportThrows ==
  ASSUME LedgerInd, NEW p \in Processes, NEW new \in Bundles, ImportThrows(p, new)
  PROVE  LedgerInd'
  <1>0. PICK old \in StoreRec : old = store[p] BY DEF LedgerInd, LedStores
  <1>1. PICK a : a = WithStates(old.states, new) OBVIOUS
  <1> DEFINE r == [open |-> old.open, states |-> a, transitions |-> old.transitions,
                   saving |-> old.saving]
  <1>2. KeyedStates(old.states) /\ KeyedStates(new)
    BY <1>0 DEF LedgerInd, LedStores, Bundles, KeyedStates
  <1>3. KeyedStates(a) /\ IdsOf(old.states) \subseteq IdsOf(a)
    BY <1>1, <1>2, LedWithStates
  <1>4. old.saving = "no" /\ old.open BY <1>0 DEF ImportThrows, Quiet
  <1>5. [old EXCEPT !.states = a] = r
    BY DEF StoreRec
  <1>6. store' = [store EXCEPT ![p] = [old EXCEPT !.states = a]]
    BY <1>0, <1>1 DEF ImportThrows
  <1>7. r \in StoreRec /\ r.states = a /\ r.transitions = old.transitions
        /\ r.saving = "no" /\ r.open
    BY <1>3, <1>4 DEF StoreRec, KeyedStates
  <1>8. store' = [store EXCEPT ![p] = r] BY <1>5, <1>6
  <1> HIDE DEF r
  <1>9. /\ UNCHANGED <<statesFile, transitionsFile, tears, shared>>
        /\ imported' = TRUE /\ refused' = TRUE
    BY DEF ImportThrows
  <1>10. LedFiles' BY <1>9 DEF LedgerInd, LedFiles
  <1>11. LedFlags' BY <1>9 DEF LedgerInd, LedFlags
  <1>12. Orderly' => Orderly /\ LedOneUser BY <1>9 DEF Orderly, LedgerInd
  <1>13. ASSUME Orderly'
         PROVE  /\ \A q \in Processes \ {p} : ~store[q].open
                /\ LedgerCovers(r, statesFile, transitionsFile, imported', refused')
                /\ statesFile # TornFile /\ transitionsFile # TornFile
    <2>1. LedOneUser BY <1>12, <1>13
    <2>2. \A q \in Processes \ {p} : ~store[q].open BY <2>1, <1>0, <1>4 DEF LedOneUser
    <2>3. LedgerCovers(old, statesFile, transitionsFile, imported, refused)
      BY <2>1, <1>0, <1>4 DEF LedOneUser
    <2>4. LedgerCovers(r, statesFile, transitionsFile, imported', refused')
      BY <2>3, <1>3, <1>4, <1>7, <1>9 DEF LedgerCovers
    <2> QED BY <2>1, <2>2, <2>4 DEF LedOneUser
  <1> QED BY <1>0, <1>3, <1>4, <1>7, <1>8, <1>9, <1>10, <1>11, <1>12, <1>13, LedStep

LEMMA LedSave ==
  ASSUME LedgerInd, NEW p \in Processes, SaveStates(p) \/ SaveTransitions(p)
  PROVE  LedgerInd'
  <1>0. PICK v : v = IF store[p].saving = "states" THEN "transitions" ELSE "no" OBVIOUS
  <1> DEFINE r == [open |-> store[p].open, states |-> store[p].states,
                   transitions |-> store[p].transitions, saving |-> v]
  <1>1. /\ UNCHANGED <<tears, shared, imported, refused>>
        /\ store[p].saving \in {"states", "transitions"}
        /\ store' = [store EXCEPT ![p].saving = v]
    BY <1>0 DEF SaveStates, SaveTransitions
  <1>2. store' = [store EXCEPT ![p] = r] BY <1>1, LedSaving DEF LedgerInd
  <1>3. store[p] \in StoreRec /\ KeyedStates(store[p].states) /\ store[p].open
    BY <1>1 DEF LedgerInd, LedStores
  <1>4. /\ r \in StoreRec /\ r.states = store[p].states /\ r.transitions = store[p].transitions
        /\ r.saving = v /\ r.open
    BY <1>0, <1>3 DEF StoreRec
  <1> HIDE DEF r
  <1>5. LedFlags' BY <1>1 DEF LedgerInd, LedFlags
  <1>6. Orderly' => Orderly /\ LedOneUser BY <1>1 DEF Orderly, LedgerInd
  <1>7. store[p].states # TornFile /\ store[p].transitions # TornFile
    BY <1>3, TornAssumption DEF StoreRec, States, Transitions
  <1>8. ASSUME Orderly'
        PROVE  /\ statesFile # TornFile /\ transitionsFile # TornFile
               /\ \A q \in Processes \ {p} : ~store[q].open
               /\ LedgerCovers(store[p], statesFile, transitionsFile, imported, refused)
    BY <1>3, <1>6, <1>8 DEF LedOneUser
  <1>9. CASE SaveStates(p)
    <2>1. statesFile' = r.states /\ transitionsFile' = transitionsFile /\ v = "transitions"
      BY <1>9, <1>0, <1>4 DEF SaveStates
    <2>2. LedFiles' BY <2>1, <1>3, <1>4 DEF LedgerInd, LedFiles
    <2>3. Extends(r.states, r.states) BY DEF Extends
    <2>4. Orderly' => LedgerCovers(r, statesFile', transitionsFile', imported', refused')
      BY <2>1, <2>3, <1>1, <1>4, <1>8 DEF LedgerCovers
    <2> QED BY <2>1, <2>2, <2>4, <1>2, <1>3, <1>4, <1>5, <1>6, <1>7, <1>8, LedStep
  <1>10. CASE SaveTransitions(p)
    <2>1. /\ transitionsFile' = r.transitions /\ statesFile' = statesFile /\ v = "no"
          /\ store[p].saving = "transitions"
      BY <1>10, <1>0, <1>4 DEF SaveTransitions
    <2>2. LedFiles' BY <2>1, <1>3, <1>4 DEF LedgerInd, LedFiles, StoreRec
    <2>3. Orderly' => LedgerCovers(r, statesFile', transitionsFile', imported', refused')
      BY <2>1, <1>1, <1>4, <1>8 DEF LedgerCovers
    <2> QED BY <2>1, <2>2, <2>3, <1>1, <1>2, <1>3, <1>4, <1>5, <1>6, <1>7, <1>8, LedStep
  <1> QED BY <1>9, <1>10

LEMMA LedEnd ==
  ASSUME LedgerInd, NEW p \in Processes, EndProcess(p) \/ TearFile(p)
  PROVE  LedgerInd'
  <1>1. UNCHANGED <<shared, imported, refused>> /\ store' = [store EXCEPT ![p] = NoStore]
    BY DEF EndProcess, TearFile
  <1>2. NoStore \in StoreRec /\ KeyedStates(NoStore.states) /\ NoStore.saving = "no" /\ ~NoStore.open
    BY LedEmpty DEF NoStore, StoreRec
  <1>3. CASE EndProcess(p)
    <2>1. UNCHANGED <<statesFile, transitionsFile, tears>> BY <1>3 DEF EndProcess
    <2>2. LedFiles' BY <2>1 DEF LedgerInd, LedFiles
    <2>3. LedFlags' BY <2>1, <1>1 DEF LedgerInd, LedFlags
    <2>4. Orderly' => Orderly /\ LedOneUser BY <2>1, <1>1 DEF Orderly, LedgerInd
    <2>5. Orderly' => statesFile' # TornFile /\ transitionsFile' # TornFile
      BY <2>1, <2>4 DEF LedOneUser
    <2> QED BY <2>1, <2>2, <2>3, <2>4, <2>5, <1>1, <1>2, LedStep
  <1>4. CASE TearFile(p)
    <2>1. tears' = tears + 1 BY <1>4 DEF TearFile
    <2>2. /\ statesFile' \in {statesFile, TornFile} /\ transitionsFile' \in {transitionsFile, TornFile}
          /\ store[p].saving # "no"
      BY <1>4 DEF TearFile
    <2>3. LedFiles' BY <2>2 DEF LedgerInd, LedFiles
    <2>4. tears' \in Nat /\ tears' # 0 BY <2>1 DEF LedgerInd, LedFlags
    <2>5. LedFlags' BY <2>4, <1>1 DEF LedgerInd, LedFlags
    <2>6. ~Orderly' BY <2>4 DEF Orderly
    <2>7. store[p].open BY <2>2 DEF LedgerInd, LedStores
    <2> QED BY <2>3, <2>5, <2>6, <2>7, <1>1, <1>2, LedStep
  <1> QED BY <1>3, <1>4

LEMMA LedgerStep ==
  ASSUME LedgerInd, [LedgerNext]_ledgerVars
  PROVE  LedgerInd'
  <1>1. CASE UNCHANGED ledgerVars
    BY <1>1 DEF ledgerVars, LedgerInd, LedStores, StoreRec, LedFiles, LedFlags, Orderly, LedOneUser,
                KeyedStates, States, LedgerCovers, IdsOf, Extends
  <1> QED BY <1>1, LedOpen, LedPut, LedAppend, LedImport, LedImportThrows, LedSave, LedEnd
          DEF LedgerNext

LEMMA LedgerStart ==
  ASSUME LedgerInit
  PROVE  LedgerInd
  <1>1. NoStore \in StoreRec /\ KeyedStates(NoStore.states) /\ NoStore.saving = "no" /\ ~NoStore.open
    BY LedEmpty DEF NoStore, StoreRec
  <1>2. LedStores BY <1>1 DEF LedgerInit, LedStores
  <1>3. statesFile = {} /\ transitionsFile = {} BY DEF LedgerInit
  <1>4. LedFiles BY <1>3, LedEmpty DEF LedFiles
  <1>5. LedFlags BY DEF LedgerInit, LedFlags
  <1>6. {} # TornFile BY TornAssumption
  <1>7. LedOneUser BY <1>1, <1>3, <1>6 DEF LedgerInit, LedOneUser
  <1> QED BY <1>2, <1>4, <1>5, <1>7 DEF LedgerInd

\* One state per id in memory, whatever the processes do to each other; and,
\* where they take turns and none stops in a write, what a process lists
\* between its saves is what the files hold, whatever was appended and
\* imported, until an import throws half-way (LocalSSMStore.save).
THEOREM LedgerCorrect == LedgerSpec => []LedgerInvariant
  <1>1. LedgerInit => LedgerInd BY LedgerStart
  <1>2. LedgerInd /\ [LedgerNext]_ledgerVars => LedgerInd' BY LedgerStep
  <1>3. LedgerInd => LedgerInvariant
    <2> SUFFICES ASSUME LedgerInd PROVE LedgerInvariant OBVIOUS
    <2>1. LedgerTypeOK BY DEF LedgerTypeOK, LedgerInd, LedFiles, LedStores, KeyedStates
    <2>2. MemoryIsFile BY DEF MemoryIsFile, Quiet, LedgerInd, LedOneUser, LedgerCovers
    <2> QED BY <2>1, <2>2 DEF LedgerInvariant
  <1> QED BY <1>1, <1>2, <1>3, PTL DEF LedgerSpec

\* A step that changes states.json while the store is used in an orderly way
\* is the first write of a save by the one process that has it open.
LEMMA LedStatesChange ==
  ASSUME LedgerInd, [LedgerNext]_ledgerVars, Orderly', statesFile' # statesFile
  PROVE  \E p \in Processes :
           /\ statesFile' = store[p].states /\ UNCHANGED <<imported, transitionsFile>>
           /\ LedgerCovers(store[p], statesFile, transitionsFile, imported, refused)
  <1>1. PICK p \in Processes : SaveStates(p) \/ TearFile(p)
    BY DEF LedgerNext, ledgerVars, OpenStore, SaveTransitions, EndProcess, PutState, ImportBundle,
           ImportThrows, AppendTransition, Changes
  <1>2. CASE SaveStates(p)
    <2>1. /\ statesFile' = store[p].states
          /\ UNCHANGED <<transitionsFile, tears, shared, imported>>
          /\ store[p].saving = "states"
      BY <1>2 DEF SaveStates
    <2>2. LedOneUser /\ store[p].open
      BY <2>1 DEF LedgerInd, Orderly, LedStores
    <2> QED BY <2>1, <2>2 DEF LedOneUser
  <1>3. CASE TearFile(p)
    BY <1>3 DEF TearFile, Orderly, LedgerInd, LedFlags
  <1> QED BY <1>1, <1>2, <1>3

\* States are append-only as far as assertNoStateMutation compares them, for
\* processes that take turns and do not import (putState, save).
THEOREM LedgerAppendsOnly == LedgerSpec => OrderlyAppendOnly
  <1> DEFINE Kept == Orderly' /\ ~imported' =>
                       \A s \in statesFile : \E t \in statesFile' : t.id = s.id /\ t.head = s.head
  <1>1. ASSUME LedgerInd, [LedgerNext]_ledgerVars, Orderly', ~imported'
        PROVE  \A s \in statesFile : \E t \in statesFile' : t.id = s.id /\ t.head = s.head
    <2>1. CASE statesFile' = statesFile BY <2>1
    <2>2. CASE statesFile' # statesFile
      <3>1. PICK p \in Processes :
              /\ statesFile' = store[p].states /\ imported' = imported
              /\ LedgerCovers(store[p], statesFile, transitionsFile, imported, refused)
        BY <1>1, <2>2, LedStatesChange
      <3> QED BY <1>1, <3>1 DEF LedgerCovers, Extends
    <2> QED BY <2>1, <2>2
  <1>2. LedgerInd /\ [LedgerNext]_ledgerVars => [Kept]_ledgerVars BY <1>1
  <1>3. LedgerInit => LedgerInd BY LedgerStart
  <1>4. LedgerInd /\ [LedgerNext]_ledgerVars => LedgerInd' BY LedgerStep
  <1> QED BY <1>2, <1>3, <1>4, PTL DEF LedgerSpec, OrderlyAppendOnly

\* Transitions and the ids of states never leave the files, for processes that
\* take turns and import whatever they like (appendTransition, importBundle).
THEOREM LedgerKeeps == LedgerSpec => OrderlyKeeps
  <1> DEFINE Kept == Orderly' => /\ transitionsFile \subseteq transitionsFile'
                                 /\ IdsOf(statesFile) \subseteq IdsOf(statesFile')
  <1>1. ASSUME LedgerInd, [LedgerNext]_ledgerVars, Orderly'
        PROVE  IdsOf(statesFile) \subseteq IdsOf(statesFile')
    <2>1. CASE statesFile' = statesFile BY <2>1
    <2>2. CASE statesFile' # statesFile
      <3>1. PICK p \in Processes :
              /\ statesFile' = store[p].states
              /\ LedgerCovers(store[p], statesFile, transitionsFile, imported, refused)
        BY <1>1, <2>2, LedStatesChange
      <3> QED BY <3>1 DEF LedgerCovers
    <2> QED BY <2>1, <2>2
  <1>2. ASSUME LedgerInd, [LedgerNext]_ledgerVars, Orderly'
        PROVE  transitionsFile \subseteq transitionsFile'
    <2>1. CASE transitionsFile' = transitionsFile BY <2>1
    <2>2. CASE transitionsFile' # transitionsFile
      <3>1. PICK p \in Processes : SaveTransitions(p) \/ TearFile(p)
        BY <1>2, <2>2
        DEF LedgerNext, ledgerVars, OpenStore, SaveStates, EndProcess, PutState, ImportBundle,
            ImportThrows, AppendTransition, Changes
      <3>2. CASE SaveTransitions(p)
        <4>1. /\ transitionsFile' = store[p].transitions /\ UNCHANGED <<tears, shared>>
              /\ store[p].saving = "transitions"
          BY <3>2 DEF SaveTransitions
        <4>2. LedOneUser /\ store[p].open
          BY <1>2, <4>1 DEF LedgerInd, Orderly, LedStores
        <4> QED BY <4>1, <4>2 DEF LedOneUser, LedgerCovers
      <3>3. CASE TearFile(p)
        BY <1>2, <3>3 DEF TearFile, Orderly, LedgerInd, LedFlags
      <3> QED BY <3>1, <3>2, <3>3
    <2> QED BY <2>1, <2>2
  <1>3. ASSUME LedgerInd, [LedgerNext]_ledgerVars PROVE Kept
    BY <1>1, <1>2, <1>3
  <1>4. LedgerInit => LedgerInd BY LedgerStart
  <1>5. LedgerInd /\ [LedgerNext]_ledgerVars => LedgerInd' BY LedgerStep
  <1>6. LedgerInd /\ [LedgerNext]_ledgerVars => [Kept]_ledgerVars BY <1>3
  <1> QED BY <1>4, <1>5, <1>6, PTL DEF LedgerSpec, OrderlyKeeps

-----------------------------------------------------------------------------
\* LifecycleMachines
(***************************************************************************)
(* Proofs about LifecycleMachines.  That a complete run visited every      *)
(* state is not inductive: the invariant has to know the history of a run  *)
(* at every state of the order, and that no other machine has a state      *)
(* named complete.                                                         *)
(***************************************************************************)

-----------------------------------------------------------------------------
\* The history of a run that stands at the k-th state of the order.
OrderUpTo(k) == [i \in 1..(k - 1) |-> <<StateOrder[i], StateOrder[i + 1]>>]

\* The history of a run, at whichever state of the order it stands.
InOrder ==
  machineName = "run" =>
    \A k \in 1..8 : entity = StateOrder[k] => trail = OrderUpTo(k)

\* The inductive invariant of the lifecycles.
MachineInd ==
  /\ machineName \in DOMAIN Machines
  /\ entity \in Defined(M) \cup {"error"}
  /\ InOrder

-----------------------------------------------------------------------------
\* The order as a sequence: eight states, all different, none of them divergent
\* or an error.
LEMMA OrderFacts ==
  /\ Len(StateOrder) = 8
  /\ StateOrder[1] = "init" /\ StateOrder[8] = "complete"
  /\ \A i, j \in 1..8 : StateOrder[i] = StateOrder[j] => i = j
  /\ \A i \in 1..8 : StateOrder[i] # "divergent" /\ StateOrder[i] # "error"
BY DEF StateOrder

\* The position of a state of the order is its index.
LEMMA PositionOf ==
  ASSUME NEW k \in 1..8
  PROVE Position(StateOrder[k]) = k
BY OrderFacts DEF Position

LEMMA PositionDivergent == Position("divergent") = 0
BY OrderFacts DEF Position

\* The three machines by name.
LEMMA MachineNames ==
  /\ DOMAIN Machines = {"execution", "junction", "run"}
  /\ Machines["execution"] = ExecutionMachine
  /\ Machines["junction"] = JunctionMachine
  /\ Machines["run"] = RunMachine
BY DEF Machines

\* What the proof needs of the tables: the states of the run machine are the
\* order and divergent, and no other machine has a state complete.
LEMMA DefinedRun ==
  Defined(RunMachine) = {StateOrder[i] : i \in 1..8} \cup {"divergent"}
<1>1. {StateOrder[i] : i \in 1..8}
        = {"init", "policy_checked", "arbitrated", "executed", "manifest_built",
           "signed", "ledger_committed", "complete"}
  BY DEF StateOrder
<1>2. Defined(RunMachine)
        = {"init", "policy_checked", "arbitrated", "executed", "manifest_built",
           "signed", "ledger_committed", "complete", "divergent"}
  BY DEF Defined, RunMachine, Machine
<1> QED BY <1>1, <1>2

LEMMA NoOtherComplete ==
  /\ "complete" \notin Defined(ExecutionMachine) \cup {"error"}
  /\ "complete" \notin Defined(JunctionMachine) \cup {"error"}
BY DEF Defined, ExecutionMachine, JunctionMachine, Machine

\* The first k - 1 values of a function and the next are its first k.
LEMMA FirstValues ==
  ASSUME NEW e, NEW k \in Nat, k > 0
  PROVE Append([i \in 1..(k - 1) |-> e[i]], e[k]) = [i \in 1..k |-> e[i]]
<1>1. [i \in 1..(k - 1) |-> e[i]] \in Seq({e[i] : i \in 1..k})
  OBVIOUS
<1>2. Len([i \in 1..(k - 1) |-> e[i]]) = k - 1
  OBVIOUS
<1> QED BY <1>1, <1>2

\* One more step along the order extends the history by that step.
LEMMA OrderExtends ==
  ASSUME NEW k \in 1..7
  PROVE Append(OrderUpTo(k), <<StateOrder[k], StateOrder[k + 1]>>) = OrderUpTo(k + 1)
<1> DEFINE e == [i \in 1..7 |-> <<StateOrder[i], StateOrder[i + 1]>>]
<1>1. OrderUpTo(k) = [i \in 1..(k - 1) |-> e[i]]
  BY DEF OrderUpTo
<1>2. OrderUpTo(k + 1) = [i \in 1..k |-> e[i]]
  BY DEF OrderUpTo
<1>3. <<StateOrder[k], StateOrder[k + 1]>> = e[k]
  OBVIOUS
<1> HIDE DEF e
<1> QED BY <1>1, <1>2, <1>3, FirstValues

-----------------------------------------------------------------------------
LEMMA MachineIndInit == MachineInit => MachineInd
<1> SUFFICES ASSUME MachineInit PROVE MachineInd
  OBVIOUS
<1>1. machineName \in DOMAIN Machines
  BY DEF MachineInit
<1>2. entity \in Defined(M) \cup {"error"}
  BY DEF MachineInit, Constructs
<1>3. ASSUME machineName = "run", NEW k \in 1..8, entity = StateOrder[k]
      PROVE trail = OrderUpTo(k)
  <2>1. entity = "init" \/ entity = "error"
    BY <1>3, MachineNames DEF MachineInit, M, RunMachine, Machine
  <2>2. k = 1
    BY <1>3, <2>1, OrderFacts
  <2>3. OrderUpTo(1) = <<>>
    BY DEF OrderUpTo
  <2> QED BY <2>2, <2>3 DEF MachineInit
<1> QED BY <1>1, <1>2, <1>3 DEF MachineInd, InOrder

\* A run that moves on: forward by one state of the order, or to divergent.
LEMMA RunMoves ==
  ASSUME MachineInd, machineName = "run", NEW to \in Defined(M), Moves(to),
         entity \notin M.terminal \/ entity = "divergent",
         Valid(M, entity, to),
         to # "divergent" => Position(to) = Position(entity) + 1
  PROVE MachineInd'
<1>1. M = RunMachine /\ UNCHANGED machineName
  BY MachineNames DEF M, Moves
<1>2. entity' = to /\ trail' = Append(trail, <<entity, to>>)
  BY DEF Moves
<1>3. (machineName \in DOMAIN Machines)' /\ (entity \in Defined(M) \cup {"error"})'
  BY <1>1, <1>2 DEF MachineInd, M
<1>4. ASSUME NEW k \in 1..8, to = StateOrder[k]
      PROVE trail' = OrderUpTo(k)
  <2>1. to # "divergent" /\ Position(to) = k
    BY <1>4, OrderFacts, PositionOf
  <2>2. entity # "divergent"
    <3> SUFFICES ASSUME entity = "divergent" PROVE FALSE
      OBVIOUS
    <3>1. "divergent" \in M.terminal
      BY <1>1 DEF RunMachine, Machine
    <3> QED BY <3>1, <2>1 DEF Valid
  <2>3. PICK j \in 1..8 : entity = StateOrder[j]
    <3>1. entity # "error"
      <4>1. "error" \notin Defined(M)
        BY <1>1, DefinedRun, OrderFacts
      <4> QED BY <4>1 DEF Valid
    <3> QED BY <3>1, <2>2, <1>1, DefinedRun DEF MachineInd
  <2>4. k = j + 1
    BY <2>1, <2>3, PositionOf
  <2>5. trail = OrderUpTo(j)
    BY <2>3 DEF MachineInd, InOrder
  <2>6. trail' = Append(OrderUpTo(j), <<StateOrder[j], StateOrder[j + 1]>>)
    BY <1>2, <1>4, <2>3, <2>4, <2>5
  <2>7. j \in 1..7
    BY <2>4
  <2>8. Append(OrderUpTo(j), <<StateOrder[j], StateOrder[j + 1]>>) = OrderUpTo(j + 1)
    BY <2>7, OrderExtends
  <2> QED BY <2>4, <2>6, <2>8
<1> QED BY <1>1, <1>2, <1>3, <1>4 DEF MachineInd, InOrder

LEMMA MachineIndStep == MachineInd /\ [MachineNext]_machineVars => MachineInd'
<1> SUFFICES ASSUME MachineInd, [MachineNext]_machineVars PROVE MachineInd'
  OBVIOUS
<1>1. ASSUME NEW to \in Defined(M), TransitionEntity(to) PROVE MachineInd'
  <2>1. UNCHANGED machineName /\ entity' = to /\ machineName # "run"
    BY <1>1 DEF TransitionEntity, Moves
  <2> QED BY <2>1 DEF MachineInd, InOrder, M
<1>2. ASSUME NEW to \in Defined(M), Advance(to) PROVE MachineInd'
  <2>1. CASE entity \notin M.terminal \/ entity = "divergent"
    BY <1>2, <2>1, RunMoves DEF Advance
  <2>2. CASE entity \in M.terminal /\ entity # "divergent"
    <3>1. M = RunMachine
      BY <1>2, MachineNames DEF Advance, M
    <3>2. entity = "complete" /\ to = "complete"
      BY <1>2, <2>2, <3>1 DEF Advance, Valid, RunMachine, Machine
    <3>3. Position(to) = Position(to) + 1 /\ Position(to) = 8
      BY <1>2, <3>2, PositionOf, OrderFacts DEF Advance
    <3> QED BY <3>3
  <2> QED BY <2>1, <2>2
<1>3. CASE Diverge
  <2>1. machineName = "run" /\ Moves("divergent") /\ entity \notin M.terminal
        /\ Valid(M, entity, "divergent")
    BY <1>3 DEF Diverge
  <2>2. "divergent" \in Defined(M)
    BY <2>1, MachineNames, DefinedRun DEF M
  <2> QED BY <2>1, <2>2, RunMoves
<1>4. CASE UNCHANGED machineVars
  BY <1>4 DEF machineVars, MachineInd, InOrder, M
<1> QED BY <1>1, <1>2, <1>3, <1>4 DEF MachineNext

-----------------------------------------------------------------------------
\* At every state of every lifecycle the recorded history of a run is the order
\* so far: a complete run visited every state, each once.
THEOREM MachineCorrect == MachineSpec => []CompleteRunVisitedAll
<1>1. MachineInit => MachineInd
  BY MachineIndInit
<1>2. MachineInd /\ [MachineNext]_machineVars => MachineInd'
  BY MachineIndStep
<1>3. MachineInd => CompleteRunVisitedAll
  <2> SUFFICES ASSUME MachineInd, entity = "complete" PROVE trail = OrderUpTo(8)
    BY OrderFacts DEF CompleteRunVisitedAll, OrderUpTo
  <2>1. machineName = "run"
    BY MachineNames, NoOtherComplete DEF MachineInd, M
  <2> QED BY <2>1, OrderFacts DEF MachineInd, InOrder
<1> QED BY <1>1, <1>2, <1>3, PTL DEF MachineSpec

-----------------------------------------------------------------------------
\* ChangeBudget
(***************************************************************************)
(* Proofs about ChangeBudget.  That budgets compose along a chain is not   *)
(* inductive as stated by category: the invariant is about each field that *)
(* differs from the chain's first state, which entered by some transition  *)
(* that was checked with at least the field's own significance.            *)
(***************************************************************************)

-----------------------------------------------------------------------------
\* The significance a change of one field has by itself.
FieldLevel(f) ==
    IF f \in {"model", "promptId"} THEN "critical"
    ELSE IF f \in {"promptVersion", "policy"} THEN "major" ELSE "minor"

BudgetRules == [most : Levels \cup {"null"}, approval : BOOLEAN]

\* The field f of the current descriptor passed the budget.
FieldPassed(f) ==
    /\ allWithin =>
          IsSignificanceAllowed(FieldLevel(f), changeBudget[CategoryOf[f]].most)
    /\ allWithin /\ noneAsked => ~ changeBudget[CategoryOf[f]].approval

\* The inductive invariant of the change budgets.
ChangeInd ==
    /\ changeBudget \in [Categories -> BudgetRules]
    /\ current \subseteq DescriptorFields
    /\ allWithin \in BOOLEAN /\ noneAsked \in BOOLEAN
    /\ \A f \in current \ {"metadata"} : FieldPassed(f)

-----------------------------------------------------------------------------
\* isSignificanceAllowed is monotone in the significance.
LEMMA AllowedDown ==
    ASSUME NEW a \in Levels, NEW b \in Levels, NEW most \in Levels \cup {"null"},
           Rank[b] <= Rank[a], IsSignificanceAllowed(a, most)
    PROVE IsSignificanceAllowed(b, most)
BY DEF Levels, Rank, IsSignificanceAllowed

LEMMA FieldCategories ==
    ASSUME NEW f \in DescriptorFields \ {"metadata"}
    PROVE CategoryOf[f] \in Categories \ {"unknown_drift"}
BY DEF DescriptorFields, CategoryOf, Categories

\* A table of rules with a default has a rule for every category.
LEMMA WithDefaultTyped ==
    ASSUME NEW rules, \A c \in DOMAIN rules : rules[c] \in BudgetRules,
           NEW default \in BudgetRules
    PROVE WithDefault(rules, default) \in [Categories -> BudgetRules]
BY Zenon DEF WithDefault

LEMMA RuleTyped ==
    ASSUME NEW most \in Levels \cup {"null"}, NEW approval \in BOOLEAN
    PROVE BudgetRule(most, approval) \in BudgetRules
BY DEF BudgetRule, BudgetRules

\* Every budget, a preset or a custom one, has a rule for every category.
LEMMA BudgetsTyped == Budgets \subseteq [Categories -> BudgetRules]
<1>0. {"critical", "major", "minor", "cosmetic", "null"} \subseteq Levels \cup {"null"}
  BY DEF Levels
<1>1. Permissive \in [Categories -> BudgetRules]
  <2>1. DOMAIN <<>> = {}
    OBVIOUS
  <2>2. BudgetRule("critical", FALSE) \in BudgetRules
    BY <1>0, RuleTyped
  <2> QED BY <2>1, <2>2, WithDefaultTyped DEF Permissive
<1>2. Strict \in [Categories -> BudgetRules]
  <2>1. PICK a \in BudgetRules, d \in BudgetRules, e \in BudgetRules :
          /\ a = [most |-> "critical", approval |-> TRUE]
          /\ d = [most |-> "major", approval |-> TRUE]
          /\ e = [most |-> "minor", approval |-> FALSE]
    BY DEF BudgetRules, Levels
  <2>2. Strict = WithDefault([model_drift |-> a, prompt_drift |-> d, policy_drift |-> d], e)
    BY <2>1 DEF Strict, BudgetRule
  <2>3. \A c \in DOMAIN [model_drift |-> a, prompt_drift |-> d, policy_drift |-> d] :
          [model_drift |-> a, prompt_drift |-> d, policy_drift |-> d][c] \in BudgetRules
    OBVIOUS
  <2> QED BY <2>2, <2>3, WithDefaultTyped
<1>3. Production \in [Categories -> BudgetRules]
  <2>1. PICK a \in BudgetRules, d \in BudgetRules, e \in BudgetRules :
          /\ a = [most |-> "null", approval |-> TRUE]
          /\ d = [most |-> "minor", approval |-> FALSE]
          /\ e = [most |-> "cosmetic", approval |-> FALSE]
    BY DEF BudgetRules, Levels
  <2>2. Production = WithDefault([model_drift |-> a, prompt_drift |-> a, policy_drift |-> a,
                                  context_drift |-> d], e)
    BY <2>1 DEF Production, BudgetRule
  <2>3. \A c \in DOMAIN [model_drift |-> a, prompt_drift |-> a, policy_drift |-> a,
                         context_drift |-> d] :
          [model_drift |-> a, prompt_drift |-> a, policy_drift |-> a,
           context_drift |-> d][c] \in BudgetRules
    OBVIOUS
  <2> QED BY <2>2, <2>3, WithDefaultTyped
<1>4. Custom \subseteq [Categories -> BudgetRules]
  <2> SUFFICES ASSUME NEW b \in Custom PROVE b \in [Categories -> BudgetRules]
    OBVIOUS
  <2>1. PICK most \in [FreeCategories -> Levels \cup {"null"}],
             approval \in BOOLEAN, default \in Levels :
               b = WithDefault([c \in FreeCategories |-> BudgetRule(most[c], approval)],
                               BudgetRule(default, FALSE))
    BY DEF Custom, BudgetRule, WithDefault
  <2>2. \A c \in FreeCategories : BudgetRule(most[c], approval) \in BudgetRules
    BY RuleTyped
  <2>3. BudgetRule(default, FALSE) \in BudgetRules
    BY RuleTyped
  <2> QED BY <2>1, <2>2, <2>3, Zenon DEF WithDefault
<1> QED BY <1>1, <1>2, <1>3, <1>4 DEF Budgets

\* What checkChangeBudget looks at is pairs of a category and a level.
LEMMA CheckedTyped ==
    ASSUME NEW from \in SUBSET DescriptorFields, NEW to \in SUBSET DescriptorFields,
           NEW r \in Checked(from, to)
    PROVE \E c \in Categories, l \in Levels : r = <<c, l>>
<1>1. DriftCategories(from, to) \subseteq Categories
  <2>1. Differing(from, to) \subseteq DescriptorFields
    BY DEF Differing
  <2> QED BY <2>1, FieldCategories DEF DriftCategories, Categories
<1>2. \A c : Significance(c, from, to) \in Levels
  BY DEF Significance, Levels
<1>3. CASE DriftCategories(from, to) = {}
  <2>1. r = <<"unknown_drift", "cosmetic">>
    BY <1>3 DEF Checked
  <2> QED BY <2>1 DEF Categories, Levels
<1>4. CASE DriftCategories(from, to) # {}
  <2>1. PICK c \in DriftCategories(from, to) : r = <<c, Significance(c, from, to)>>
    BY <1>4 DEF Checked
  <2> QED BY <2>1, <1>1, <1>2
<1> QED BY <1>3, <1>4

\* A field that differs puts its category among the checked ones, with at least
\* its own significance.
LEMMA FieldIsChecked ==
    ASSUME NEW from \in SUBSET DescriptorFields, NEW to \in SUBSET DescriptorFields,
           NEW f \in Differing(from, to) \ {"metadata"}
    PROVE \E l \in Levels : /\ <<CategoryOf[f], l>> \in Checked(from, to)
                            /\ Rank[FieldLevel(f)] <= Rank[l]
<1>1. f \in DescriptorFields
  BY DEF Differing
<1>2. CategoryOf[f] \in DriftCategories(from, to)
  BY DEF DriftCategories
<1> DEFINE l == Significance(CategoryOf[f], from, to)
<1>3. <<CategoryOf[f], l>> \in Checked(from, to)
  BY <1>2 DEF Checked
<1>4. l \in Levels /\ Rank[FieldLevel(f)] <= Rank[l]
  BY <1>1 DEF DescriptorFields, CategoryOf, Significance, FieldLevel, Rank, Levels
<1> QED BY <1>3, <1>4

\* A category that differs from the first state is there because of a field whose
\* own significance is the category's.
LEMMA CategoryHasField ==
    ASSUME NEW to \in SUBSET DescriptorFields,
           NEW c \in DriftCategories({}, to) \ {"unknown_drift"}
    PROVE \E f \in to \ {"metadata"} :
             CategoryOf[f] = c /\ FieldLevel(f) = Significance(c, {}, to)
<1>1. Differing({}, to) = to
  BY DEF Differing
<1>2. PICK f \in to \ {"metadata"} : CategoryOf[f] = c
  BY <1>1 DEF DriftCategories
<1>3. CASE c = "prompt_drift" /\ "promptId" \in to
  BY <1>1, <1>3 DEF CategoryOf, FieldLevel, Significance
<1>4. CASE ~ (c = "prompt_drift" /\ "promptId" \in to)
  <2>1. FieldLevel(f) = Significance(c, {}, to)
    BY <1>1, <1>2, <1>4 DEF CategoryOf, FieldLevel, Significance, DescriptorFields
  <2> QED BY <1>2, <2>1
<1> QED BY <1>3, <1>4

-----------------------------------------------------------------------------
\* The step of a chain: a field that was there before keeps what it passed, one
\* that comes in is in this transition's drift.
LEMMA ChangeStep ==
    ASSUME ChangeInd, NEW to \in SUBSET VaryingFields, CheckTransition(to)
    PROVE ChangeInd'
<1>1. to \in SUBSET DescriptorFields /\ current \in SUBSET DescriptorFields
  BY ChangeBudgetAssumption DEF ChangeInd
<1>2. current' = to /\ changeBudget' = changeBudget
  BY DEF CheckTransition
<1>3. /\ allWithin' <=> allWithin /\ WithinBudget(changeBudget, current, to)
      /\ noneAsked' <=> noneAsked /\ ~ NeedsApproval(changeBudget, current, to)
      /\ allWithin' \in BOOLEAN /\ noneAsked' \in BOOLEAN
  BY Zenon DEF CheckTransition
<1>4. ASSUME NEW f \in to \ {"metadata"} PROVE FieldPassed(f)'
  <2>1. CASE f \in current
    <3>1. FieldPassed(f)
      BY <1>4, <2>1 DEF ChangeInd
    <3> QED BY <3>1, <1>2, <1>3, Zenon DEF FieldPassed
  <2>2. CASE f \notin current
    <3>1. f \in Differing(current, to) \ {"metadata"}
      BY <1>4, <2>2 DEF Differing
    <3>2. PICK l \in Levels : /\ <<CategoryOf[f], l>> \in Checked(current, to)
                              /\ Rank[FieldLevel(f)] <= Rank[l]
      BY <1>1, <3>1, FieldIsChecked
    <3> DEFINE rule == changeBudget[CategoryOf[f]]
               pair == <<CategoryOf[f], l>>
    <3>3. pair[1] = CategoryOf[f] /\ pair[2] = l
      OBVIOUS
    <3>4. rule \in BudgetRules
      BY <1>1, <1>4, FieldCategories DEF ChangeInd
    <3>5. ASSUME allWithin' PROVE IsSignificanceAllowed(l, rule.most)
      BY <3>2, <3>3, <3>5, <1>3, Zenon DEF WithinBudget, Blocked
    <3>6. FieldLevel(f) \in Levels
      BY DEF FieldLevel, Levels
    <3>7. ASSUME allWithin' PROVE IsSignificanceAllowed(FieldLevel(f), rule.most)
      <4>1. rule.most \in Levels \cup {"null"}
        BY <3>4 DEF BudgetRules
      <4> HIDE DEF rule
      <4> QED BY <4>1, <3>2, <3>5, <3>6, <3>7, AllowedDown
    <3>8. ASSUME allWithin', noneAsked' PROVE ~ rule.approval
      BY <3>2, <3>3, <3>5, <3>8, <1>3, Zenon DEF NeedsApproval
    <3> QED BY <3>7, <3>8, <1>2, Zenon DEF FieldPassed
  <2> QED BY <2>1, <2>2
<1> QED BY <1>1, <1>2, <1>3, <1>4, Zenon DEF ChangeInd

-----------------------------------------------------------------------------
LEMMA ComposeHolds == ChangeInd => BudgetsCompose
<1> SUFFICES ASSUME ChangeInd, NEW c \in DriftCategories({}, current) \ {"unknown_drift"}
             PROVE /\ allWithin => IsSignificanceAllowed(Significance(c, {}, current),
                                                         changeBudget[c].most)
                   /\ allWithin /\ noneAsked => ~ changeBudget[c].approval
  BY DEF BudgetsCompose
<1>1. PICK f \in current \ {"metadata"} :
         CategoryOf[f] = c /\ FieldLevel(f) = Significance(c, {}, current)
  BY CategoryHasField DEF ChangeInd
<1>2. FieldPassed(f)
  BY <1>1 DEF ChangeInd
<1> QED BY <1>1, <1>2, Zenon DEF FieldPassed

LEMMA AgreeHolds == ChecksAgree
<1> SUFFICES ASSUME previous # current
             PROVE WithinBudget(changeBudget, previous, current)
                     <=> TransitionWithin(changeBudget, previous, current)
  BY DEF ChecksAgree
<1>1. DriftCategories(previous, current) # {}
  BY DEF DriftCategories
<1> QED BY <1>1 DEF WithinBudget, TransitionWithin, Checked

\* One budget allows what another allows, rule by rule.
LEMMA NestedRules ==
    ASSUME NEW inner, NEW outer,
           NEW from \in SUBSET DescriptorFields, NEW to \in SUBSET DescriptorFields,
           \A c \in Categories, l \in Levels :
              IsSignificanceAllowed(l, inner[c].most) => IsSignificanceAllowed(l, outer[c].most),
           WithinBudget(inner, from, to)
    PROVE WithinBudget(outer, from, to)
<1> SUFFICES ASSUME NEW r \in Checked(from, to)
             PROVE IsSignificanceAllowed(r[2], outer[r[1]].most)
  BY DEF WithinBudget, Blocked
<1>1. PICK c \in Categories, l \in Levels : r = <<c, l>>
  BY CheckedTyped
<1>2. r[1] = c /\ r[2] = l
  BY <1>1
<1>3. IsSignificanceAllowed(r[2], inner[r[1]].most)
  BY DEF WithinBudget, Blocked
<1> QED BY <1>2, <1>3

LEMMA NestedHolds ==
    ASSUME previous \in SUBSET DescriptorFields, current \in SUBSET DescriptorFields
    PROVE PresetsNested
<1>1. \A c \in Categories, l \in Levels :
         IsSignificanceAllowed(l, Production[c].most) => IsSignificanceAllowed(l, Strict[c].most)
  BY DEF Categories, Levels, IsSignificanceAllowed, Production, Strict, WithDefault,
         BudgetRule, Rank
<1>2. \A c \in Categories, l \in Levels :
         IsSignificanceAllowed(l, Strict[c].most) => IsSignificanceAllowed(l, Permissive[c].most)
  <2>1. \A c \in Categories : Permissive[c].most = "critical"
    BY DEF Permissive, WithDefault, BudgetRule
  <2> QED BY <2>1 DEF Levels, IsSignificanceAllowed, Rank
<1> QED BY <1>1, <1>2, NestedRules DEF PresetsNested

-----------------------------------------------------------------------------
\* Along every chain of transitions, for every budget: budgets compose, the two
\* checks agree and the presets are nested.
THEOREM ChangeBudgetCorrect == ChangeSpec => []ChangeInvariant
<1> DEFINE I == ChangeInd /\ previous \subseteq DescriptorFields
<1>1. ChangeInit => I
  <2> SUFFICES ASSUME ChangeInit PROVE I
    OBVIOUS
  <2>1. changeBudget \in [Categories -> BudgetRules]
    BY BudgetsTyped DEF ChangeInit
  <2> QED BY <2>1 DEF ChangeInit, ChangeInd
<1>2. I /\ [ChangeNext]_changeVars => I'
  <2> SUFFICES ASSUME I, [ChangeNext]_changeVars PROVE I'
    OBVIOUS
  <2>1. ASSUME NEW to \in SUBSET VaryingFields, CheckTransition(to) PROVE I'
    BY <2>1, ChangeStep DEF ChangeInd, CheckTransition
  <2>2. CASE UNCHANGED changeVars
    BY <2>2, Zenon DEF changeVars, ChangeInd, FieldPassed
  <2> QED BY <2>1, <2>2 DEF ChangeNext
<1>3. I => ChangeInvariant
  BY ComposeHolds, AgreeHolds, NestedHolds DEF ChangeInvariant, ChangeInd
<1> QED BY <1>1, <1>2, <1>3, PTL DEF ChangeSpec
=============================================================================
