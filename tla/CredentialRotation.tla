------------------------- MODULE CredentialRotation -------------------------
(***************************************************************************)
(* CredentialManager of packages/ai/src/security/credentialRotation.ts for *)
(* one key.  Every access to the secret storage is awaited, so operations  *)
(* and the scheduled rotation interleave there.  Secrets are numbered.     *)
(***************************************************************************)
EXTENDS Integers

CONSTANTS
  RotationTasks,       \* operations that may be under way at one time
  MaxSecrets,          \* bound: secrets generated
  MaxStorageFailures,  \* bound: accesses to the storage that fail
  MaxScheduleCalls     \* bound: calls of scheduleRotation and cancelRotation

ASSUME RotationAssumption == MaxSecrets \in Nat /\ MaxStorageFailures \in Nat

VARIABLES
  secret,      \* the value in the storage, 0 for none
  managed,     \* credentials: [value, version], value 0 for none
  scheduled,   \* schedules has the key
  armed,       \* a timeout is pending
  disposed,    \* dispose was called
  task,        \* what each operation is doing
  lastSecret, storageFailures, scheduleCalls,
  everStored,  \* history: values that were ever in the storage
  audited      \* history: values whose rotation was audited

rotationCount == <<lastSecret, storageFailures, scheduleCalls>>
rotationVars == <<secret, managed, scheduled, armed, disposed, task, rotationCount,
                  everStored, audited>>

Absent == [value |-> 0, version |-> 0]
NoTask == [kind |-> "none", at |-> "idle", value |-> 0, version |-> 0]

\* A task whose operation has returned or thrown; a scheduled rotation goes on
\* to the reschedule, whatever became of rotate.
TaskEnds(k) == IF task[k].kind = "due" THEN [task[k] EXCEPT !.at = "reschedule"] ELSE NoTask
Now(k, what) == task' = [task EXCEPT ![k] = what]

-----------------------------------------------------------------------------
RotationInit ==
  /\ secret = 0 /\ managed = Absent
  /\ scheduled = FALSE /\ armed = FALSE /\ disposed = FALSE
  /\ task = [k \in RotationTasks |-> NoTask]
  /\ lastSecret = 0 /\ storageFailures = 0 /\ scheduleCalls = 0
  /\ everStored = {} /\ audited = {}

\* register: in memory first, then the storage.
Register(k) ==
  /\ task[k] = NoTask /\ lastSecret < MaxSecrets
  /\ lastSecret' = lastSecret + 1
  /\ managed' = [value |-> lastSecret + 1, version |-> 1]
  /\ Now(k, [kind |-> "register", at |-> "set", value |-> lastSecret + 1, version |-> 1])
  /\ UNCHANGED <<disposed, secret, scheduled, armed, storageFailures, scheduleCalls, everStored,
                 audited>>

\* get, rotate and retire begin by reading the storage.
BeginTask(k, kind) ==
  /\ task[k] = NoTask
  /\ Now(k, [NoTask EXCEPT !.kind = kind, !.at = "get"])
  /\ UNCHANGED <<disposed, secret, managed, scheduled, armed, rotationCount, everStored, audited>>

\* The key is missing, or the storage fails.
GetFails(k) ==
  /\ task[k].at = "get"
  /\ \/ secret = 0 /\ UNCHANGED storageFailures
     \/ storageFailures < MaxStorageFailures /\ storageFailures' = storageFailures + 1
  /\ Now(k, TaskEnds(k))
  /\ UNCHANGED <<disposed, secret, managed, scheduled, armed, lastSecret, scheduleCalls,
                 everStored, audited>>

\* get rebuilds the credential with version 1 whatever its history; retire
\* then takes it out of memory, and only there.
GetReturns(k) ==
  /\ task[k].at = "get" /\ task[k].kind \in {"get", "retire"} /\ secret # 0
  /\ managed' = IF task[k].kind = "retire" THEN Absent
                ELSE [value |-> secret, version |-> 1]
  /\ Now(k, NoTask)
  /\ UNCHANGED <<disposed, secret, scheduled, armed, rotationCount, everStored, audited>>

\* rotate: the new credential is in memory before it is stored.
RotateGot(k) ==
  /\ task[k].at = "get" /\ task[k].kind \in {"rotate", "due"} /\ secret # 0
  /\ lastSecret < MaxSecrets
  /\ lastSecret' = lastSecret + 1
  /\ managed' = [value |-> lastSecret + 1, version |-> 2]
  /\ Now(k, [task[k] EXCEPT !.at = "set", !.value = lastSecret + 1, !.version = 2])
  /\ UNCHANGED <<disposed, secret, scheduled, armed, storageFailures, scheduleCalls, everStored,
                 audited>>

\* The storage refuses the value (in production the default one always does):
\* rotate throws, memory keeps the new value until the next get.
SetFails(k) ==
  /\ task[k].at = "set" /\ storageFailures < MaxStorageFailures
  /\ storageFailures' = storageFailures + 1
  /\ Now(k, TaskEnds(k))
  /\ UNCHANGED <<disposed, secret, managed, scheduled, armed, lastSecret, scheduleCalls,
                 everStored, audited>>

\* The storage has the value; writes of two operations end in any order.
SetDone(k) ==
  /\ task[k].at = "set"
  /\ secret' = task[k].value
  /\ everStored' = everStored \cup {task[k].value}
  /\ audited' = IF task[k].kind = "register" THEN audited
                ELSE audited \cup {task[k].value}
  /\ Now(k, TaskEnds(k))
  /\ UNCHANGED <<disposed, managed, scheduled, armed, rotationCount>>

-----------------------------------------------------------------------------
\* scheduleRotation replaces the schedule and the timeout.
ScheduleRotation ==
  /\ scheduleCalls < MaxScheduleCalls
  /\ scheduleCalls' = scheduleCalls + 1
  /\ scheduled' = TRUE /\ armed' = TRUE
  /\ UNCHANGED <<disposed, secret, managed, task, lastSecret, storageFailures, everStored, audited>>

CancelRotation ==
  /\ scheduleCalls < MaxScheduleCalls
  /\ scheduleCalls' = scheduleCalls + 1
  /\ scheduled' = FALSE /\ armed' = FALSE
  /\ UNCHANGED <<disposed, secret, managed, task, lastSecret, storageFailures, everStored, audited>>

\* The timeout fires: #onRotationDue. A schedule without autoRotate only sets
\* its timeout up again.
Due(k) ==
  /\ armed /\ task[k] = NoTask
  /\ \E autoRotate \in BOOLEAN :
       /\ armed' = (scheduled /\ ~autoRotate)
       /\ IF scheduled /\ autoRotate
          THEN Now(k, [NoTask EXCEPT !.kind = "due", !.at = "get"])
          ELSE UNCHANGED task
  /\ UNCHANGED <<disposed, secret, managed, scheduled, rotationCount, everStored, audited>>

\* Mutant: a schedule that was renewed meanwhile is left without its timeout.
RescheduleClears(k) ==
  /\ task[k].at = "reschedule"
  /\ scheduled' = TRUE /\ armed' = ~armed
  /\ Now(k, NoTask)
  /\ UNCHANGED <<disposed, secret, managed, rotationCount, everStored, audited>>

\* The last line of #onRotationDue: the schedule read before the rotation is
\* set up again, although it may have been cancelled since.
Reschedule(k) ==
  /\ task[k].at = "reschedule"
  /\ scheduled' = TRUE /\ armed' = TRUE
  /\ Now(k, NoTask)
  /\ UNCHANGED <<disposed, secret, managed, rotationCount, everStored, audited>>

\* dispose clears the timeouts and keeps the schedules.
Dispose ==
  /\ ~disposed
  /\ disposed' = TRUE /\ armed' = FALSE
  /\ UNCHANGED <<secret, managed, scheduled, task, rotationCount, everStored, audited>>

RotationNext ==
  \/ \E k \in RotationTasks :
       \/ Register(k) \/ \E kind \in {"get", "rotate", "retire"} : BeginTask(k, kind)
       \/ GetFails(k) \/ GetReturns(k) \/ RotateGot(k) \/ SetFails(k) \/ SetDone(k)
       \/ Due(k) \/ Reschedule(k)
  \/ ScheduleRotation \/ CancelRotation \/ Dispose

RotationSpec == RotationInit /\ [][RotationNext]_rotationVars

-----------------------------------------------------------------------------
RotationTypeOK ==
  /\ secret \in 0..lastSecret
  /\ managed \in [value : 0..lastSecret, version : 0..2]
  /\ scheduled \in BOOLEAN /\ armed \in BOOLEAN
  /\ secret \in everStored \cup {0}

\* A schedule stays alive until dispose: as long as the key is scheduled, a timeout is
\* pending or a scheduled rotation is under way that will set it up again,
\* however its storage accesses fail and whatever is called meanwhile.
ScheduledIsArmed ==
  scheduled /\ ~disposed => armed \/ \E k \in RotationTasks : task[k].kind = "due"

\* The audit trail only speaks of secrets that were in force: a rotation that
\* is audited was stored.
AuditedWasStored == audited \subseteq everStored

\* What holds of the rotation in every state: types, a timeout behind every
\* schedule, and no audit of a secret that was not stored.
RotationInvariant == RotationTypeOK /\ ScheduledIsArmed /\ AuditedWasStored
=============================================================================
