---------------------------- MODULE TenantStore ----------------------------
(***************************************************************************)
(* Durable mode of the control-plane store (ready-layer, Supabase): every  *)
(* change of a tenant's state is one call of mutateState, which takes the  *)
(* tenant's lease row, loads the state row, runs a synchronous mutator,    *)
(* saves the row if its revision has not moved, and deletes the lease.     *)
(* Each await is a point where other calls, of this or another process,    *)
(* run.  Any request may fail from its sender's point of view and still be *)
(* executed later, and any process may die: see Fail, Crash and Late.      *)
(*                                                                         *)
(* The state is abstracted to the sequence of calls whose mutator it       *)
(* contains.  Time is a set of timers that Tick lets run down: Tick stands *)
(* for the passage of a unit in which no timer expires halfway.  Clocks of *)
(* different processes are taken to agree; no property about the state row *)
(* depends on that.                                                        *)
(***************************************************************************)
EXTENDS Naturals, Sequences

CONSTANTS Calls,          \* calls of mutateState; each has its own holderId
          NoHolder,       \* there is no lease row
          LeaseTicks,     \* DURABLE_LOCK_LEASE_MS
          TimeoutTicks,   \* LOCK_TIMEOUT_MS
          RetryLimit      \* Math.max(1, DURABLE_LOCK_RETRY_LIMIT)

ASSUME NoHolderAssumption == NoHolder \notin Calls
ASSUME TimingAssumption == LeaseTicks \in Nat \ {0} /\ TimeoutTicks \in Nat
ASSUME RetryAssumption == RetryLimit \in Nat \ {0}

VARIABLES
  lease,      \* control_plane_leases: holder_id and time left to expires_at
  row,        \* control_plane_state: revision (0: no row) and state_json
  pc,         \* the request each call is waiting for
  elapsed,    \* Date.now() - startedAt in acquireDurableTenantLock
  expiresIn,  \* time left to the expiresIso the call computed
  seen,       \* holder of the expired lease row the call read
  record,     \* the StateRecord the call loaded
  attempt,    \* attempt counter of mutateState
  result,     \* how mutateState ends: "none" until that is settled
  flight      \* requests whose sender has given up, which may still execute

vars == <<lease, row, pc, elapsed, expiresIn, seen, record, attempt, result,
          flight>>

Records == [revision : Nat, state : Seq(Calls)]

EmptyRecord == [revision |-> 0, state |-> <<>>]

NoLease == [holder |-> NoHolder, ttl |-> 0]

\* Points at which a call waits for an answer of the database.
AcquireRequests == {"insert", "read", "steal"}
MutateRequests == {"load", "save"}
Writes == {"insert", "steal", "save", "release"}
Ended == {"done", "crashed"}

Critical == {"load", "save", "release"}

Init == /\ lease = NoLease
        /\ row = EmptyRecord
        /\ pc = [c \in Calls |-> "idle"]
        /\ elapsed = [c \in Calls |-> 0]
        /\ expiresIn = [c \in Calls |-> 0]
        /\ seen = [c \in Calls |-> NoHolder]
        /\ record = [c \in Calls |-> EmptyRecord]
        /\ attempt = [c \in Calls |-> 0]
        /\ result = [c \in Calls |-> "none"]
        /\ flight = {}

----------------------------------------------------------------------------
(* Effects of the requests on the database, and whether they find a row.   *)

InsertFits == lease.holder = NoHolder

StealFits(c) == lease.holder = seen[c]

\* Mutant: the update is not conditional on the revision that was loaded.
SaveFitsAnyRevision(c) == record[c].revision = 0 => row.revision = 0

\* Mutant: the first write is an upsert and overwrites a row created meanwhile.
SaveFitsUpsert(c) == \/ record[c].revision = 0
                     \/ row.revision = record[c].revision

\* saveDurableState: insert when nothing was loaded, else update that revision.
SaveFits(c) == IF record[c].revision = 0
                 THEN row.revision = 0
                 ELSE row.revision = record[c].revision

Take(c) == lease' = [holder |-> c, ttl |-> expiresIn[c]]

Store(c) == row' = [revision |-> record[c].revision + 1,
                    state |-> Append(record[c].state, c)]

\* delete ... where holder_id matches: someone else's lease stays.
Drop(c) == lease' = IF lease.holder = c THEN NoLease ELSE lease

----------------------------------------------------------------------------
(* acquireDurableTenantLock *)

Begin(c) == /\ pc[c] = "idle"
            /\ pc' = [pc EXCEPT ![c] = "acquire"]
            /\ UNCHANGED <<lease, row, elapsed, expiresIn, seen, record,
                           attempt, result, flight>>

\* Top of the acquire loop: expiresIso is computed before the insert is sent.
BeginAttempt(c) == /\ pc[c] = "acquire"
                   /\ elapsed[c] <= TimeoutTicks
                   /\ expiresIn' = [expiresIn EXCEPT ![c] = LeaseTicks]
                   /\ pc' = [pc EXCEPT ![c] = "insert"]
                   /\ UNCHANGED <<lease, row, elapsed, seen, record, attempt,
                                  result, flight>>

LockTimeout(c) == /\ pc[c] = "acquire"
                  /\ elapsed[c] > TimeoutTicks
                  /\ pc' = [pc EXCEPT ![c] = "done"]
                  /\ result' = [result EXCEPT ![c] = "error"]
                  /\ UNCHANGED <<lease, row, elapsed, expiresIn, seen, record,
                                 attempt, flight>>

InsertLease(c) == /\ pc[c] = "insert"
                  /\ IF InsertFits
                       THEN Take(c) /\ pc' = [pc EXCEPT ![c] = "load"]
                       ELSE UNCHANGED lease /\ pc' = [pc EXCEPT ![c] = "read"]
                  /\ UNCHANGED <<row, elapsed, expiresIn, seen, record,
                                 attempt, result, flight>>

\* Mutant: the row is polled until it is stale, without looking at the deadline.
ReadLeasePolls(c) == /\ pc[c] = "read"
                     /\ lease.holder # NoHolder /\ lease.ttl = 0
                     /\ seen' = [seen EXCEPT ![c] = lease.holder]
                     /\ pc' = [pc EXCEPT ![c] = "steal"]
                     /\ UNCHANGED <<lease, row, elapsed, expiresIn, record,
                                    attempt, result, flight>>

\* The row may be gone by now; an unexpired one means sleep and try again.
ReadLease(c) == /\ pc[c] = "read"
                /\ IF lease.holder # NoHolder /\ lease.ttl = 0
                     THEN /\ seen' = [seen EXCEPT ![c] = lease.holder]
                          /\ pc' = [pc EXCEPT ![c] = "steal"]
                     ELSE /\ UNCHANGED seen
                          /\ pc' = [pc EXCEPT ![c] = "acquire"]
                /\ UNCHANGED <<lease, row, elapsed, expiresIn, record, attempt,
                               result, flight>>

\* Compare-and-swap on the row that was read.  A holder writes the lease row
\* once, so matching its holder_id is matching its updated_at as well.
StealLease(c) == /\ pc[c] = "steal"
                 /\ IF StealFits(c)
                      THEN Take(c) /\ pc' = [pc EXCEPT ![c] = "load"]
                      ELSE /\ UNCHANGED lease
                           /\ pc' = [pc EXCEPT ![c] = "acquire"]
                 /\ UNCHANGED <<row, elapsed, expiresIn, seen, record, attempt,
                                result, flight>>

----------------------------------------------------------------------------
(* mutateState, once the lease is taken *)

\* The mutator runs on the loaded copy in the same turn.
Load(c) == /\ pc[c] = "load"
           /\ record' = [record EXCEPT ![c] = row]
           /\ pc' = [pc EXCEPT ![c] = "save"]
           /\ UNCHANGED <<lease, row, elapsed, expiresIn, seen, attempt,
                          result, flight>>

\* A mutator that throws (403, 404, 409 ...): nothing is saved.
MutatorThrows(c) == /\ pc[c] = "load"
                    /\ record' = [record EXCEPT ![c] = row]
                    /\ pc' = [pc EXCEPT ![c] = "release"]
                    /\ result' = [result EXCEPT ![c] = "error"]
                    /\ UNCHANGED <<lease, row, elapsed, expiresIn, seen,
                                   attempt, flight>>

Save(c) == /\ pc[c] = "save"
           /\ SaveFits(c)
           /\ Store(c)
           /\ pc' = [pc EXCEPT ![c] = "release"]
           /\ result' = [result EXCEPT ![c] = "ok"]
           /\ UNCHANGED <<lease, elapsed, expiresIn, seen, record, attempt,
                          flight>>

\* Mutant: a save that matched no row is taken for a success.
SaveConflictIgnored(c) == /\ pc[c] = "save"
                          /\ ~SaveFits(c)
                          /\ pc' = [pc EXCEPT ![c] = "release"]
                          /\ result' = [result EXCEPT ![c] = "ok"]
                          /\ UNCHANGED <<lease, row, elapsed, expiresIn, seen,
                                         record, attempt, flight>>

\* Save returned false: load again, or give up with 409 after RetryLimit.
SaveConflict(c) == /\ pc[c] = "save"
                   /\ ~SaveFits(c)
                   /\ attempt' = [attempt EXCEPT ![c] = @ + 1]
                   /\ IF attempt[c] + 1 < RetryLimit
                        THEN /\ pc' = [pc EXCEPT ![c] = "load"]
                             /\ UNCHANGED result
                        ELSE /\ pc' = [pc EXCEPT ![c] = "release"]
                             /\ result' = [result EXCEPT ![c] = "error"]
                   /\ UNCHANGED <<lease, row, elapsed, expiresIn, seen, record,
                                  flight>>

\* finally { releaseTenantLock }; errors of the delete are not looked at.
Release(c) == /\ pc[c] = "release"
              /\ Drop(c)
              /\ pc' = [pc EXCEPT ![c] = "done"]
              /\ UNCHANGED <<row, elapsed, expiresIn, seen, record, attempt,
                             result, flight>>

----------------------------------------------------------------------------
(* Failures *)

\* The unanswered write of c may be lost, or may still reach the database.
Abandon(c) == \/ UNCHANGED flight
              \/ pc[c] \in Writes /\ flight' = flight \cup {<<c, pc[c]>>}

\* A request ends in an error (503).  Before the lease is held nothing is
\* released; a failed delete changes nothing about the call's result.
Fail(c) == /\ \/ /\ pc[c] \in AcquireRequests
                 /\ pc' = [pc EXCEPT ![c] = "done"]
                 /\ result' = [result EXCEPT ![c] = "error"]
              \/ /\ pc[c] \in MutateRequests
                 /\ pc' = [pc EXCEPT ![c] = "release"]
                 /\ result' = [result EXCEPT ![c] = "error"]
              \/ /\ pc[c] = "release"
                 /\ pc' = [pc EXCEPT ![c] = "done"]
                 /\ UNCHANGED result
           /\ Abandon(c)
           /\ UNCHANGED <<lease, row, elapsed, expiresIn, seen, record,
                          attempt>>

Crash(c) == /\ pc[c] \notin {"idle"} \cup Ended
            /\ pc' = [pc EXCEPT ![c] = "crashed"]
            /\ Abandon(c)
            /\ UNCHANGED <<lease, row, elapsed, expiresIn, seen, record,
                           attempt, result>>

\* The database executes a request nobody waits for any more.
Late(c, k) == /\ <<c, k>> \in flight
              /\ flight' = flight \ {<<c, k>>}
              /\ CASE k = "insert" -> IF InsertFits THEN Take(c)
                                                    ELSE UNCHANGED lease
                   [] k = "steal" -> IF StealFits(c) THEN Take(c)
                                                     ELSE UNCHANGED lease
                   [] k = "release" -> Drop(c)
                   [] OTHER -> UNCHANGED lease
              /\ IF k = "save" /\ SaveFits(c) THEN Store(c) ELSE UNCHANGED row
              /\ UNCHANGED <<pc, elapsed, expiresIn, seen, record, attempt,
                             result>>

RunDown(t) == IF t = 0 THEN 0 ELSE t - 1

Waiting(c) == pc[c] \in AcquireRequests \cup {"acquire"}

Tick == /\ lease' = [lease EXCEPT !.ttl = RunDown(@)]
        /\ expiresIn' = [c \in Calls |-> RunDown(expiresIn[c])]
        /\ elapsed' = [c \in Calls |->
                         IF Waiting(c) /\ elapsed[c] <= TimeoutTicks
                           THEN elapsed[c] + 1 ELSE elapsed[c]]
        /\ UNCHANGED <<row, pc, seen, record, attempt, result, flight>>

----------------------------------------------------------------------------

\* What the code of a call does by itself.
Step(c) == \/ BeginAttempt(c) \/ LockTimeout(c) \/ InsertLease(c)
           \/ ReadLease(c) \/ StealLease(c) \/ Load(c) \/ Save(c)
           \/ SaveConflict(c) \/ Release(c)

Next == \/ \E c \in Calls : \/ Begin(c) \/ Step(c) \/ MutatorThrows(c)
                            \/ Fail(c) \/ Crash(c)
        \/ \E c \in Calls, k \in Writes : Late(c, k)
        \/ Tick

Spec == Init /\ [][Next]_vars

\* A call whose process lives goes on when its request is answered, and time
\* passes; nothing obliges a request to fail, a mutator to throw, a process to
\* crash or an abandoned request to be executed.
Fairness == /\ \A c \in Calls : WF_vars(Step(c))
            /\ WF_vars(Tick)

FairSpec == Spec /\ Fairness

----------------------------------------------------------------------------
(* Properties *)

TypeOK == /\ lease \in [holder : Calls \cup {NoHolder}, ttl : 0..LeaseTicks]
          /\ row \in Records
          /\ pc \in [Calls -> {"idle", "acquire"} \cup AcquireRequests
                                \cup Critical \cup Ended]
          /\ elapsed \in [Calls -> 0..(TimeoutTicks + 1)]
          /\ expiresIn \in [Calls -> 0..LeaseTicks]
          /\ seen \in [Calls -> Calls \cup {NoHolder}]
          /\ record \in [Calls -> Records]
          /\ attempt \in [Calls -> 0..RetryLimit]
          /\ result \in [Calls -> {"none", "ok", "error"}]
          /\ flight \subseteq Calls \X Writes

Applied(c) == \E i \in 1..Len(row.state) : row.state[i] = c

\* A mutation that mutateState has reported as saved is in the stored state and
\* stays there, whoever stole the lease or wrote late: no update is lost.
AcknowledgedIsStored == \A c \in Calls : result[c] = "ok" => Applied(c)

\* Neither the retry loop nor a late request applies a mutator a second time.
AppliedOnce == \A i, j \in 1..Len(row.state) :
                 row.state[i] = row.state[j] => i = j

\* While a call is inside its critical section and its lease has not expired no
\* other call is, so mutators of live leaseholders never compete.
LiveLeaseExcludes == \A c, d \in Calls :
   /\ pc[c] \in Critical /\ expiresIn[c] > 0
   /\ pc[d] \in Critical /\ expiresIn[d] > 0
   => c = d

\* What holds of the store in every state: its types, no lost update, no second
\* application of a mutator, and the exclusion of live leases.
StoreInvariant == /\ TypeOK /\ AcknowledgedIsStored
                  /\ AppliedOnce /\ LiveLeaseExcludes

\* Every write of the state row adds exactly one mutation to the row as it is.
WritesExtendHistory == [][row' # row =>
   \E c \in Calls : row' = [revision |-> row.revision + 1,
                            state |-> Append(row.state, c)]]_vars

\* The store implements the atomic register: a call returns when it is done.
Abstract == INSTANCE AtomicMutation WITH
              history <- row.state,
              outcome <- [c \in Calls |->
                            IF pc[c] = "done" THEN result[c] ELSE "none"]

ImplementsAtomicMutation == Abstract!Spec

\* Every call ends: nobody waits for ever for a lease whose holder died.
CallsEnd == \A c \in Calls : pc[c] # "idle" ~> pc[c] \in Ended
=============================================================================
