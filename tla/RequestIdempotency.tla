------------------------- MODULE RequestIdempotency -------------------------
(***************************************************************************)
(* Idempotency keys in a production-like deployment: withTenantContext     *)
(* claims the key of a mutating request in the table request_idempotency,  *)
(* evaluates the policy, runs the route's handler and records the answer,  *)
(* which repeated requests with the key get instead of running again.      *)
(* Requests of any number of processes share the row of one key.           *)
(*                                                                         *)
(* The body of a request stands for its request_hash, and the request that *)
(* produced an answer for the answer.  updated_at is compared for equality *)
(* only, with a value that was at least a stale window old when it was     *)
(* read, so it is modelled by a count of the writes.  expires_at and the   *)
(* age of updated_at are timers; age[r] counts from the moment the request *)
(* computed nowIso and expiresIso.  The rate limiter, the response cache   *)
(* and the answer's headers are left out.                                  *)
(***************************************************************************)
EXTENDS Naturals

CONSTANTS Requests,
          Body,         \* the body of each request
          NoRow, NoOne,
          TtlTicks,     \* DEFAULT_IDEMPOTENCY_TTL_MS
          StaleTicks,   \* DEFAULT_PENDING_STALE_MS
          ReloadLimit,  \* attempts to reconcile a row that exists: 3
          ClaimLimit,   \* bound on the time a claim takes
          RequestLimit  \* bound on the time a request and its writes take

ASSUME NoOneAssumption == NoOne \notin Requests
ASSUME TimingAssumption == /\ TtlTicks \in Nat \ {0}
                           /\ StaleTicks \in Nat \ {0}
ASSUME LimitAssumption == /\ ReloadLimit \in Nat \ {0}
                          /\ ClaimLimit \in Nat
                          /\ RequestLimit \in Nat
ASSUME BodyAssumption == DOMAIN Body = Requests

VARIABLES
  row,      \* the row of the key, or NoRow
  writes,   \* number of writes of the row so far
  pc,       \* what each request waits for
  age,      \* time since the request computed nowIso, up to TtlTicks
  seen,     \* updated_at of the row the request read
  attempt,
  called,   \* requests whose handler was called
  outcome,  \* kind of answer, and whose answer is replayed
  flight    \* writes without an answer that may still be executed

vars == <<row, writes, pc, age, seen, attempt, called, outcome, flight>>

Row == [body : {Body[r] : r \in Requests},
        status : {"pending", "completed", "recovery_required"},
        response : Requests \cup {NoOne},
        life : 0..TtlTicks, staleIn : 0..StaleTicks, updated : Nat]

ASSUME NoRowAssumption == NoRow \notin Row

Kinds == {"none", "fresh", "replay", "conflict", "in_progress",
          "recovery_required", "denied", "error"}

Claiming == {"insert", "reload", "reset", "recover"}
Writing == {"insert", "reset", "recover", "persist"}
Ended == {"done", "crashed"}

Init == /\ row = NoRow
        /\ writes = 0
        /\ pc = [r \in Requests |-> "idle"]
        /\ age = [r \in Requests |-> 0]
        /\ seen = [r \in Requests |-> 0]
        /\ attempt = [r \in Requests |-> 0]
        /\ called = {}
        /\ outcome = [r \in Requests |-> [kind |-> "none", of |-> NoOne]]
        /\ flight = {}

----------------------------------------------------------------------------
(* Effects of the writes, and whether they find their row *)

\* Mutant: the answer is compared with the row the claim read, if it read one.
FitsPersistSeen(r, k) ==
  CASE k = "insert" -> row = NoRow
    [] k = "reset" -> row # NoRow /\ row.updated = seen[r]
    [] k = "recover" -> /\ row # NoRow
                        /\ row.body = Body[r]
                        /\ row.status = "pending"
                        /\ row.updated = seen[r]
    [] k = "persist" -> row # NoRow /\ row.updated = seen[r]

Fits(r, k) ==
  CASE k = "insert" -> row = NoRow
    [] k = "reset" -> row # NoRow /\ row.updated = seen[r]
    [] k = "recover" -> /\ row # NoRow
                        /\ row.body = Body[r]
                        /\ row.status = "pending"
                        /\ row.updated = seen[r]
    [] k = "persist" -> /\ row # NoRow
                        /\ row.body = Body[r]
                        /\ row.status = "pending"

Left(r) == TtlTicks - age[r]

Youth(r) == IF age[r] >= StaleTicks THEN 0 ELSE StaleTicks - age[r]

\* expires_at is computed when the claim begins, or when the answer is sent off.
Lives(r, k) == IF k = "persist" THEN Left(r)..TtlTicks ELSE {Left(r)}

Written(r, k, life) ==
  CASE k \in {"insert", "reset"} ->
         [body |-> Body[r], status |-> "pending", response |-> NoOne,
          life |-> life, staleIn |-> Youth(r), updated |-> writes + 1]
    [] k = "recover" -> [row EXCEPT !.status = "recovery_required",
                                    !.life = life, !.staleIn = Youth(r),
                                    !.updated = writes + 1]
    [] k = "persist" -> [row EXCEPT !.status = "completed", !.response = r,
                                    !.life = life, !.staleIn = StaleTicks,
                                    !.updated = writes + 1]

Execute(r, k) == IF Fits(r, k)
                   THEN /\ \E life \in Lives(r, k) : row' = Written(r, k, life)
                        /\ writes' = writes + 1
                   ELSE UNCHANGED <<row, writes>>

Goto(r, p) == pc' = [pc EXCEPT ![r] = p]

Answer(r, kind, of) ==
  outcome' = [outcome EXCEPT ![r] = [kind |-> kind, of |-> of]]

----------------------------------------------------------------------------
(* claimDurableIdempotency *)

Begin(r) == /\ pc[r] = "idle"
            /\ Goto(r, "insert")
            /\ UNCHANGED <<row, writes, age, seen, attempt, called, outcome,
                           flight>>

Insert(r) == /\ pc[r] = "insert"
             /\ Execute(r, "insert")
             /\ Goto(r, IF Fits(r, "insert") THEN "policy" ELSE "reload")
             /\ UNCHANGED <<age, seen, attempt, called, outcome, flight>>

\* Mutant: a stale pending row is taken over like an expired one.
VerdictRerunsStale(r) ==
  CASE row.life = 0 -> "reset"
    [] row.life > 0 /\ row.body # Body[r] -> "conflict"
    [] row.life > 0 /\ row.body = Body[r] /\ row.status = "completed" ->
         "replay"
    [] row.life > 0 /\ row.body = Body[r] /\ row.status = "recovery_required" ->
         "recovery_required"
    [] row.life > 0 /\ row.body = Body[r] /\ row.status = "pending" ->
         IF row.staleIn = 0 THEN "reset" ELSE "in_progress"

\* What a request does about the row it has read.
Verdict(r) ==
  CASE row.life = 0 -> "reset"
    [] row.life > 0 /\ row.body # Body[r] -> "conflict"
    [] row.life > 0 /\ row.body = Body[r] /\ row.status = "completed" ->
         "replay"
    [] row.life > 0 /\ row.body = Body[r] /\ row.status = "recovery_required" ->
         "recovery_required"
    [] row.life > 0 /\ row.body = Body[r] /\ row.status = "pending" ->
         IF row.staleIn = 0 THEN "recover" ELSE "in_progress"

Reload(r) == /\ pc[r] = "reload"
             /\ row # NoRow
             /\ seen' = [seen EXCEPT ![r] = row.updated]
             /\ IF Verdict(r) \in {"reset", "recover"}
                  THEN Goto(r, Verdict(r)) /\ UNCHANGED outcome
                  ELSE /\ Goto(r, "done")
                       /\ Answer(r, Verdict(r), IF Verdict(r) = "replay"
                                                  THEN row.response ELSE NoOne)
             /\ UNCHANGED <<row, writes, age, attempt, called, flight>>

\* The row changed since it was read: read it again, or give up with 409.
TryAgain(r) == /\ attempt' = [attempt EXCEPT ![r] = @ + 1]
               /\ IF attempt[r] + 1 < ReloadLimit
                    THEN Goto(r, "reload") /\ UNCHANGED outcome
                    ELSE Goto(r, "done") /\ Answer(r, "error", NoOne)

Reset(r) == /\ pc[r] = "reset"
            /\ Execute(r, "reset")
            /\ IF Fits(r, "reset")
                 THEN Goto(r, "policy") /\ UNCHANGED <<attempt, outcome>>
                 ELSE TryAgain(r)
            /\ UNCHANGED <<age, seen, called, flight>>

Recover(r) == /\ pc[r] = "recover"
              /\ Execute(r, "recover")
              /\ IF Fits(r, "recover")
                   THEN /\ Goto(r, "done")
                        /\ Answer(r, "recovery_required", NoOne)
                        /\ UNCHANGED attempt
                   ELSE TryAgain(r)
              /\ UNCHANGED <<age, seen, called, flight>>

----------------------------------------------------------------------------
(* withTenantContext, once the key is claimed *)

\* policyEval; a denial, or an error in it, leaves the idempotency row alone.
PolicyAllows(r) == /\ pc[r] = "policy"
                   /\ Goto(r, "handle")
                   /\ called' = called \cup {r}
                   /\ UNCHANGED <<row, writes, age, seen, attempt, outcome,
                                  flight>>

PolicyDenies(r) == /\ pc[r] = "policy"
                   /\ Goto(r, "done")
                   /\ Answer(r, "denied", NoOne)
                   /\ UNCHANGED <<row, writes, age, seen, attempt, called,
                                  flight>>

\* The handler returns an answer below 500.
HandlerAnswers(r) == /\ pc[r] = "handle"
                     /\ Goto(r, "persist")
                     /\ UNCHANGED <<row, writes, age, seen, attempt, called,
                                    outcome, flight>>

\* It throws, a 4xx ProblemError too, or answers 500: nothing is recorded.
HandlerFails(r) == /\ pc[r] = "handle"
                   /\ Goto(r, "done")
                   /\ Answer(r, "error", NoOne)
                   /\ UNCHANGED <<row, writes, age, seen, attempt, called,
                                  flight>>

\* Whether the update has found a row is not looked at.
Persist(r) == /\ pc[r] = "persist"
              /\ Execute(r, "persist")
              /\ Goto(r, "done")
              /\ Answer(r, "fresh", r)
              /\ UNCHANGED <<age, seen, attempt, called, flight>>

----------------------------------------------------------------------------
(* Failures *)

Abandon(r) == \/ UNCHANGED flight
              \/ pc[r] \in Writing /\ flight' = flight \cup {<<r, pc[r]>>}

\* A request to the database ends in an error: 503.
Fail(r) == /\ pc[r] \in Writing \cup {"reload"}
           /\ Goto(r, "done")
           /\ Answer(r, "error", NoOne)
           /\ Abandon(r)
           /\ UNCHANGED <<row, writes, age, seen, attempt, called>>

Crash(r) == /\ pc[r] \notin {"idle"} \cup Ended
            /\ Goto(r, "crashed")
            /\ Abandon(r)
            /\ UNCHANGED <<row, writes, age, seen, attempt, called, outcome>>

\* The database executes a write whose sender has given up.
Late(r, k) == /\ <<r, k>> \in flight
              /\ flight' = flight \ {<<r, k>>}
              /\ Execute(r, k)
              /\ UNCHANGED <<pc, age, seen, attempt, called, outcome>>

RunDown(t) == IF t = 0 THEN 0 ELSE t - 1

\* A request is at one of the points ps, or a write from there may still come.
Busy(r, ps) == pc[r] \in ps \/ \E k \in ps : <<r, k>> \in flight

Points == Claiming \cup {"policy", "handle", "persist"}

InTime(r) == /\ Busy(r, Claiming) => age[r] < ClaimLimit
             /\ Busy(r, Points) => age[r] < RequestLimit

Tick == /\ \A r \in Requests : InTime(r)
        /\ row' = IF row = NoRow THEN NoRow
                  ELSE [row EXCEPT !.life = RunDown(@), !.staleIn = RunDown(@)]
        /\ age' = [r \in Requests |->
                     IF pc[r] # "idle" /\ age[r] < TtlTicks THEN age[r] + 1
                                                            ELSE age[r]]
        /\ UNCHANGED <<writes, pc, seen, attempt, called, outcome, flight>>

----------------------------------------------------------------------------

Step(r) == \/ Insert(r) \/ Reload(r) \/ Reset(r) \/ Recover(r)
           \/ PolicyAllows(r) \/ PolicyDenies(r)
           \/ HandlerAnswers(r) \/ HandlerFails(r) \/ Persist(r)

Next == \/ \E r \in Requests : Begin(r) \/ Step(r) \/ Fail(r) \/ Crash(r)
        \/ \E r \in Requests, k \in Writing : Late(r, k)
        \/ Tick

Spec == Init /\ [][Next]_vars

----------------------------------------------------------------------------
(* Properties *)

TypeOK == /\ row \in Row \cup {NoRow}
          /\ writes \in Nat
          /\ pc \in [Requests -> {"idle", "reload", "policy", "handle"}
                                   \cup Writing \cup Ended]
          /\ age \in [Requests -> 0..TtlTicks]
          /\ seen \in [Requests -> Nat]
          /\ attempt \in [Requests -> 0..ReloadLimit]
          /\ called \subseteq Requests
          /\ outcome \in [Requests -> [kind : Kinds,
                                       of : Requests \cup {NoOne}]]
          /\ flight \subseteq Requests \X Writing

\* Of the requests with one key that arrived within a time to live, at most one
\* gets to its handler: a duplicate in flight, a retry after a crash between the
\* change and its record, or a different body with the key never runs as well.
OneRunPerWindow == \A r, s \in Requests :
   {r, s} \subseteq called /\ age[r] < TtlTicks /\ age[s] < TtlTicks => r = s

\* A replayed answer is that of a request with the same body whose handler was
\* called.
ReplayIsOfSameRequest == \A r \in Requests : outcome[r].kind = "replay" =>
   outcome[r].of \in called /\ Body[outcome[r].of] = Body[r]

\* What holds of a key in every state: its types, one run in a time to live, and
\* replays of the same request only.
KeyInvariant == TypeOK /\ OneRunPerWindow /\ ReplayIsOfSameRequest

\* s reads the row while the answer to r, with the same body, is alive, and is
\* given an answer or turned away.
AskedAgain(r, s) == /\ outcome[r].kind = "fresh" /\ age[r] < TtlTicks
                    /\ Body[s] = Body[r]
                    /\ pc[s] = "reload" /\ outcome'[s].kind \notin {"none", "error"}

\* Once a request was answered, requests with the key and the same body that
\* read the row while the answer is alive get that answer again.
AnsweredIsReplayed == [][\A r, s \in Requests :
   AskedAgain(r, s) => outcome'[s] = [kind |-> "replay", of |-> r]]_vars

\* The same for a row that no other request has taken for that of a dead one:
\* what a client was told is recorded, or the row says that it needs recovery.
AnsweredOrInRecovery == \A r, s \in Requests :
   AskedAgain(r, s) /\ row.status # "recovery_required"
     => outcome'[s] = [kind |-> "replay", of |-> r]

\* A recorded answer is not replaced by a late write before it expires.
RecordedAnswerStays ==
   row # NoRow /\ row.status = "completed" /\ row.life > 0
     => row'.status = "completed" /\ row'.response = row.response

\* What no step does to an answer: lose it before it expires, or give another
\* one to the same request.
AnswersStay == [][AnsweredOrInRecovery /\ RecordedAnswerStays]_vars
=============================================================================
