---------------------------- MODULE RateLimiter ----------------------------
(***************************************************************************)
(* The token bucket of one tenant, actor and route.  In a production-like  *)
(* deployment it is a row of rate_limit_buckets that requests of all       *)
(* processes read and write back under a revision (consumeDurable-         *)
(* RateLimit); otherwise it is an entry of a map in the process, changed   *)
(* in one turn (consumeMemoryTokenBucket).                                 *)
(*                                                                         *)
(* A request takes the time once, before its first read, and keeps it      *)
(* through its retries.  Tokens are counted in a unit that makes cost and  *)
(* refill whole numbers; the clocks of the processes agree.                *)
(***************************************************************************)
EXTENDS Integers, FiniteSets

CONSTANTS Requests,
          NoBucket,
          Capacity, Rate, Cost,
          TryLimit,    \* attempts of consumeDurableRateLimit: 5
          MaxTime      \* bound on the clock

ASSUME AmountsAssumption == /\ Capacity \in Nat /\ Rate \in Nat
                            /\ Cost \in Nat \ {0}
ASSUME LimitsAssumption == TryLimit \in Nat \ {0} /\ MaxTime \in Nat
ASSUME RequestsAssumption == IsFiniteSet(Requests)
ASSUME NoBucketAssumption ==
  NoBucket \notin [tokens : Nat, last : Nat, revision : Nat]

VARIABLES
  shared,    \* production-like deployment
  bucket,    \* tokens, last_refill_ms and revision, or NoBucket
  time,
  pc,
  now,       \* the time the request took
  read,      \* the bucket the request read
  attempt,
  granted,   \* requests that were let through
  credited,  \* tokens added by all refills so far
  backdated  \* some write has set last_refill_ms back

vars == <<shared, bucket, time, pc, now, read, attempt, granted, credited,
          backdated>>

Bucket == [tokens : 0..Capacity, last : 0..MaxTime, revision : Nat]

Full(t) == [tokens |-> Capacity, last |-> t, revision |-> 0]

Init == /\ shared \in BOOLEAN
        /\ bucket = NoBucket
        /\ time = 0
        /\ pc = [r \in Requests |-> "idle"]
        /\ now = [r \in Requests |-> 0]
        /\ read = [r \in Requests |-> NoBucket]
        /\ attempt = [r \in Requests |-> 0]
        /\ granted = {}
        /\ credited = 0
        /\ backdated = FALSE

----------------------------------------------------------------------------

Smaller(a, b) == IF a < b THEN a ELSE b

\* The tokens of b at time t; a bucket from a later time gets nothing.
Refilled(b, t) ==
  Smaller(Capacity, b.tokens + Rate * (IF t > b.last THEN t - b.last ELSE 0))

Enough(b, t) == Refilled(b, t) >= Cost

\* The bucket that a request arriving at t leaves, whether or not it gets in.
Consumed(b, t) ==
  [tokens |-> IF Enough(b, t) THEN Refilled(b, t) - Cost ELSE Refilled(b, t),
   last |-> t, revision |-> b.revision + 1]

\* What a request sees: a missing bucket counts as full.
Seen(r, b) == IF b = NoBucket THEN Full(now[r]) ELSE b

Goto(r, p) == pc' = [pc EXCEPT ![r] = p]

\* The write of r, which has seen b, takes effect.
Apply(r, b) == /\ bucket' = Consumed(b, now[r])
               /\ credited' = credited + Refilled(b, now[r]) - b.tokens
               /\ backdated' = (backdated \/ now[r] < b.last)

----------------------------------------------------------------------------
(* consumeDurableRateLimit *)

Begin(r) == /\ shared /\ pc[r] = "idle"
            /\ now' = [now EXCEPT ![r] = time]
            /\ Goto(r, "read")
            /\ UNCHANGED <<shared, bucket, time, read, attempt, granted,
                           credited, backdated>>

Read(r) == /\ pc[r] = "read"
           /\ read' = [read EXCEPT ![r] = bucket]
           /\ Goto(r, "write")
           /\ UNCHANGED <<shared, bucket, time, now, attempt, granted, credited,
                          backdated>>

\* Mutant: the update names the key only.
UnmovedAlways(r) == read[r] = NoBucket => bucket = NoBucket

\* insert of the first bucket, or update where the revision is the one read
Unmoved(r) == IF read[r] = NoBucket THEN bucket = NoBucket
              ELSE bucket.revision = read[r].revision

Write(r) == /\ pc[r] = "write"
            /\ Unmoved(r)
            /\ Apply(r, Seen(r, read[r]))
            /\ Goto(r, "done")
            /\ granted' = IF Enough(Seen(r, read[r]), now[r])
                            THEN granted \cup {r} ELSE granted
            /\ UNCHANGED <<shared, time, now, read, attempt>>

\* Another request was faster: read again, or 409 when the attempts are used up.
Conflict(r) == /\ pc[r] = "write"
               /\ ~Unmoved(r)
               /\ attempt' = [attempt EXCEPT ![r] = @ + 1]
               /\ Goto(r, IF attempt[r] + 1 < TryLimit THEN "read" ELSE "done")
               /\ UNCHANGED <<shared, bucket, time, now, read, granted, credited,
                              backdated>>

\* 503; the tokens may be gone all the same.
Fail(r) == /\ pc[r] \in {"read", "write"}
           /\ \/ UNCHANGED <<bucket, credited, backdated>>
              \/ pc[r] = "write" /\ Unmoved(r) /\ Apply(r, Seen(r, read[r]))
           /\ Goto(r, "done")
           /\ UNCHANGED <<shared, time, now, read, attempt, granted>>

----------------------------------------------------------------------------
(* consumeMemoryTokenBucket *)

ConsumeMemoryTokenBucket(r) ==
  LET b == IF bucket = NoBucket THEN Full(time) ELSE bucket IN
  /\ ~shared /\ pc[r] = "idle"
  /\ bucket' = [Consumed(b, time) EXCEPT !.revision = 0]
  /\ credited' = credited + Refilled(b, time) - b.tokens
  /\ granted' = IF Enough(b, time) THEN granted \cup {r} ELSE granted
  /\ Goto(r, "done")
  /\ UNCHANGED <<shared, time, now, read, attempt, backdated>>

----------------------------------------------------------------------------

\* The clock stops at MaxTime.
Tick == /\ time' = IF time < MaxTime THEN time + 1 ELSE time
        /\ UNCHANGED <<shared, bucket, pc, now, read, attempt, granted, credited,
                       backdated>>

Next == \/ \E r \in Requests : \/ Begin(r) \/ Read(r) \/ Write(r)
                               \/ Conflict(r) \/ Fail(r)
                               \/ ConsumeMemoryTokenBucket(r)
        \/ Tick

Spec == Init /\ [][Next]_vars

----------------------------------------------------------------------------
(* Properties *)

TypeOK == /\ shared \in BOOLEAN
          /\ backdated \in BOOLEAN
          /\ bucket \in Bucket \cup {NoBucket}
          /\ time \in 0..MaxTime
          /\ pc \in [Requests -> {"idle", "read", "write", "done"}]
          /\ now \in [Requests -> 0..MaxTime]
          /\ read \in [Requests -> Bucket \cup {NoBucket}]
          /\ attempt \in [Requests -> 0..TryLimit]
          /\ granted \subseteq Requests
          /\ credited \in Nat

Spent == Cost * Cardinality(granted)

\* Concurrent requests never share a token: what was granted and what is left
\* is no more than a full bucket and the refills that were written.
GrantedIsPaid ==
  Spent + (IF bucket = NoBucket THEN Capacity ELSE bucket.tokens)
    <= Capacity + credited

\* The limit itself: up to any time no more is granted than a full bucket and
\* the refill rate allow, until a request that took the time long before its
\* write sets last_refill_ms back.  In one process that never happens.
WithinRate == ~backdated => Spent <= Capacity + Rate * time

\* What holds of a bucket in every state: its types, no token spent twice, and
\* the limit up to any time.
RateInvariant == TypeOK /\ GrantedIsPaid /\ WithinRate
=============================================================================
