---------------------------- MODULE LimitProofs -----------------------------
(***************************************************************************)
(* Proofs about what limits callers: RateLimiter of the request gateway,   *)
(* McpRateLimit and BudgetCheckers of the AI package, each in a part of    *)
(* its own.                                                                *)
(***************************************************************************)
EXTENDS RateLimiter, McpRateLimit, BudgetCheckers, FiniteSetTheorems, TLAPS

-----------------------------------------------------------------------------
\* RateLimiter
(***************************************************************************)
(* For any number of requests, capacity, rate and cost: concurrent         *)
(* requests never share a token, and the rate is kept until a slow request *)
(* sets last_refill_ms back.                                               *)
(*                                                                         *)
(* A write goes through only if the revision is still the one that was     *)
(* read.  The invariant Fresh says that the whole bucket is then the one   *)
(* that was read, so that the tokens taken are there; GrantedIsPaid is     *)
(* inductive with it.                                                      *)
(***************************************************************************)

\* What a request has read is the bucket or an older one.
Fresh == \A r \in Requests : read[r] # NoBucket =>
            /\ bucket # NoBucket
            /\ read[r].revision <= bucket.revision
            /\ read[r].revision = bucket.revision => read[r] = bucket

\* In one process nothing is read ahead.
Local == ~shared => \A r \in Requests : /\ read[r] = NoBucket
                                        /\ pc[r] \in {"idle", "done"}

\* A request that has not ended has an attempt left.
Trying == \A r \in Requests : pc[r] # "done" => attempt[r] < TryLimit

\* Only a request that has ended was let through.
OnlyEndedGranted == \A r \in granted : pc[r] = "done"

Paid == TypeOK /\ Fresh /\ Local /\ Trying /\ OnlyEndedGranted /\ GrantedIsPaid

----------------------------------------------------------------------------
(* The bucket arithmetic *)

LEMMA BucketIsNoNoBucket == NoBucket \notin Bucket
  BY NoBucketAssumption, AmountsAssumption, LimitsAssumption DEF Bucket

LEMMA RateTimes ==
  ASSUME NEW a \in Nat, NEW b \in Nat
  PROVE  /\ Rate * a \in Nat
         /\ a <= b => Rate * a + Rate * (b - a) = Rate * b
         /\ a <= b => Rate * a <= Rate * b
  BY AmountsAssumption, Z3

LEMMA RefilledBounds ==
  ASSUME NEW b \in Bucket, NEW t \in 0..MaxTime
  PROVE  /\ Refilled(b, t) \in b.tokens..Capacity
         /\ b.last <= t => Refilled(b, t) <= b.tokens + Rate * (t - b.last)
         /\ t <= b.last => Refilled(b, t) = b.tokens
  <1> DEFINE d == IF t > b.last THEN t - b.last ELSE 0
  <1>1. /\ d \in Nat /\ t \in Nat /\ b.last \in Nat
        /\ b.tokens \in Nat /\ b.tokens <= Capacity /\ Capacity \in Nat
    BY AmountsAssumption, LimitsAssumption DEF Bucket
  <1>2. Rate * d \in Nat
    BY <1>1, RateTimes
  <1>3. Refilled(b, t) = Smaller(Capacity, b.tokens + Rate * d)
    BY DEF Refilled
  <1>4. b.last <= t => d = t - b.last
    BY <1>1
  <1>5. t <= b.last => Rate * d = 0
    BY <1>1, AmountsAssumption
  <1> HIDE DEF d
  <1> QED
    BY <1>1, <1>2, <1>3, <1>4, <1>5 DEF Smaller

\* A bucket stays a bucket, and the tokens taken from it were in it.
LEMMA ConsumedBounds ==
  ASSUME NEW b \in Bucket, NEW t \in 0..MaxTime
  PROVE  /\ Consumed(b, t) \in Bucket
         /\ Consumed(b, t).revision = b.revision + 1
         /\ Consumed(b, t).last = t
         /\ Enough(b, t) => Consumed(b, t).tokens = Refilled(b, t) - Cost
         /\ ~Enough(b, t) => Consumed(b, t).tokens = Refilled(b, t)
  <1>1. Refilled(b, t) \in 0..Capacity /\ b.revision \in Nat
    BY RefilledBounds, AmountsAssumption DEF Bucket
  <1> QED
    BY <1>1, AmountsAssumption DEF Consumed, Enough, Bucket

LEMMA FullIsBucket ==
  ASSUME NEW t \in 0..MaxTime
  PROVE  Full(t) \in Bucket /\ Full(t).tokens = Capacity /\ Full(t).revision = 0
         /\ Full(t).last = t
  BY AmountsAssumption DEF Full, Bucket

\* One more request let through costs one Cost more.
LEMMA SpentMore ==
  ASSUME TypeOK, NEW r \in Requests, r \notin granted
  PROVE  /\ Cost * Cardinality(granted) \in Nat
         /\ Cost * Cardinality(granted \cup {r})
              = Cost * Cardinality(granted) + Cost
  <1>1. IsFiniteSet(granted)
    BY RequestsAssumption, FS_Subset DEF TypeOK
  <1>2. Cardinality(granted) \in Nat
    BY <1>1, FS_CardinalityType
  <1>3. Cardinality(granted \cup {r}) = Cardinality(granted) + 1
    BY <1>1, FS_AddElement
  <1>4. \A n \in Nat : Cost * n \in Nat /\ Cost * (n + 1) = Cost * n + Cost
    BY AmountsAssumption
  <1> QED
    BY <1>2, <1>3, <1>4

\* The write of a request that has seen b, the bucket or in its absence a full
\* one, keeps the account.
LEMMA Payment ==
  ASSUME TypeOK, GrantedIsPaid,
         NEW r \in Requests, r \notin granted,
         NEW b \in Bucket, NEW t \in 0..MaxTime,
         b = bucket \/ (bucket = NoBucket /\ b.tokens = Capacity),
         bucket' \in Bucket, bucket'.tokens = Consumed(b, t).tokens,
         credited' = credited + Refilled(b, t) - b.tokens,
         \/ granted' = granted
         \/ Enough(b, t) /\ granted' = granted \cup {r}
  PROVE  GrantedIsPaid' /\ credited' \in Nat
  <1> DEFINE left == IF bucket = NoBucket THEN Capacity ELSE bucket.tokens
             spent == Cost * Cardinality(granted)
  <1>1. left = b.tokens /\ b # NoBucket
    BY BucketIsNoNoBucket
  <1>2. /\ spent \in Nat
        /\ Cost * Cardinality(granted \cup {r}) = spent + Cost
    BY SpentMore
  <1>3. spent + b.tokens <= Capacity + credited
    BY <1>1 DEF GrantedIsPaid, Spent
  <1>4. /\ Refilled(b, t) \in Nat /\ b.tokens \in Nat /\ b.tokens <= Refilled(b, t)
        /\ credited \in Nat /\ Cost \in Nat /\ Capacity \in Nat
    BY RefilledBounds, AmountsAssumption DEF TypeOK, Bucket
  <1>5. /\ Enough(b, t) => bucket'.tokens = Refilled(b, t) - Cost
        /\ ~Enough(b, t) => bucket'.tokens = Refilled(b, t)
    BY ConsumedBounds
  <1>6. credited' \in Nat
    BY <1>4
  <1>7. bucket' # NoBucket
    BY BucketIsNoNoBucket
  <1>8. Spent' + bucket'.tokens <= Capacity + credited'
    <2>1. CASE granted' = granted
      <3>1. Spent' = spent
        BY <2>1 DEF Spent
      <3>2. bucket'.tokens <= Refilled(b, t) /\ bucket'.tokens \in Int
        BY <1>4, <1>5
      <3> HIDE DEF spent
      <3> QED
        BY <3>1, <3>2, <1>2, <1>3, <1>4
    <2>2. CASE Enough(b, t) /\ granted' = granted \cup {r}
      <3>1. Spent' = spent + Cost
        BY <2>2, <1>2 DEF Spent
      <3>2. bucket'.tokens = Refilled(b, t) - Cost
        BY <2>2, <1>5
      <3> HIDE DEF spent
      <3> QED
        BY <3>1, <3>2, <1>2, <1>3, <1>4
    <2> QED
      BY <2>1, <2>2
  <1> QED
    BY <1>6, <1>7, <1>8 DEF GrantedIsPaid

----------------------------------------------------------------------------
(* Each step keeps the account *)

LEMMA PaidInit == Init => Paid
  <1> SUFFICES ASSUME Init PROVE Paid
    OBVIOUS
  <1>1. Cardinality(granted) = 0
    BY FS_EmptySet DEF Init
  <1>2. TypeOK
    <2>1. shared \in BOOLEAN /\ backdated \in BOOLEAN
      BY Zenon DEF Init
    <2>2. /\ time \in 0..MaxTime /\ credited \in Nat
          /\ now \in [Requests -> 0..MaxTime]
          /\ attempt \in [Requests -> 0..TryLimit]
      BY LimitsAssumption DEF Init
    <2>3. /\ bucket \in Bucket \cup {NoBucket} /\ granted \subseteq Requests
          /\ read \in [Requests -> Bucket \cup {NoBucket}]
          /\ pc \in [Requests -> {"idle", "read", "write", "done"}]
      BY DEF Init
    <2> QED
      BY <2>1, <2>2, <2>3, Zenon DEF TypeOK
  <1>3. GrantedIsPaid
    BY <1>1, AmountsAssumption DEF Init, GrantedIsPaid, Spent
  <1> QED
    BY <1>2, <1>3, LimitsAssumption DEF Init, Paid, Fresh, Local, Trying, OnlyEndedGranted

\* What a write sees is the bucket itself, or a full one where there is none.
LEMMA WriteSees ==
  ASSUME Paid, NEW r \in Requests, Unmoved(r)
  PROVE  LET b == Seen(r, read[r]) IN
         /\ b \in Bucket
         /\ b = bucket \/ (bucket = NoBucket /\ b.tokens = Capacity)
         /\ bucket # NoBucket => b.revision = bucket.revision
  <1>1. CASE read[r] = NoBucket
    BY <1>1, FullIsBucket DEF Paid, TypeOK, Unmoved, Seen
  <1>2. CASE read[r] # NoBucket
    <2>1. read[r] = bucket /\ bucket # NoBucket
      BY <1>2 DEF Paid, Fresh, Unmoved
    <2> QED
      BY <1>2, <2>1 DEF Paid, TypeOK, Seen
  <1> QED
    BY <1>1, <1>2

\* A write by a shared request, answered or not.
LEMMA ApplyKeeps ==
  ASSUME Paid, NEW r \in Requests, pc[r] = "write", Unmoved(r),
         Apply(r, Seen(r, read[r])), pc' = [pc EXCEPT ![r] = "done"],
         UNCHANGED <<shared, time, now, read, attempt>>,
         \/ granted' = granted
         \/ Enough(Seen(r, read[r]), now[r]) /\ granted' = granted \cup {r}
  PROVE  Paid'
  <1> DEFINE b == Seen(r, read[r])
  <1>1. /\ b \in Bucket
        /\ b = bucket \/ (bucket = NoBucket /\ b.tokens = Capacity)
        /\ bucket # NoBucket => b.revision = bucket.revision
    BY WriteSees
  <1>2. now[r] \in 0..MaxTime /\ r \notin granted /\ shared
    BY DEF Paid, TypeOK, OnlyEndedGranted, Local
  <1>3. /\ bucket' = Consumed(b, now[r])
        /\ credited' = credited + Refilled(b, now[r]) - b.tokens
        /\ backdated' \in BOOLEAN
    BY DEF Apply
  <1> HIDE DEF b
  <1>4. bucket' \in Bucket /\ bucket'.revision = b.revision + 1
    BY <1>1, <1>2, <1>3, ConsumedBounds
  <1>5. \/ granted' = granted
        \/ Enough(b, now[r]) /\ granted' = granted \cup {r}
    BY DEF b
  <1>6. GrantedIsPaid' /\ credited' \in Nat
    BY <1>1, <1>2, <1>3, <1>4, <1>5, Payment DEF Paid
  <1>7. TypeOK'
    BY <1>3, <1>4, <1>5, <1>6 DEF Paid, TypeOK
  <1>8. Fresh'
    <2> SUFFICES ASSUME NEW q \in Requests, read[q] # NoBucket
                 PROVE  /\ bucket' # NoBucket
                        /\ read[q].revision <= bucket'.revision
                        /\ read[q].revision # bucket'.revision
      BY DEF Fresh
    <2>1. bucket # NoBucket /\ read[q].revision <= bucket.revision
      BY DEF Paid, Fresh
    <2>2. read[q].revision \in Nat /\ bucket.revision \in Nat
      BY <2>1 DEF Paid, TypeOK, Bucket
    <2> QED
      BY <1>1, <1>4, <2>1, <2>2, BucketIsNoNoBucket
  <1>9. Local' /\ Trying' /\ OnlyEndedGranted'
    BY <1>2, <1>5 DEF Paid, TypeOK, Local, Trying, OnlyEndedGranted
  <1> QED
    BY <1>6, <1>7, <1>8, <1>9 DEF Paid

LEMMA ReadKeeps ==
  ASSUME Paid, NEW r \in Requests, Read(r)
  PROVE  Paid'
  <1>1. shared
    BY DEF Read, Paid, Local
  <1>2. TypeOK' /\ Trying' /\ OnlyEndedGranted' /\ Local'
    BY <1>1 DEF Read, Goto, Paid, TypeOK, Trying, OnlyEndedGranted, Local
  <1>3. Fresh'
    <2> SUFFICES ASSUME NEW q \in Requests, read'[q] # NoBucket
                 PROVE  /\ bucket' # NoBucket
                        /\ read'[q].revision <= bucket'.revision
                        /\ read'[q].revision = bucket'.revision => read'[q] = bucket'
      BY DEF Fresh
    <2>1. CASE q = r
      <3>1. read'[q] = bucket /\ bucket' = bucket
        BY <2>1 DEF Read, Paid, TypeOK
      <3>2. bucket.revision \in Nat
        BY <3>1 DEF Paid, TypeOK, Bucket
      <3> QED
        BY <3>1, <3>2
    <2>2. CASE q # r
      BY <2>2 DEF Read, Paid, TypeOK, Fresh
    <2> QED
      BY <2>1, <2>2
  <1>4. GrantedIsPaid'
    BY DEF Read, Paid, GrantedIsPaid, Spent
  <1> QED
    BY <1>2, <1>3, <1>4 DEF Paid

LEMMA ConsumeMemoryKeeps ==
  ASSUME Paid, NEW r \in Requests, ConsumeMemoryTokenBucket(r)
  PROVE  Paid'
  <1> DEFINE b == IF bucket = NoBucket THEN Full(time) ELSE bucket
             rest == Consumed(b, time)
  <1>1. /\ b \in Bucket /\ time \in 0..MaxTime
        /\ b = bucket \/ (bucket = NoBucket /\ b.tokens = Capacity)
    BY FullIsBucket DEF Paid, TypeOK
  <1>2. /\ bucket' = [rest EXCEPT !.revision = 0]
        /\ credited' = credited + Refilled(b, time) - b.tokens
        /\ granted' = IF Enough(b, time) THEN granted \cup {r} ELSE granted
        /\ ~shared /\ pc[r] = "idle" /\ pc' = [pc EXCEPT ![r] = "done"]
        /\ UNCHANGED <<shared, time, now, read, attempt, backdated>>
    BY DEF ConsumeMemoryTokenBucket, Goto
  <1>3. rest \in Bucket
    BY <1>1, ConsumedBounds
  <1>4. bucket' \in Bucket /\ bucket'.tokens = rest.tokens
    BY <1>2, <1>3 DEF Bucket
  <1>5. r \notin granted
    BY <1>2 DEF Paid, OnlyEndedGranted
  <1> HIDE DEF b
  <1>6. \/ granted' = granted
        \/ Enough(b, time) /\ granted' = granted \cup {r}
    BY <1>2
  <1>7. GrantedIsPaid' /\ credited' \in Nat
    BY <1>1, <1>2, <1>4, <1>5, <1>6, Payment DEF Paid
  <1> HIDE DEF rest
  <1>8. TypeOK'
    BY <1>2, <1>4, <1>6, <1>7 DEF Paid, TypeOK
  <1>9. Fresh' /\ Local' /\ Trying' /\ OnlyEndedGranted'
    BY <1>2, <1>6 DEF Paid, TypeOK, Fresh, Local, Trying, OnlyEndedGranted
  <1> QED
    BY <1>7, <1>8, <1>9 DEF Paid

LEMMA PaidStep == Paid /\ [Next]_vars => Paid'
  <1> SUFFICES ASSUME Paid, [Next]_vars PROVE Paid'
    OBVIOUS
  <1>1. ASSUME NEW r \in Requests, Begin(r) PROVE Paid'
    <2>1. TypeOK' /\ Fresh' /\ Local' /\ Trying' /\ OnlyEndedGranted'
      BY <1>1 DEF Begin, Goto, Paid, TypeOK, Fresh, Local, Trying, OnlyEndedGranted
    <2> QED
      BY <1>1, <2>1 DEF Begin, Paid, GrantedIsPaid, Spent
  <1>2. ASSUME NEW r \in Requests, Write(r) PROVE Paid'
    <2>1. \/ granted' = granted
          \/ Enough(Seen(r, read[r]), now[r]) /\ granted' = granted \cup {r}
      BY <1>2 DEF Write
    <2> QED
      BY <1>2, <2>1, ApplyKeeps DEF Write, Goto
  <1>3. ASSUME NEW r \in Requests, Conflict(r) PROVE Paid'
    <2>1. attempt[r] \in Nat /\ attempt[r] < TryLimit
      BY <1>3 DEF Conflict, Paid, TypeOK, Trying
    <2>2. TypeOK' /\ Trying'
      BY <1>3, <2>1, LimitsAssumption
      DEF Conflict, Goto, Paid, TypeOK, Trying
    <2>3. shared
      BY <1>3 DEF Conflict, Paid, Local
    <2>4. Fresh' /\ Local' /\ OnlyEndedGranted'
      BY <1>3, <2>3 DEF Conflict, Goto, Paid, TypeOK, Fresh, Local, OnlyEndedGranted
    <2> QED
      BY <1>3, <2>2, <2>4 DEF Conflict, Paid, GrantedIsPaid, Spent
  <1>4. ASSUME NEW r \in Requests, Fail(r) PROVE Paid'
    <2>1. CASE UNCHANGED <<bucket, credited, backdated>>
      <3>1. TypeOK' /\ Fresh' /\ Local' /\ Trying' /\ OnlyEndedGranted'
        BY <1>4, <2>1
        DEF Fail, Goto, Paid, TypeOK, Fresh, Local, Trying, OnlyEndedGranted
      <3> QED
        BY <1>4, <2>1, <3>1 DEF Fail, Paid, GrantedIsPaid, Spent
    <2>2. CASE pc[r] = "write" /\ Unmoved(r) /\ Apply(r, Seen(r, read[r]))
      BY <1>4, <2>2, ApplyKeeps DEF Fail, Goto
    <2> QED
      BY <1>4, <2>1, <2>2 DEF Fail
  <1>5. CASE Tick
    <2>1. TypeOK' /\ Fresh' /\ Local' /\ Trying' /\ OnlyEndedGranted'
      BY <1>5, LimitsAssumption
      DEF Tick, Paid, TypeOK, Fresh, Local, Trying, OnlyEndedGranted
    <2> QED
      BY <1>5, <2>1 DEF Tick, Paid, GrantedIsPaid, Spent
  <1>6. CASE UNCHANGED vars
    <2>1. TypeOK' /\ Fresh' /\ Local' /\ Trying' /\ OnlyEndedGranted'
      BY <1>6 DEF vars, Paid, TypeOK, Fresh, Local, Trying, OnlyEndedGranted
    <2> QED
      BY <1>6, <2>1 DEF vars, Paid, GrantedIsPaid, Spent
  <1> QED
    BY <1>1, <1>2, <1>3, <1>4, <1>5, <1>6, ReadKeeps, ConsumeMemoryKeeps
    DEF Next

\* Type correctness, for any number of requests and any capacity and rate.
THEOREM TypeCorrect == Spec => []TypeOK
  <1>1. Paid => TypeOK
    BY DEF Paid
  <1> QED
    BY <1>1, PaidInit, PaidStep, PTL DEF Spec

\* Concurrent requests never share a token of the shared bucket, however their
\* reads, writes, conflicts and failures are interleaved (consumeDurableRateLimit
\* writes under the revision it has read).
THEOREM NoSharedToken == Spec => []GrantedIsPaid
  <1>1. Paid => GrantedIsPaid
    BY DEF Paid
  <1> QED
    BY <1>1, PaidInit, PaidStep, PTL DEF Spec

----------------------------------------------------------------------------
(* The rate *)

\* Tokens were added for the time until the last refill and no longer, unless
\* the time of the last refill was set back.
Credit == ~backdated =>
            credited <= Rate * (IF bucket = NoBucket THEN 0 ELSE bucket.last)

\* Nothing is from the future.
Past == /\ \A r \in Requests : now[r] <= time
        /\ bucket # NoBucket => bucket.last <= time

\* A request that sees b and took the time t keeps the account of the refills.
LEMMA CreditKept ==
  ASSUME TypeOK, Credit, NEW b \in Bucket, NEW t \in 0..MaxTime,
         b = bucket \/ (bucket = NoBucket /\ b = Full(t)),
         bucket' \in Bucket, bucket'.last = t,
         ~backdated' => ~backdated /\ ~(t < b.last),
         credited' = credited + Refilled(b, t) - b.tokens
  PROVE  Credit'
  <1> SUFFICES ASSUME ~backdated' PROVE credited' <= Rate * t
    BY BucketIsNoNoBucket DEF Credit
  <1>1. /\ t \in Nat /\ b.last \in Nat
        /\ b.tokens \in Nat /\ credited \in Nat /\ b # NoBucket
    BY LimitsAssumption, AmountsAssumption, BucketIsNoNoBucket DEF TypeOK, Bucket
  <1>2. b.last <= t
    BY <1>1
  <1>3. credited <= Rate * b.last
    <2>1. CASE b = bucket
      BY <1>1, <2>1 DEF Credit
    <2>2. CASE bucket = NoBucket
      <3>1. credited <= Rate * 0
        BY <2>2 DEF Credit
      <3>2. Rate * 0 = 0
        BY AmountsAssumption
      <3>3. Rate * b.last \in Nat
        BY <1>1, RateTimes
      <3> QED
        BY <1>1, <3>1, <3>2, <3>3
    <2> QED
      BY <2>1, <2>2
  <1>4. /\ Refilled(b, t) \in Nat
        /\ Refilled(b, t) <= b.tokens + Rate * (t - b.last)
    BY <1>1, <1>2, RefilledBounds, AmountsAssumption
  <1>5. /\ Rate * b.last + Rate * (t - b.last) = Rate * t
        /\ Rate * b.last \in Nat
    BY <1>1, <1>2, RateTimes
  <1>6. Rate * (t - b.last) \in Nat
    <2>1. t - b.last \in Nat
      BY <1>1, <1>2
    <2> QED
      BY <2>1, RateTimes
  <1> QED
    BY <1>1, <1>3, <1>4, <1>5, <1>6

\* A write of the shared bucket, answered or not.
LEMMA ApplyKeepsCredit ==
  ASSUME Paid, Past, Credit, NEW r \in Requests, pc[r] = "write", Unmoved(r),
         Apply(r, Seen(r, read[r])), UNCHANGED <<time, now>>
  PROVE  Past' /\ Credit'
  <1> DEFINE b == Seen(r, read[r])
             t == now[r]
  <1>1. t \in 0..MaxTime /\ t <= time
    BY DEF Paid, TypeOK, Past
  <1>2. b \in Bucket /\ (b = bucket \/ (bucket = NoBucket /\ b = Full(t)))
    <2>1. CASE read[r] = NoBucket
      BY <1>1, <2>1, FullIsBucket DEF Seen, Unmoved
    <2>2. CASE read[r] # NoBucket
      <3>1. read[r] = bucket
        BY <2>2 DEF Paid, Fresh, Unmoved
      <3> QED
        BY <2>2, <3>1 DEF Paid, TypeOK, Seen
    <2> QED
      BY <2>1, <2>2
  <1>3. /\ bucket' = Consumed(b, t)
        /\ credited' = credited + Refilled(b, t) - b.tokens
        /\ backdated' = (backdated \/ t < b.last)
    BY DEF Apply
  <1> HIDE DEF b, t
  <1>4. bucket' \in Bucket /\ bucket'.last = t
    BY <1>1, <1>2, <1>3, ConsumedBounds
  <1>5. ~backdated' => ~backdated /\ ~(t < b.last)
    BY <1>3, Zenon
  <1>6. Credit'
    BY <1>1, <1>2, <1>3, <1>4, <1>5, CreditKept DEF Paid
  <1> QED
    BY <1>1, <1>4, <1>6 DEF Past

LEMMA CreditInit == Init => Past /\ Credit
  <1> SUFFICES ASSUME Init PROVE Past /\ Credit
    OBVIOUS
  <1>1. Rate * 0 = 0
    BY AmountsAssumption
  <1> QED
    BY <1>1 DEF Init, Past, Credit

LEMMA CreditStep == Paid /\ Past /\ Credit /\ [Next]_vars => Past' /\ Credit'
  <1> SUFFICES ASSUME Paid, Past, Credit, [Next]_vars PROVE Past' /\ Credit'
    OBVIOUS
  <1> USE DEF Past
  <1>1. ASSUME NEW r \in Requests, Begin(r) \/ Read(r) \/ Conflict(r)
        PROVE  Past' /\ Credit'
    <2>1. \A q \in Requests : now'[q] <= time'
      BY <1>1, LimitsAssumption DEF Begin, Read, Conflict, Paid, TypeOK
    <2>2. UNCHANGED <<bucket, time, credited, backdated>>
      BY <1>1 DEF Begin, Read, Conflict
    <2> QED
      BY <2>1, <2>2 DEF Credit
  <1>2. ASSUME NEW r \in Requests, Write(r) PROVE Past' /\ Credit'
    BY <1>2, ApplyKeepsCredit DEF Write
  <1>3. ASSUME NEW r \in Requests, Fail(r) PROVE Past' /\ Credit'
    <2>1. CASE UNCHANGED <<bucket, credited, backdated>>
      BY <1>3, <2>1 DEF Fail, Credit
    <2>2. CASE pc[r] = "write" /\ Unmoved(r) /\ Apply(r, Seen(r, read[r]))
      BY <1>3, <2>2, ApplyKeepsCredit DEF Fail
    <2> QED
      BY <1>3, <2>1, <2>2 DEF Fail
  <1>4. ASSUME NEW r \in Requests, ConsumeMemoryTokenBucket(r)
        PROVE  Past' /\ Credit'
    <2> DEFINE b == IF bucket = NoBucket THEN Full(time) ELSE bucket
               rest == Consumed(b, time)
    <2>1. /\ b \in Bucket /\ time \in 0..MaxTime
          /\ b = bucket \/ (bucket = NoBucket /\ b = Full(time))
      BY FullIsBucket DEF Paid, TypeOK
    <2>2. /\ bucket' = [rest EXCEPT !.revision = 0]
          /\ credited' = credited + Refilled(b, time) - b.tokens
          /\ UNCHANGED <<time, now, backdated>>
      BY <1>4 DEF ConsumeMemoryTokenBucket
    <2>3. rest \in Bucket /\ rest.last = time
      BY <2>1, ConsumedBounds
    <2>4. b.last <= time /\ b.last \in Nat /\ time \in Nat
      BY <2>1, FullIsBucket, LimitsAssumption DEF Bucket
    <2> HIDE DEF b, rest
    <2>5. bucket' \in Bucket /\ bucket'.last = time
      BY <2>2, <2>3 DEF Bucket
    <2>6. ~(time < b.last)
      BY <2>4
    <2>7. ~backdated' => ~backdated /\ ~(time < b.last)
      BY <2>2, <2>6, Zenon
    <2>8. Credit'
      BY <2>1, <2>2, <2>5, <2>7, CreditKept DEF Paid
    <2> QED
      BY <2>2, <2>4, <2>5, <2>8
  <1>5. CASE Tick
    <2>1. time \in Nat /\ time' \in Nat /\ time <= time'
      BY <1>5, LimitsAssumption DEF Tick, Paid, TypeOK
    <2>2. \A q \in Requests : now[q] \in Nat
      BY LimitsAssumption DEF Paid, TypeOK
    <2>3. bucket # NoBucket => bucket.last \in Nat
      BY LimitsAssumption DEF Paid, TypeOK, Bucket
    <2> QED
      BY <1>5, <2>1, <2>2, <2>3 DEF Tick, Credit
  <1>6. CASE UNCHANGED vars
    BY <1>6 DEF vars, Credit
  <1> QED
    BY <1>1, <1>2, <1>3, <1>4, <1>5, <1>6 DEF Next

\* Up to any time no more is let through than a full bucket and the refill rate
\* allow, as long as no slow request of consumeDurableRateLimit sets the time of
\* the last refill back; consumeMemoryTokenBucket never does.
THEOREM RateKept == Spec => []WithinRate
  <1>1. Paid /\ Past /\ Credit => WithinRate
    <2> SUFFICES ASSUME Paid, Past, Credit, ~backdated
                 PROVE  Spent <= Capacity + Rate * time
      BY DEF WithinRate
    <2> DEFINE last == IF bucket = NoBucket THEN 0 ELSE bucket.last
               left == IF bucket = NoBucket THEN Capacity ELSE bucket.tokens
    <2>1. /\ last \in Nat /\ time \in Nat /\ last <= time /\ credited \in Nat
          /\ left \in Nat /\ Capacity \in Nat
      BY LimitsAssumption, AmountsAssumption DEF Paid, TypeOK, Bucket, Past
    <2>2. credited <= Rate * last /\ Spent + left <= Capacity + credited
      BY DEF Paid, GrantedIsPaid, Credit
    <2>3. Rate * last <= Rate * time /\ Rate * last \in Nat /\ Rate * time \in Nat
      BY <2>1, RateTimes
    <2>4. Spent \in Nat
      <3>1. IsFiniteSet(granted)
        BY RequestsAssumption, FS_Subset DEF Paid, TypeOK
      <3>2. Cardinality(granted) \in Nat
        BY <3>1, FS_CardinalityType
      <3>3. \A n \in Nat : Cost * n \in Nat
        BY AmountsAssumption
      <3> QED
        BY <3>2, <3>3 DEF Spent
    <2> HIDE DEF last, left
    <2> QED
      BY <2>1, <2>2, <2>3, <2>4
  <1>2. Paid /\ Past /\ Credit /\ [Next]_vars => Past' /\ Credit'
    BY CreditStep
  <1> QED
    BY <1>1, <1>2, PaidInit, CreditInit, PaidStep, PTL DEF Spec

\* All that the runs check of a bucket, for any capacity, rate, cost and number
\* of requests that read, refill and write it back in any order.
THEOREM RateCorrect == Spec => []RateInvariant
<1>1. TypeOK /\ GrantedIsPaid /\ WithinRate => RateInvariant
  BY DEF RateInvariant
<1> QED BY <1>1, TypeCorrect, NoSharedToken, RateKept, PTL

-----------------------------------------------------------------------------
\* McpRateLimit
(***************************************************************************)
(* Proofs about McpRateLimit, for any limits, window and length of a       *)
(* block.                                                                  *)
(***************************************************************************)

\* The entries of a window that ends at the time now.
Recent(entries, upto) == {e \in entries : e[1] > upto - SlidingWindow}

\* What a bucket knows of the requests it has let through: all that a window
\* ending now can still hold.
Tracks(stamps, let, limit, upto) ==
  /\ let \subseteq McpEntries /\ IsFiniteSet(let) /\ stamps \subseteq let
  /\ Recent(let, upto) \subseteq stamps
  /\ Cardinality(stamps) <= limit

\* Entries are of the past, and those of one time are numbered.
Dated(let, upto) ==
  \A e \in let : /\ e[1] <= upto
                 /\ e[1] = upto => e[2] <= Cardinality(Between(let, upto, upto))

\* Every window that has begun keeps the limit.
WindowsHold(let, limit, upto) ==
  \A t \in 0..upto : Cardinality(Between(let, t, t + SlidingWindow - 1)) <= limit

McpBucket(stamps, let, limit, upto) ==
  Tracks(stamps, let, limit, upto) /\ Dated(let, upto) /\ WindowsHold(let, limit, upto)

\* A block is on record until it is over.
BlockKnown ==
  /\ lastBlock \in -1..tick
  /\ blockedUntil \in 0..(MaxMcpTime + BlockTime)
  /\ lastBlock >= 0 => \/ blockedUntil = lastBlock + BlockTime
                       \/ tick >= lastBlock + BlockTime

\* The inductive invariant of the two limiters.
McpInd ==
  /\ tick \in McpTimes
  /\ McpBucket(tenantStamps, passed, TenantLimit, tick)
  /\ McpBucket(ipStamps, ipPassed, IpLimit, tick)
  /\ BlockKnown /\ BlockLasts

-----------------------------------------------------------------------------
(* One bucket *)

LEMMA McpBetween ==
  ASSUME NEW let, let \subseteq McpEntries, IsFiniteSet(let), NEW a \in Int, NEW b \in Int
  PROVE  /\ Between(let, a, b) \subseteq let /\ IsFiniteSet(Between(let, a, b))
         /\ Cardinality(Between(let, a, b)) \in Nat
  <1>1. Between(let, a, b) \subseteq let
    BY DEF Between
  <1> QED
    BY <1>1, FS_Subset, FS_CardinalityType

LEMMA McpEmpty ==
  ASSUME NEW limit \in Nat, NEW upto \in McpTimes
  PROVE  McpBucket({}, {}, limit, upto)
  <1>1. \A a, b : Between({}, a, b) = {}
    BY DEF Between
  <1>2. Recent({}, upto) = {}
    BY DEF Recent
  <1> QED
    BY <1>1, <1>2, FS_EmptySet DEF McpBucket, Tracks, Dated, WindowsHold

\* Dropping what has left the window loses nothing.
LEMMA McpTrims ==
  ASSUME NEW stamps, NEW let, NEW limit \in Nat, NEW upto \in McpTimes,
         McpBucket(stamps, let, limit, upto)
  PROVE  McpBucket(Recent(stamps, upto), let, limit, upto)
  <1>1. Recent(stamps, upto) \subseteq stamps /\ Recent(let, upto) \subseteq Recent(stamps, upto)
    BY DEF McpBucket, Tracks, Recent
  <1>2. IsFiniteSet(stamps)
    BY FS_Subset DEF McpBucket, Tracks
  <1>3. /\ IsFiniteSet(Recent(stamps, upto))
        /\ Cardinality(Recent(stamps, upto)) <= Cardinality(stamps)
        /\ Cardinality(Recent(stamps, upto)) \in Nat /\ Cardinality(stamps) \in Nat
    BY <1>1, <1>2, FS_Subset, FS_CardinalityType
  <1>4. Tracks(Recent(stamps, upto), let, limit, upto)
    BY <1>1, <1>3 DEF McpBucket, Tracks
  <1> QED
    BY <1>4 DEF McpBucket

\* x is the entry of a request that is let through at the time upto.
IsNext(x, let, upto) == x = <<upto, Cardinality(Between(let, upto, upto)) + 1>>

\* A request that passes a bucket below its limit keeps every window: those that
\* end before now do not see it, and what the others hold is in the bucket.
LEMMA McpLetsThrough ==
  ASSUME NEW stamps, NEW let, NEW limit \in Nat, NEW upto \in McpTimes,
         McpBucket(stamps, let, limit, upto), McpAssumption,
         Recent(stamps, upto) = stamps, Cardinality(stamps) < limit,
         NEW x, IsNext(x, let, upto)
  PROVE  /\ McpBucket(stamps \cup {x}, let \cup {x}, limit, upto)
         /\ IsNext(x, stamps, upto)
  <1>1. /\ let \subseteq McpEntries /\ IsFiniteSet(let) /\ stamps \subseteq let
        /\ Recent(let, upto) \subseteq stamps /\ Recent(let, upto) = stamps
        /\ IsFiniteSet(stamps) /\ Cardinality(stamps) \in Nat
        /\ upto \in Nat /\ SlidingWindow \in Nat /\ SlidingWindow > 0
    <2>1. /\ let \subseteq McpEntries /\ IsFiniteSet(let) /\ stamps \subseteq let
          /\ Recent(let, upto) \subseteq stamps
      BY DEF McpBucket, Tracks
    <2>2. Recent(let, upto) = stamps
      BY <2>1 DEF Recent
    <2> QED
      BY <2>1, <2>2, FS_Subset, FS_CardinalityType DEF McpAssumption, McpTimes
  <1>2. /\ Cardinality(Between(let, upto, upto)) \in Nat
        /\ x \in McpEntries /\ x[1] = upto
        /\ x[2] = Cardinality(Between(let, upto, upto)) + 1
    BY <1>1, McpBetween DEF IsNext, McpEntries, McpTimes
  <1>3. x \notin let
    <2>1. x \in let => x[2] <= Cardinality(Between(let, upto, upto))
      BY <1>2 DEF McpBucket, Dated
    <2> QED
      BY <1>2, <2>1
  <1>4. Between(stamps, upto, upto) = Between(let, upto, upto)
    <2>1. ASSUME NEW e \in let, e[1] = upto
          PROVE  e \in stamps
      <3>1. upto > upto - SlidingWindow
        BY <1>1
      <3> QED
        BY <1>1, <2>1, <3>1 DEF Recent
    <2>2. \A e \in Between(let, upto, upto) : e \in let /\ e[1] = upto
      <3> SUFFICES ASSUME NEW e \in Between(let, upto, upto)
                   PROVE  e \in let /\ e[1] = upto
        OBVIOUS
      <3>1. e \in let /\ upto <= e[1] /\ e[1] <= upto
        BY DEF Between
      <3>2. e[1] \in Nat
        BY <1>1, <3>1 DEF McpEntries, McpTimes
      <3> QED
        BY <1>1, <3>1, <3>2
    <2> QED
      BY <1>1, <2>1, <2>2 DEF Between
  <1>5. /\ IsFiniteSet(let \cup {x}) /\ IsFiniteSet(stamps \cup {x})
        /\ Cardinality(stamps \cup {x}) = Cardinality(stamps) + 1
    <2>1. /\ IsFiniteSet(stamps \cup {x})
          /\ Cardinality(stamps \cup {x})
               = IF x \in stamps THEN Cardinality(stamps) ELSE Cardinality(stamps) + 1
      BY <1>1, FS_AddElement, Zenon
    <2>2. IsFiniteSet(let \cup {x})
      BY <1>1, FS_AddElement, Zenon
    <2>3. x \notin stamps
      BY <1>1, <1>3
    <2> QED
      BY <2>1, <2>2, <2>3, Zenon
  <1>6. Recent(let \cup {x}, upto) = stamps \cup {x}
    <2>1. upto > upto - SlidingWindow
      BY <1>1
    <2> QED
      BY <1>1, <1>2, <2>1 DEF Recent
  <1>7. Tracks(stamps \cup {x}, let \cup {x}, limit, upto)
    <2>1. Cardinality(stamps \cup {x}) <= limit
      BY <1>1, <1>5
    <2>2. let \cup {x} \subseteq McpEntries /\ stamps \cup {x} \subseteq let \cup {x}
      BY <1>1, <1>2
    <2> QED
      BY <1>5, <1>6, <2>1, <2>2 DEF Tracks
  <1>8. Dated(let \cup {x}, upto)
    <2>1. Between(let \cup {x}, upto, upto) = Between(let, upto, upto) \cup {x}
      BY <1>1, <1>2 DEF Between
    <2>2. Cardinality(Between(let \cup {x}, upto, upto)) = Cardinality(Between(let, upto, upto)) + 1
      <3>1. x \notin Between(let, upto, upto) /\ IsFiniteSet(Between(let, upto, upto))
        BY <1>1, <1>3, McpBetween DEF Between
      <3> QED
        BY <2>1, <3>1, FS_AddElement
    <2>3. ASSUME NEW e \in let
          PROVE  /\ e[1] <= upto
                 /\ e[1] = upto => e[2] <= Cardinality(Between(let, upto, upto)) + 1
      <3>1. e[1] \in Nat /\ e[2] \in Nat
        BY <1>1 DEF McpEntries, McpTimes
      <3>2. e[1] <= upto /\ (e[1] = upto => e[2] <= Cardinality(Between(let, upto, upto)))
        BY DEF McpBucket, Dated
      <3> QED
        BY <1>2, <3>1, <3>2
    <2>4. x[1] <= upto /\ x[2] <= Cardinality(Between(let, upto, upto)) + 1
      BY <1>1, <1>2
    <2> QED
      BY <2>2, <2>3, <2>4 DEF Dated
  <1>9. WindowsHold(let \cup {x}, limit, upto)
    <2> SUFFICES ASSUME NEW t \in 0..upto
                 PROVE  Cardinality(Between(let \cup {x}, t, t + SlidingWindow - 1)) <= limit
      BY DEF WindowsHold
    <2>1. CASE t + SlidingWindow - 1 < upto
      <3>1. Between(let \cup {x}, t, t + SlidingWindow - 1)
              = Between(let, t, t + SlidingWindow - 1)
        BY <1>1, <1>2, <2>1 DEF Between
      <3> QED
        BY <3>1 DEF McpBucket, WindowsHold
    <2>2. CASE t + SlidingWindow - 1 >= upto
      <3>1. \A e \in let \cup {x} : e[1] \in Nat
        BY <1>1, <1>2 DEF McpEntries, McpTimes
      <3>2. Between(let \cup {x}, t, t + SlidingWindow - 1) \subseteq Recent(let \cup {x}, upto)
        BY <1>1, <2>2, <3>1 DEF Between, Recent
      <3>3. Between(let \cup {x}, t, t + SlidingWindow - 1) \subseteq stamps \cup {x}
        BY <3>2, <1>6
      <3>4. /\ Cardinality(Between(let \cup {x}, t, t + SlidingWindow - 1))
                 <= Cardinality(stamps \cup {x})
            /\ Cardinality(Between(let \cup {x}, t, t + SlidingWindow - 1)) \in Nat
        BY <1>5, <3>3, FS_Subset, FS_CardinalityType
      <3> QED
        BY <1>1, <1>5, <3>4
    <2> QED
      BY <1>1, <2>1, <2>2
  <1> QED
    BY <1>4, <1>7, <1>8, <1>9 DEF McpBucket, IsNext

\* Time takes entries out of the window, and the window that begins is empty.
LEMMA McpAges ==
  ASSUME NEW stamps, NEW let, NEW limit \in Nat, NEW upto \in McpTimes,
         upto + 1 \in McpTimes, McpBucket(stamps, let, limit, upto), McpAssumption
  PROVE  McpBucket(stamps, let, limit, upto + 1)
  <1>1. /\ let \subseteq McpEntries /\ upto \in Nat /\ SlidingWindow \in Nat
        /\ \A e \in let : e[1] \in Nat /\ e[1] <= upto
    BY DEF McpBucket, Tracks, Dated, McpEntries, McpTimes, McpAssumption
  <1>2. Recent(let, upto + 1) \subseteq Recent(let, upto)
    BY <1>1 DEF Recent
  <1>3. Tracks(stamps, let, limit, upto + 1)
    BY <1>2 DEF McpBucket, Tracks
  <1>4. Dated(let, upto + 1)
    BY <1>1 DEF Dated
  <1>5. WindowsHold(let, limit, upto + 1)
    <2> SUFFICES ASSUME NEW t \in 0..(upto + 1)
                 PROVE  Cardinality(Between(let, t, t + SlidingWindow - 1)) <= limit
      BY DEF WindowsHold
    <2>1. CASE t = upto + 1
      <3>1. Between(let, t, t + SlidingWindow - 1) = {}
        BY <1>1, <2>1 DEF Between
      <3> QED
        BY <3>1, FS_EmptySet
    <2>2. CASE t # upto + 1
      <3>1. t \in 0..upto
        BY <1>1, <2>2
      <3> QED
        BY <3>1 DEF McpBucket, WindowsHold
    <2> QED
      BY <2>1, <2>2
  <1> QED
    BY <1>3, <1>4, <1>5 DEF McpBucket

-----------------------------------------------------------------------------
(* Every step *)

LEMMA McpStarts == McpInit => McpInd
  <1> SUFFICES ASSUME McpInit PROVE McpInd
    OBVIOUS
  <1>1. /\ tick = 0 /\ tick \in McpTimes /\ lastBlock = -1 /\ blockedUntil = 0
        /\ TenantLimit \in Nat /\ IpLimit \in Nat
    BY McpAssumption DEF McpInit, McpAssumption, McpTimes
  <1>2. McpBucket({}, {}, TenantLimit, tick) /\ McpBucket({}, {}, IpLimit, tick)
    BY <1>1, McpEmpty
  <1>3. BlockKnown /\ BlockLasts
    BY <1>1, McpAssumption DEF BlockKnown, BlockLasts, McpAssumption
  <1> QED
    BY <1>1, <1>2, <1>3 DEF McpInit, McpInd

\* What a check does to its bucket.
LEMMA McpChecked ==
  ASSUME NEW stamps, NEW let, NEW limit \in Nat, tick \in McpTimes,
         McpBucket(stamps, let, limit, tick)
  PROVE  /\ McpBucket(Trimmed(stamps), let, limit, tick)
         /\ Cardinality(Trimmed(stamps)) \in Nat
         /\ Cardinality(Trimmed(stamps)) < limit =>
              McpBucket(Stamped(Trimmed(stamps)), Stamped(let), limit, tick)
  <1>1. Trimmed(stamps) = Recent(stamps, tick)
    BY DEF Trimmed, Recent
  <1>2. McpBucket(Trimmed(stamps), let, limit, tick)
    BY <1>1, McpTrims
  <1>3. Recent(Trimmed(stamps), tick) = Trimmed(stamps)
    BY DEF Trimmed, Recent
  <1>4. Cardinality(Trimmed(stamps)) \in Nat
    BY <1>2, FS_Subset, FS_CardinalityType DEF McpBucket, Tracks
  <1>5. ASSUME Cardinality(Trimmed(stamps)) < limit
        PROVE  McpBucket(Stamped(Trimmed(stamps)), Stamped(let), limit, tick)
    <2>1. PICK y : IsNext(y, let, tick)
      BY DEF IsNext
    <2>2. /\ McpBucket(Trimmed(stamps) \cup {y}, let \cup {y}, limit, tick)
          /\ IsNext(y, Trimmed(stamps), tick)
      BY <1>2, <1>3, <1>5, <2>1, McpLetsThrough, McpAssumption
    <2>3. y = Stamp(let) /\ y = Stamp(Trimmed(stamps))
      BY <2>1, <2>2 DEF IsNext, Stamp
    <2> QED
      BY <2>2, <2>3 DEF Stamped
  <1> QED
    BY <1>2, <1>4, <1>5

LEMMA McpTenantStep ==
  ASSUME McpInd, TenantCheck \/ TenantReset
  PROVE  McpInd'
  <1>1. /\ tick \in McpTimes /\ TenantLimit \in Nat
        /\ UNCHANGED <<tick, ipStamps, blockedUntil, ipPassed, lastBlock>>
    BY McpAssumption DEF McpInd, McpAssumption, TenantCheck, TenantReset
  <1>2. McpBucket(tenantStamps', passed', TenantLimit, tick)
    <2>1. CASE TenantCheck
      <3>1. /\ McpBucket(Trimmed(tenantStamps), passed, TenantLimit, tick)
            /\ Cardinality(Trimmed(tenantStamps)) \in Nat
            /\ Cardinality(Trimmed(tenantStamps)) < TenantLimit =>
                 McpBucket(Stamped(Trimmed(tenantStamps)), Stamped(passed), TenantLimit, tick)
        BY <1>1, McpChecked DEF McpInd
      <3> QED
        BY <1>1, <2>1, <3>1 DEF TenantCheck
    <2>2. CASE TenantReset
      BY <1>1, <2>2, McpEmpty DEF TenantReset
    <2> QED
      BY <2>1, <2>2
  <1>3. BlockKnown' /\ BlockLasts'
    BY <1>1 DEF McpInd, BlockKnown, BlockLasts
  <1> QED
    BY <1>1, <1>2, <1>3 DEF McpInd

LEMMA McpIpStep ==
  ASSUME McpInd, IpPasses \/ IpBlocks \/ IpUnblocks \/ IpReset
  PROVE  McpInd'
  <1>1. /\ tick \in McpTimes /\ tick \in Nat /\ tick <= MaxMcpTime
        /\ MaxMcpTime \in Nat /\ IpLimit \in Nat /\ BlockTime \in Nat
        /\ UNCHANGED <<tick, tenantStamps, passed>>
    BY McpAssumption
       DEF McpInd, McpAssumption, McpTimes, IpPasses, IpBlocks, IpUnblocks, IpReset
  <1>2. McpBucket(ipStamps', ipPassed', IpLimit, tick)
    <2>1. /\ McpBucket(Trimmed(ipStamps), ipPassed, IpLimit, tick)
          /\ Cardinality(Trimmed(ipStamps)) < IpLimit =>
               McpBucket(Stamped(Trimmed(ipStamps)), Stamped(ipPassed), IpLimit, tick)
      BY <1>1, McpChecked DEF McpInd
    <2>2. CASE IpPasses \/ IpBlocks
      BY <2>1, <2>2 DEF IpPasses, IpBlocks
    <2>3. CASE IpUnblocks
      BY <2>3 DEF IpUnblocks, McpInd
    <2>4. CASE IpReset
      BY <1>1, <2>4, McpEmpty DEF IpReset
    <2> QED
      BY <2>2, <2>3, <2>4
  <1>3. /\ lastBlock \in -1..tick /\ blockedUntil \in 0..(MaxMcpTime + BlockTime)
        /\ lastBlock >= 0 => \/ blockedUntil = lastBlock + BlockTime
                             \/ tick >= lastBlock + BlockTime
    BY DEF McpInd, BlockKnown
  <1>4. BlockKnown'
    BY <1>1, <1>3 DEF BlockKnown, IpPasses, IpBlocks, IpUnblocks, IpReset
  <1>5. BlockLasts'
    <2>1. \A e \in ipPassed : e[1] \in Nat /\ e[1] <= tick
      BY DEF McpInd, McpBucket, Tracks, Dated, McpEntries, McpTimes
    <2>2. CASE IpPasses
      <3>1. lastBlock >= 0 => tick >= lastBlock + BlockTime
        BY <1>1, <1>3, <2>2 DEF IpPasses
      <3>2. ipPassed' = ipPassed \cup {Stamp(ipPassed)} /\ Stamp(ipPassed)[1] = tick
            /\ lastBlock' = lastBlock
        BY <2>2 DEF IpPasses, Stamped, Stamp
      <3>3. ASSUME lastBlock >= 0
            PROVE  Between(ipPassed', lastBlock + 1, lastBlock + BlockTime - 1) = {}
        <4>1. Between(ipPassed, lastBlock + 1, lastBlock + BlockTime - 1) = {}
          BY <3>3 DEF McpInd, BlockLasts
        <4>2. ~ (tick <= lastBlock + BlockTime - 1)
          BY <1>1, <1>3, <3>1, <3>3
        <4> QED
          BY <3>2, <4>1, <4>2 DEF Between
      <3> QED
        BY <3>2, <3>3 DEF BlockLasts
    <2>3. CASE IpBlocks
      BY <1>1, <2>1, <2>3 DEF IpBlocks, BlockLasts, Between
    <2>4. CASE IpUnblocks
      BY <2>4 DEF IpUnblocks, McpInd, BlockLasts
    <2>5. CASE IpReset
      BY <2>5 DEF IpReset, BlockLasts
    <2> QED
      BY <2>2, <2>3, <2>4, <2>5
  <1> QED
    BY <1>1, <1>2, <1>4, <1>5 DEF McpInd

LEMMA McpTickStep ==
  ASSUME McpInd, McpTick
  PROVE  McpInd'
  <1>1. /\ tick \in McpTimes /\ tick' = tick + 1 /\ tick + 1 \in McpTimes /\ tick \in Nat
        /\ TenantLimit \in Nat /\ IpLimit \in Nat /\ BlockTime \in Nat /\ MaxMcpTime \in Nat
        /\ UNCHANGED <<tenantStamps, ipStamps, blockedUntil, passed, ipPassed, lastBlock>>
    BY McpAssumption DEF McpInd, McpTick, McpTimes, McpAssumption
  <1>2. /\ McpBucket(tenantStamps, passed, TenantLimit, tick + 1)
        /\ McpBucket(ipStamps, ipPassed, IpLimit, tick + 1)
    BY <1>1, McpAges, McpAssumption DEF McpInd
  <1>3. BlockKnown'
    BY <1>1 DEF McpInd, BlockKnown
  <1>4. BlockLasts'
    BY <1>1 DEF McpInd, BlockLasts
  <1> QED
    BY <1>1, <1>2, <1>3, <1>4 DEF McpInd

LEMMA McpStep == McpInd /\ [McpNext]_mcpVars => McpInd'
  <1> SUFFICES ASSUME McpInd, [McpNext]_mcpVars PROVE McpInd'
    OBVIOUS
  <1>1. CASE McpNext
    BY <1>1, McpTenantStep, McpIpStep, McpTickStep DEF McpNext
  <1>2. CASE UNCHANGED mcpVars
    BY <1>2 DEF mcpVars, McpInd, BlockKnown, BlockLasts
  <1> QED
    BY <1>1, <1>2

\* For any limits, window and length of a block: in every stretch of time as long
\* as the window SlidingWindowRateLimiter and IpRateLimiter let no more through
\* than their limits, their lists of timestamps never grow beyond them, and nothing
\* of a blocked address passes until its block is over or reset.
THEOREM McpLimitsHold == McpSpec => []McpInvariant
  <1>1. McpInd => McpInvariant
    BY DEF McpInd, McpInvariant, McpTypeOK, EveryWindowHolds, McpBucket, Tracks, WindowsHold,
           BlockKnown
  <1> QED
    BY <1>1, McpStarts, McpStep, PTL DEF McpSpec

-----------------------------------------------------------------------------
\* BudgetCheckers
(***************************************************************************)
(* Proofs about BudgetCheckers, for any callers, costs, limit and window.  *)
(***************************************************************************)

BudgetPlaces == {"idle", "lock", "query", "check", "record", "relock", "granted"}

\* Who has passed the check and may still record.
Passed == {c \in Callers : caller[c].at \in {"granted", "relock"}}

BudgetTypes ==
  /\ checker \in {"default", "atomic", "persistent"}
  /\ used \in Nat /\ clock \in Times /\ windowStart \in Int
  /\ grants \in [Times -> Nat]
  /\ caller \in [Callers -> [at : BudgetPlaces, cost : Nat]]
  /\ \A c \in Callers : caller[c].at = "relock" => caller[c].cost \in Costs

\* The lock is its holder's.
LockHeld ==
  /\ holder = {c \in Callers : caller[c].at \in {"check", "record"}}
  /\ \A c, d \in holder : c = d

\* The cents of a history f in a stretch of time.
CentsOf(f, from, to) == UNION {{t} \X (1..f[t]) : t \in {u \in Times : from <= u /\ u <= to}}

\* What the atomic checker keeps: nothing was granted outside its windows, the
\* present one and the stretch before it are within the limit, and the state
\* counts what the present one has granted.
WindowKept(f, start, usage) ==
  /\ IsFiniteSet(CentsOf(f, 0, MaxBudgetTime))
  /\ start <= clock
  /\ \A t \in Times : f[t] > 0 => t <= clock /\ t <= start + Window
  /\ Cardinality(CentsOf(f, start, MaxBudgetTime)) <= usage
  /\ Cardinality(CentsOf(f, start, MaxBudgetTime)) <= Limit
  /\ Cardinality(CentsOf(f, start - Window, start - 1)) <= Limit
  /\ \A t \in Times : Cardinality(CentsOf(f, t, t + Window)) <= 2 * Limit

\* What the store may still be charged by those who passed its check.
Overrun == Limit + Cardinality(Callers) * Max(Costs)
Charged(usage, n) == IF Limit = 0 THEN usage = 0 /\ n = 0
                                  ELSE usage + n * Max(Costs) < Overrun

StoreKept == /\ PersistentOverrunBounded
             /\ Charged(StoreUsage, Cardinality(Passed))

\* The inductive invariant of the checkers.
BudgetInd ==
  /\ BudgetTypes /\ LockHeld
  /\ checker = "atomic" => WindowKept(grants, windowStart, used)
  /\ checker = "persistent" => StoreKept

-----------------------------------------------------------------------------
(* Cents *)

LEMMA CentIn ==
  ASSUME NEW f, NEW a, NEW b, NEW x
  PROVE  x \in CentsOf(f, a, b) <=>
           \E t \in Times : a <= t /\ t <= b /\ \E n \in 1..f[t] : x = <<t, n>>
  BY DEF CentsOf

\* A stretch that holds all the times of another at which something was granted
\* holds its cents.
LEMMA CentsWithin ==
  ASSUME NEW f \in [Times -> Nat], NEW a, NEW b, NEW c, NEW d,
         \A t \in Times : f[t] > 0 /\ a <= t /\ t <= b => c <= t /\ t <= d
  PROVE  CentsOf(f, a, b) \subseteq CentsOf(f, c, d)
  <1> SUFFICES ASSUME NEW x \in CentsOf(f, a, b)
               PROVE  x \in CentsOf(f, c, d)
    OBVIOUS
  <1>1. PICK t \in Times : a <= t /\ t <= b /\ \E n \in 1..f[t] : x = <<t, n>>
    BY CentIn
  <1>2. f[t] > 0
    BY <1>1
  <1> QED
    BY <1>1, <1>2, CentIn

LEMMA CentsCount ==
  ASSUME NEW f \in [Times -> Nat], IsFiniteSet(CentsOf(f, 0, MaxBudgetTime)),
         NEW a, NEW b
  PROVE  /\ IsFiniteSet(CentsOf(f, a, b)) /\ Cardinality(CentsOf(f, a, b)) \in Nat
         /\ \A c, d : (\A t \in Times : f[t] > 0 /\ a <= t /\ t <= b => c <= t /\ t <= d)
              => Cardinality(CentsOf(f, a, b)) <= Cardinality(CentsOf(f, c, d))
  <1>1. \A p, q : CentsOf(f, p, q) \subseteq CentsOf(f, 0, MaxBudgetTime)
    BY CentsWithin, BudgetAssumption DEF Times, BudgetAssumption
  <1>2. \A p, q : IsFiniteSet(CentsOf(f, p, q)) /\ Cardinality(CentsOf(f, p, q)) \in Nat
    BY <1>1, FS_Subset, FS_CardinalityType
  <1>3. ASSUME NEW c, NEW d, \A t \in Times : f[t] > 0 /\ a <= t /\ t <= b => c <= t /\ t <= d
        PROVE  Cardinality(CentsOf(f, a, b)) <= Cardinality(CentsOf(f, c, d))
    <2>1. CentsOf(f, a, b) \subseteq CentsOf(f, c, d)
      BY <1>3, CentsWithin
    <2> QED
      BY <1>2, <2>1, FS_Subset
  <1> QED
    BY <1>2, <1>3

\* A grant adds its cost to the stretches that see it, and to no other.
LEMMA CentsGrow ==
  ASSUME NEW f \in [Times -> Nat], IsFiniteSet(CentsOf(f, 0, MaxBudgetTime)),
         NEW k \in Times, NEW cost \in Nat, NEW g \in [Times -> Nat],
         \A t \in Times : g[t] = IF t = k THEN f[k] + cost ELSE f[t], NEW a, NEW b
  PROVE  /\ IsFiniteSet(CentsOf(g, 0, MaxBudgetTime))
         /\ Cardinality(CentsOf(g, a, b)) <= Cardinality(CentsOf(f, a, b)) + cost
         /\ ~ (a <= k /\ k <= b) => CentsOf(g, a, b) = CentsOf(f, a, b)
  <1> DEFINE More == {k} \X (f[k] + 1 .. f[k] + cost)
  <1>1. \A t \in Times : t # k => g[t] = f[t]
    OBVIOUS
  <1>2. g[k] = f[k] + cost /\ f[k] \in Nat
    OBVIOUS
  <1>3. IsFiniteSet(More) /\ Cardinality(More) = cost
    <2>1. IsFiniteSet({k}) /\ Cardinality({k}) = 1
      BY FS_Singleton
    <2>2. /\ IsFiniteSet(f[k] + 1 .. f[k] + cost)
          /\ Cardinality(f[k] + 1 .. f[k] + cost) = cost
      <3>1. f[k] + 1 \in Int /\ f[k] + cost \in Int
        BY <1>2
      <3>2. /\ IsFiniteSet(f[k] + 1 .. f[k] + cost)
            /\ Cardinality(f[k] + 1 .. f[k] + cost)
                 = IF f[k] + 1 > f[k] + cost THEN 0 ELSE (f[k] + cost) - (f[k] + 1) + 1
        BY <3>1, FS_Interval, Zenon
      <3> QED
        BY <1>2, <3>2
    <2>3. /\ IsFiniteSet(More)
          /\ Cardinality(More) = Cardinality({k}) * Cardinality(f[k] + 1 .. f[k] + cost)
      BY <2>1, <2>2, FS_Product, Zenon
    <2> QED
      BY <2>1, <2>2, <2>3
  <1>4. \A p, q : CentsOf(g, p, q) \subseteq CentsOf(f, p, q) \cup More
    <2> SUFFICES ASSUME NEW p, NEW q, NEW x \in CentsOf(g, p, q), x \notin More
                 PROVE  x \in CentsOf(f, p, q)
      OBVIOUS
    <2>1. PICK t \in Times : p <= t /\ t <= q /\ \E n \in 1..g[t] : x = <<t, n>>
      BY CentIn
    <2>2. PICK n \in 1..g[t] : x = <<t, n>>
      BY <2>1
    <2>3. n \in 1..f[t]
      <3>1. CASE t = k
        <4>1. ~ (n \in f[k] + 1 .. f[k] + cost)
          BY <2>2, <3>1
        <4> QED
          BY <1>2, <2>2, <3>1, <4>1
      <3>2. CASE t # k
        BY <1>1, <2>2, <3>2
      <3> QED
        BY <3>1, <3>2
    <2> QED
      BY <2>1, <2>2, <2>3, CentIn
  <1>5. \A p, q : IsFiniteSet(CentsOf(f, p, q)) /\ Cardinality(CentsOf(f, p, q)) \in Nat
    BY CentsCount
  <1>6. ASSUME NEW p, NEW q
        PROVE  /\ IsFiniteSet(CentsOf(g, p, q))
               /\ Cardinality(CentsOf(g, p, q)) <= Cardinality(CentsOf(f, p, q)) + cost
    <2> DEFINE Both == CentsOf(f, p, q) \cup More
    <2>1. /\ IsFiniteSet(Both)
          /\ Cardinality(Both) = Cardinality(CentsOf(f, p, q)) + Cardinality(More)
                                   - Cardinality(CentsOf(f, p, q) \cap More)
      BY <1>3, <1>5, FS_Union
    <2>2. Cardinality(CentsOf(f, p, q) \cap More) \in Nat
      BY <1>3, FS_Subset, FS_CardinalityType
    <2>3. /\ IsFiniteSet(CentsOf(g, p, q)) /\ Cardinality(CentsOf(g, p, q)) \in Nat
          /\ Cardinality(CentsOf(g, p, q)) <= Cardinality(Both)
      BY <1>4, <2>1, FS_Subset, FS_CardinalityType
    <2> QED
      BY <1>3, <1>5, <2>1, <2>2, <2>3
  <1>7. ASSUME ~ (a <= k /\ k <= b)
        PROVE  CentsOf(g, a, b) = CentsOf(f, a, b)
    <2>1. ASSUME NEW x
          PROVE  x \in CentsOf(g, a, b) <=> x \in CentsOf(f, a, b)
      <3>1. \A t \in Times : a <= t /\ t <= b => g[t] = f[t]
        BY <1>1, <1>7
      <3>2. x \in CentsOf(g, a, b) <=>
              \E t \in Times : a <= t /\ t <= b /\ \E n \in 1..g[t] : x = <<t, n>>
        BY CentIn
      <3>3. x \in CentsOf(f, a, b) <=>
              \E t \in Times : a <= t /\ t <= b /\ \E n \in 1..f[t] : x = <<t, n>>
        BY CentIn
      <3> QED
        BY <3>1, <3>2, <3>3, Zenon
    <2> QED
      BY <2>1
  <1> QED
    BY <1>6, <1>7

-----------------------------------------------------------------------------
(* The atomic checker *)

\* getState: a window that starts again has granted nothing yet, and what the
\* one before it granted lies in the stretch before.
LEMMA StateFetched ==
  ASSUME BudgetTypes, WindowKept(grants, windowStart, used)
  PROVE  /\ WindowKept(grants, CurrentStart, CurrentUsage)
         /\ CurrentStart \in Int /\ CurrentUsage \in Nat
         /\ clock <= CurrentStart + Window
  <1>1. /\ clock \in Nat /\ windowStart \in Int /\ Window \in Nat /\ Limit \in Nat
        /\ used \in Nat /\ MaxBudgetTime \in Nat /\ clock \in Times
        /\ grants \in [Times -> Nat] /\ \A t \in Times : t \in Nat
    BY BudgetAssumption DEF BudgetTypes, BudgetAssumption, Times
  <1>2. CASE ~Expired
    BY <1>1, <1>2 DEF CurrentStart, CurrentUsage, Expired
  <1>3. CASE Expired
    <2>1. clock > windowStart + Window /\ CurrentStart = clock /\ CurrentUsage = 0
      BY <1>3 DEF Expired, CurrentStart, CurrentUsage
    <2>2. /\ IsFiniteSet(CentsOf(grants, 0, MaxBudgetTime))
          /\ \A t \in Times : grants[t] > 0 => t <= clock /\ t <= windowStart + Window
          /\ Cardinality(CentsOf(grants, windowStart, MaxBudgetTime)) <= Limit
          /\ \A t \in Times : Cardinality(CentsOf(grants, t, t + Window)) <= 2 * Limit
      BY DEF WindowKept
    <2>3. CentsOf(grants, clock, MaxBudgetTime) = {}
      <3> SUFFICES ASSUME NEW x \in CentsOf(grants, clock, MaxBudgetTime) PROVE FALSE
        OBVIOUS
      <3>1. PICK t \in Times : clock <= t /\ \E n \in 1..grants[t] : x = <<t, n>>
        BY CentIn
      <3> QED
        BY <1>1, <2>1, <2>2, <3>1
    <2>4. Cardinality(CentsOf(grants, clock, MaxBudgetTime)) = 0
      BY <2>3, FS_EmptySet
    <2>5. /\ Cardinality(CentsOf(grants, clock - Window, clock - 1))
               <= Cardinality(CentsOf(grants, windowStart, MaxBudgetTime))
          /\ Cardinality(CentsOf(grants, clock - Window, clock - 1)) \in Nat
          /\ Cardinality(CentsOf(grants, windowStart, MaxBudgetTime)) \in Nat
      <3>1. \A t \in Times : grants[t] > 0 /\ clock - Window <= t /\ t <= clock - 1
              => windowStart <= t /\ t <= MaxBudgetTime
        BY <1>1, <2>1 DEF Times
      <3> QED
        BY <1>1, <2>2, <3>1, CentsCount
    <2>6. \A t \in Times : grants[t] > 0 => t <= clock /\ t <= clock + Window
      BY <1>1, <2>2
    <2>7. Cardinality(CentsOf(grants, clock - Window, clock - 1)) <= Limit
      BY <1>1, <2>2, <2>5
    <2>8. WindowKept(grants, clock, 0)
      BY <1>1, <2>2, <2>4, <2>6, <2>7 DEF WindowKept
    <2> QED
      BY <1>1, <2>1, <2>8
  <1> QED
    BY <1>2, <1>3

\* A grant within the limit: a stretch as long as a window that sees it meets the
\* present window and the stretch before that, and no more.
LEMMA WindowGrants ==
  ASSUME BudgetTypes, NEW start \in Int, NEW usage \in Nat, NEW cost \in Nat,
         WindowKept(grants, start, usage), clock <= start + Window,
         usage + cost <= Limit, NEW g \in [Times -> Nat],
         \A t \in Times : g[t] = IF t = clock THEN grants[clock] + cost ELSE grants[t]
  PROVE  WindowKept(g, start, usage + cost)
  <1>1. /\ clock \in Nat /\ Window \in Nat /\ Limit \in Nat
        /\ MaxBudgetTime \in Nat /\ clock \in Times /\ clock <= MaxBudgetTime
        /\ grants \in [Times -> Nat] /\ \A t \in Times : t \in Nat /\ t <= MaxBudgetTime
    BY BudgetAssumption DEF BudgetTypes, BudgetAssumption, Times
  <1>2. /\ IsFiniteSet(CentsOf(grants, 0, MaxBudgetTime)) /\ start <= clock
        /\ \A t \in Times : grants[t] > 0 => t <= clock /\ t <= start + Window
        /\ Cardinality(CentsOf(grants, start, MaxBudgetTime)) <= usage
        /\ Cardinality(CentsOf(grants, start - Window, start - 1)) <= Limit
        /\ \A t \in Times : Cardinality(CentsOf(grants, t, t + Window)) <= 2 * Limit
    BY DEF WindowKept
  <1>3. /\ IsFiniteSet(CentsOf(g, 0, MaxBudgetTime))
        /\ \A a, b : /\ Cardinality(CentsOf(g, a, b)) <= Cardinality(CentsOf(grants, a, b)) + cost
                     /\ ~ (a <= clock /\ clock <= b) => CentsOf(g, a, b) = CentsOf(grants, a, b)
    BY <1>1, <1>2, CentsGrow
  <1>4. \A a, b : /\ IsFiniteSet(CentsOf(g, a, b)) /\ Cardinality(CentsOf(g, a, b)) \in Nat
                  /\ Cardinality(CentsOf(grants, a, b)) \in Nat
    BY <1>1, <1>2, <1>3, CentsCount
  <1>5. \A t \in Times : g[t] > 0 => t <= clock /\ t <= start + Window
    <2> SUFFICES ASSUME NEW t \in Times, g[t] > 0
                 PROVE  t <= clock /\ t <= start + Window
      OBVIOUS
    <2>1. t # clock => g[t] = grants[t]
      BY <1>1
    <2> QED
      BY <1>1, <1>2, <2>1
  <1>6. /\ Cardinality(CentsOf(g, start, MaxBudgetTime)) <= usage + cost
        /\ Cardinality(CentsOf(g, start, MaxBudgetTime)) <= Limit
    <2>1. /\ Cardinality(CentsOf(g, start, MaxBudgetTime))
               <= Cardinality(CentsOf(grants, start, MaxBudgetTime)) + cost
          /\ Cardinality(CentsOf(g, start, MaxBudgetTime)) \in Nat
          /\ Cardinality(CentsOf(grants, start, MaxBudgetTime)) \in Nat
      BY <1>3, <1>4
    <2> QED
      BY <1>1, <1>2, <2>1
  <1>7. Cardinality(CentsOf(g, start - Window, start - 1)) <= Limit
    <2>1. ~ (clock <= start - 1)
      BY <1>1, <1>2
    <2> QED
      BY <1>2, <1>3, <2>1
  <1>8. ASSUME NEW t \in Times
        PROVE  Cardinality(CentsOf(g, t, t + Window)) <= 2 * Limit
    <2>1. CASE ~ (t <= clock /\ clock <= t + Window)
      BY <1>2, <1>3, <2>1
    <2>2. CASE t <= clock /\ clock <= t + Window
      <3> DEFINE Old == CentsOf(g, start - Window, start - 1)
                 New == CentsOf(g, start, MaxBudgetTime)
      <3>1. CentsOf(g, t, t + Window) \subseteq Old \cup New
        <4> SUFFICES ASSUME NEW x \in CentsOf(g, t, t + Window)
                     PROVE  x \in Old \cup New
          OBVIOUS
        <4>1. PICK u \in Times : t <= u /\ u <= t + Window /\ \E n \in 1..g[u] : x = <<u, n>>
          BY CentIn
        <4>2. CASE u >= start
          BY <1>1, <4>1, <4>2, CentIn
        <4>3. CASE ~ (u >= start)
          <5>1. start - Window <= u /\ u <= start - 1
            BY <1>1, <1>2, <2>2, <4>1, <4>3
          <5> QED
            BY <4>1, <5>1, CentIn
        <4> QED
          BY <4>2, <4>3
      <3>2. /\ IsFiniteSet(Old \cup New)
            /\ Cardinality(Old \cup New)
                 = Cardinality(Old) + Cardinality(New) - Cardinality(Old \cap New)
        BY <1>4, FS_Union
      <3>3. Cardinality(Old \cap New) \in Nat /\ Cardinality(Old) \in Nat /\ Cardinality(New) \in Nat
        BY <1>4, FS_Subset, FS_CardinalityType
      <3>4. Cardinality(CentsOf(g, t, t + Window)) <= Cardinality(Old \cup New)
        BY <3>1, <3>2, FS_Subset
      <3> QED
        <4> HIDE DEF Old, New
        <4>1. Cardinality(Old) <= Limit /\ Cardinality(New) <= Limit
          BY <1>6, <1>7 DEF Old, New
        <4>2. Cardinality(CentsOf(g, t, t + Window)) \in Nat
          BY <1>4
        <4> QED
          BY <1>1, <3>2, <3>3, <3>4, <4>1, <4>2
    <2> QED
      BY <2>1, <2>2
  <1> QED
    BY <1>2, <1>3, <1>5, <1>6, <1>7, <1>8 DEF WindowKept

-----------------------------------------------------------------------------
(* The store *)

LEMMA MaxCost == Max(Costs) \in Nat /\ \A cost \in Costs : cost <= Max(Costs)
  <1>1. PICK most \in Costs : \A cost \in Costs : cost <= most
    BY BudgetAssumption DEF BudgetAssumption
  <1>2. Costs \subseteq Nat
    BY BudgetAssumption DEF BudgetAssumption
  <1>3. \E x \in Costs : \A y \in Costs : x >= y
    BY <1>1, <1>2
  <1>4. Max(Costs) \in Costs /\ \A y \in Costs : Max(Costs) >= y
    BY <1>3 DEF Max
  <1> QED
    BY <1>2, <1>4

\* How the charge to come changes: with a check that passed below the limit, with
\* a record, and when somebody gives up.
LEMMA ChargedChanges ==
  ASSUME NEW usage \in Nat, NEW n \in Nat, NEW cost \in Nat, cost <= Max(Costs),
         n <= Cardinality(Callers)
  PROVE  /\ usage < Limit => Charged(usage, n)
         /\ Limit > 0 => Charged(0, n)
         /\ Charged(usage, n) => \A m \in Nat : m <= n => Charged(usage, m)
         /\ Charged(usage, n) /\ n > 0 => Charged(usage + cost, n - 1)
         /\ Charged(usage, n) => usage = 0 \/ usage < Overrun
  <1>1. PICK top \in Nat : top = Max(Costs)
    BY MaxCost
  <1>2. PICK N \in Nat : N = Cardinality(Callers)
    BY BudgetAssumption, FS_CardinalityType DEF BudgetAssumption
  <1>3. Limit \in Nat
    BY BudgetAssumption DEF BudgetAssumption
  <1>4. \A j, k \in Nat : j <= k => j * top \in Nat /\ k * top \in Nat /\ j * top <= k * top
    BY <1>1
  <1>5. n > 0 => (n - 1) * top = n * top - top
    BY <1>1
  <1>6. Overrun = Limit + N * top /\ N * top \in Nat /\ n * top \in Nat /\ n * top <= N * top
    BY <1>1, <1>2, <1>4 DEF Overrun
  <1>7. \A u, m : Charged(u, m) <=> IF Limit = 0 THEN u = 0 /\ m = 0 ELSE u + m * top < Limit + N * top
    BY <1>1, <1>6 DEF Charged
  <1>8. usage < Limit => Charged(usage, n)
    BY <1>3, <1>6, <1>7
  <1>9. Limit > 0 => Charged(0, n)
    BY <1>3, <1>6, <1>7
  <1>10. ASSUME Charged(usage, n), NEW m \in Nat, m <= n
         PROVE  Charged(usage, m)
    <2>1. m * top \in Nat /\ m * top <= n * top
      BY <1>4, <1>10
    <2> QED
      BY <1>3, <1>6, <1>7, <1>10, <2>1
  <1>11. ASSUME Charged(usage, n), n > 0
         PROVE  Charged(usage + cost, n - 1)
    <2>1. Limit # 0 /\ usage + n * top < Limit + N * top
      BY <1>7, <1>11
    <2>2. (usage + cost) + (n - 1) * top < Limit + N * top
      BY <1>1, <1>3, <1>5, <1>6, <1>11, <2>1
    <2> QED
      BY <1>7, <2>1, <2>2
  <1>12. ASSUME Charged(usage, n)
         PROVE  usage = 0 \/ usage < Overrun
    BY <1>3, <1>6, <1>7, <1>12
  <1> QED
    BY <1>8, <1>9, <1>10, <1>11, <1>12

\* Periods do not go back.
LEMMA PeriodGrows ==
  ASSUME NEW a \in Nat, NEW w \in Nat, w > 0
  PROVE  /\ (a \div w) * w \in Nat
         /\ (a \div w) * w <= ((a + 1) \div w) * w
  <1>1. PICK p \in Nat : p = a \div w /\ p * w <= a /\ a < (p + 1) * w
    OBVIOUS
  <1>2. PICK q \in Nat : q = (a + 1) \div w /\ q * w <= a + 1 /\ a + 1 < (q + 1) * w
    OBVIOUS
  <1>3. p <= q
    <2> SUFFICES ASSUME q + 1 <= p PROVE FALSE
      BY <1>1, <1>2
    <2>1. (q + 1) * w <= p * w
      BY <1>1, <1>2
    <2> QED
      BY <1>1, <1>2, <2>1
  <1>4. p * w <= q * w /\ p * w \in Nat
    BY <1>1, <1>2, <1>3
  <1> QED
    BY <1>1, <1>2, <1>4

-----------------------------------------------------------------------------
(* Every step *)

LEMMA BudgetStarts == BudgetInit => BudgetInd
  <1> SUFFICES ASSUME BudgetInit PROVE BudgetInd
    OBVIOUS
  <1>1. /\ Limit \in Nat /\ Window \in Nat /\ MaxBudgetTime \in Nat /\ IsFiniteSet(Callers)
        /\ clock = 0 /\ 0 \in Times
    BY BudgetAssumption DEF BudgetAssumption, BudgetInit, Times
  <1>2. caller \in [Callers -> [at : BudgetPlaces, cost : Nat]] /\ \A c \in Callers : caller[c].at = "idle"
    BY DEF BudgetInit, Resting, BudgetPlaces
  <1>3. BudgetTypes
    BY <1>1, <1>2 DEF BudgetTypes, BudgetInit
  <1>4. LockHeld
    BY <1>2 DEF LockHeld, BudgetInit
  <1>5. ASSUME checker = "atomic"
        PROVE  WindowKept(grants, windowStart, used)
    <2>1. \A a, b : CentsOf(grants, a, b) = {}
      <3> SUFFICES ASSUME NEW a, NEW b, NEW x \in CentsOf(grants, a, b) PROVE FALSE
        OBVIOUS
      <3>1. PICK t \in Times : \E n \in 1..grants[t] : x = <<t, n>>
        BY CentIn
      <3>2. grants[t] = 0
        BY DEF BudgetInit
      <3> QED
        BY <3>1, <3>2
    <2>2. \A a, b : IsFiniteSet(CentsOf(grants, a, b)) /\ Cardinality(CentsOf(grants, a, b)) = 0
      BY <2>1, FS_EmptySet
    <2>3. /\ windowStart = -Window - 1 /\ used = 0 /\ windowStart <= clock
          /\ \A t \in Times : ~ (grants[t] > 0)
      BY <1>1, <1>5 DEF BudgetInit
    <2> QED
      BY <1>1, <2>2, <2>3 DEF WindowKept
  <1>6. ASSUME checker = "persistent"
        PROVE  StoreKept
    <2>1. Passed = {} /\ Cardinality(Passed) = 0
      BY <1>2, FS_EmptySet DEF Passed
    <2>2. used = 0 /\ StoreUsage = 0
      BY DEF BudgetInit, StoreUsage
    <2>3. 0 <= Cardinality(Callers) /\ 0 <= Max(Costs)
      BY <1>1, FS_CardinalityType, MaxCost
    <2>4. Charged(0, 0)
      <3>1. CASE Limit = 0
        BY <3>1 DEF Charged
      <3>2. CASE Limit > 0
        BY <2>3, <3>2, ChargedChanges
      <3> QED
        BY <1>1, <3>1, <3>2
    <2> QED
      BY <2>1, <2>2, <2>4 DEF StoreKept, PersistentOverrunBounded
  <1> QED
    BY <1>3, <1>4, <1>5, <1>6 DEF BudgetInd

\* What a caller's step does to the callers.
LEMMA BudgetBecomes ==
  ASSUME BudgetTypes, NEW c \in Callers, NEW w \in [at : BudgetPlaces, cost : Nat], Become(c, w),
         w.at = "relock" => w.cost \in Costs
  PROVE  /\ caller' \in [Callers -> [at : BudgetPlaces, cost : Nat]]
         /\ \A d \in Callers : caller'[d].at = "relock" => caller'[d].cost \in Costs
         /\ \A d \in Callers : caller'[d] = IF d = c THEN w ELSE caller[d]
         /\ Passed' = IF w.at \in {"granted", "relock"} THEN Passed \cup {c} ELSE Passed \ {c}
  <1>1. \A d \in Callers : caller'[d] = IF d = c THEN w ELSE caller[d]
    BY DEF BudgetTypes, Become
  <1>2. caller' \in [Callers -> [at : BudgetPlaces, cost : Nat]]
    BY DEF BudgetTypes, Become
  <1>3. \A d \in Callers : caller'[d].at = "relock" => caller'[d].cost \in Costs
    BY <1>1 DEF BudgetTypes
  <1>4. Passed' = IF w.at \in {"granted", "relock"} THEN Passed \cup {c} ELSE Passed \ {c}
    BY <1>1 DEF Passed
  <1> QED
    BY <1>1, <1>2, <1>3, <1>4

LEMMA PassedCount ==
  /\ IsFiniteSet(Passed) /\ Cardinality(Passed) \in Nat
  /\ Cardinality(Passed) <= Cardinality(Callers) /\ Cardinality(Callers) \in Nat
  <1>1. Passed \subseteq Callers /\ IsFiniteSet(Callers)
    BY BudgetAssumption DEF Passed, BudgetAssumption
  <1> QED
    BY <1>1, FS_Subset, FS_CardinalityType

\* A step of a caller that changes no usage and lets nobody pass the check of the
\* store.
LEMMA BudgetQuiet ==
  ASSUME BudgetInd, NEW c \in Callers, NEW w \in [at : BudgetPlaces, cost : Nat], Become(c, w),
         w.at = "relock" => w.cost \in Costs,
         UNCHANGED <<checker, used, windowStart, clock, grants>>, LockHeld',
         \/ w.at \notin {"granted", "relock"}
         \/ c \in Passed
  PROVE  BudgetInd'
  <1>1. /\ caller' \in [Callers -> [at : BudgetPlaces, cost : Nat]]
        /\ \A d \in Callers : caller'[d].at = "relock" => caller'[d].cost \in Costs
        /\ Passed' = IF w.at \in {"granted", "relock"} THEN Passed \cup {c} ELSE Passed \ {c}
    BY BudgetBecomes DEF BudgetInd
  <1>2. BudgetTypes'
    BY <1>1 DEF BudgetInd, BudgetTypes
  <1>3. checker = "atomic" => WindowKept(grants, windowStart, used)'
    BY DEF BudgetInd, WindowKept, CentsOf
  <1>4. ASSUME checker = "persistent"
        PROVE  StoreKept'
    <2>1. Passed' \subseteq Passed
      BY <1>1
    <2>2. /\ Cardinality(Passed') \in Nat /\ Cardinality(Passed') <= Cardinality(Passed)
      BY <2>1, PassedCount, FS_Subset, FS_CardinalityType
    <2>3. StoreUsage' = StoreUsage /\ StoreUsage \in Nat
      BY DEF StoreUsage, Period, BudgetInd, BudgetTypes
    <2>4. Charged(StoreUsage, Cardinality(Passed))
      BY <1>4 DEF BudgetInd, StoreKept
    <2>5. Charged(StoreUsage, Cardinality(Passed'))
      <3>1. 0 \in Nat /\ 0 <= Max(Costs)
        BY MaxCost
      <3> QED
        BY <2>2, <2>3, <2>4, <3>1, PassedCount, ChargedChanges
    <2>6. PersistentOverrunBounded'
      BY <1>4 DEF BudgetInd, StoreKept, PersistentOverrunBounded
    <2> QED
      BY <2>3, <2>5, <2>6 DEF StoreKept, Charged, Overrun
  <1> QED
    BY <1>2, <1>3, <1>4 DEF BudgetInd

\* A step by which nobody takes the lock and c, if it had it, gives it back.
LEMMA LockPasses ==
  ASSUME BudgetInd, NEW c \in Callers, NEW w \in [at : BudgetPlaces, cost : Nat], Become(c, w),
         w.at = "relock" => w.cost \in Costs,
         w.at \notin {"check", "record"}, holder' = holder \ {c}
  PROVE  LockHeld'
  <1>1. \A d \in Callers : caller'[d] = IF d = c THEN w ELSE caller[d]
    BY BudgetBecomes DEF BudgetInd
  <1>2. holder = {d \in Callers : caller[d].at \in {"check", "record"}}
        /\ \A d, e \in holder : d = e
    BY DEF BudgetInd, LockHeld
  <1> QED
    BY <1>1, <1>2 DEF LockHeld

\* Only the one inside has the lock.
LEMMA LockEmptied ==
  ASSUME BudgetInd, NEW c \in Callers
  PROVE  /\ caller[c].at \in {"check", "record"} => holder \ {c} = {}
         /\ caller[c].at \notin {"check", "record"} => holder \ {c} = holder
  BY DEF BudgetInd, LockHeld

LEMMA QuietSteps ==
  ASSUME BudgetInd, NEW c \in Callers, NEW cost \in Costs,
         \/ Ask(c, cost) \/ Report(c, cost) \/ AcquireLock(c) \/ PersistentUnavailable(c)
         \/ Finish(c)
  PROVE  BudgetInd'
  <1>1. /\ cost \in Nat /\ caller[c].at \in BudgetPlaces /\ caller[c].cost \in Nat
        /\ checker \in {"default", "atomic", "persistent"}
    BY BudgetAssumption DEF BudgetAssumption, BudgetInd, BudgetTypes
  <1>2. CASE Ask(c, cost)
    <2> DEFINE w == At(IF checker = "persistent" THEN "query" ELSE "lock", cost)
    <2>1. /\ w \in [at : BudgetPlaces, cost : Nat] /\ Become(c, w) /\ w.at \in {"query", "lock"}
          /\ UNCHANGED <<checker, used, windowStart, clock, grants>> /\ holder' = holder
          /\ caller[c].at = "idle"
      BY <1>1, <1>2 DEF Ask, At, BudgetPlaces, Resting
    <2>2. LockHeld'
      BY <2>1, LockPasses, LockEmptied
    <2> HIDE DEF w
    <2> QED
      BY <2>1, <2>2, BudgetQuiet
  <1>3. CASE Report(c, cost)
    <2> DEFINE w == At("relock", cost)
    <2>1. /\ w \in [at : BudgetPlaces, cost : Nat] /\ Become(c, w) /\ w.at = "relock" /\ w.cost = cost
          /\ UNCHANGED <<checker, used, windowStart, clock, grants>> /\ holder' = holder
          /\ caller[c].at = "granted" /\ c \in Passed
      BY <1>1, <1>3 DEF Report, At, BudgetPlaces, Passed
    <2>2. LockHeld'
      BY <2>1, LockPasses, LockEmptied
    <2> HIDE DEF w
    <2> QED
      BY <2>1, <2>2, BudgetQuiet
  <1>4. CASE AcquireLock(c)
    <2> DEFINE w == At(IF caller[c].at = "lock" THEN "check" ELSE "record", caller[c].cost)
    <2>1. /\ w \in [at : BudgetPlaces, cost : Nat] /\ Become(c, w) /\ w.at \in {"check", "record"}
          /\ UNCHANGED <<checker, used, windowStart, clock, grants>>
          /\ holder = {} /\ holder' = {c}
      BY <1>1, <1>4 DEF AcquireLock, At, BudgetPlaces
    <2>2. \A d \in Callers : caller'[d] = IF d = c THEN w ELSE caller[d]
      <3> HIDE DEF w
      <3> QED
        BY <2>1, BudgetBecomes DEF BudgetInd
    <2>3. LockHeld'
      BY <2>1, <2>2 DEF BudgetInd, LockHeld
    <2> HIDE DEF w
    <2> QED
      BY <2>1, <2>3, BudgetQuiet
  <1>5. CASE PersistentUnavailable(c) \/ Finish(c)
    <2>1. ~ (-1 >= caller[c].cost)
      BY <1>1
    <2>2. /\ Resting \in [at : BudgetPlaces, cost : Nat] /\ Resting.at = "idle"
      BY DEF Resting, BudgetPlaces
    <2>3. /\ Become(c, Resting)
          /\ UNCHANGED <<checker, used, windowStart, clock, grants>> /\ holder' = holder
          /\ caller[c].at \in {"query", "granted"}
      BY <1>5, <2>1 DEF PersistentUnavailable, Finish
    <2>4. LockHeld'
      BY <2>2, <2>3, LockPasses, LockEmptied
    <2> QED
      BY <2>2, <2>3, <2>4, BudgetQuiet
  <1> QED
    BY <1>2, <1>3, <1>4, <1>5

LEMMA DefaultStep ==
  ASSUME BudgetInd, NEW c \in Callers, DefaultCheck(c)
  PROVE  BudgetInd'
  <1>1. PICK w : w \in {Resting, At("granted", 0)} /\ Become(c, w)
    BY DEF DefaultCheck
  <1>2. /\ w \in [at : BudgetPlaces, cost : Nat] /\ w.at \in {"idle", "granted"}
    BY <1>1 DEF Resting, At, BudgetPlaces
  <1>3. /\ checker = "default" /\ caller[c].at = "lock" /\ holder' = holder
        /\ UNCHANGED <<checker, used, windowStart, clock>>
    BY DEF DefaultCheck
  <1>4. LockHeld'
    BY <1>1, <1>2, <1>3, LockPasses, LockEmptied
  <1>5. grants' \in [Times -> Nat]
    BY DEF DefaultCheck, Grant, BudgetInd, BudgetTypes
  <1>6. /\ caller' \in [Callers -> [at : BudgetPlaces, cost : Nat]]
        /\ \A d \in Callers : caller'[d].at = "relock" => caller'[d].cost \in Costs
    BY <1>1, <1>2, BudgetBecomes DEF BudgetInd
  <1>7. BudgetTypes'
    BY <1>3, <1>5, <1>6 DEF BudgetInd, BudgetTypes
  <1> QED
    BY <1>3, <1>4, <1>7 DEF BudgetInd

LEMMA AtomicStep ==
  ASSUME BudgetInd, NEW c \in Callers, AtomicCheck(c) \/ AtomicRecord(c)
  PROVE  BudgetInd'
  <1>1. PICK w : w \in {Resting, At("granted", 0)} /\ Become(c, w)
    BY DEF AtomicCheck, AtomicRecord
  <1>2. /\ w \in [at : BudgetPlaces, cost : Nat] /\ w.at \in {"idle", "granted"}
    BY <1>1 DEF Resting, At, BudgetPlaces
  <1>3. /\ checker = "atomic" /\ caller[c].at \in {"check", "record"} /\ holder' = {}
        /\ UNCHANGED <<checker, clock>> /\ windowStart' = CurrentStart
    BY DEF AtomicCheck, AtomicRecord
  <1>4. LockHeld'
    BY <1>1, <1>2, <1>3, LockPasses, LockEmptied
  <1>5. /\ caller' \in [Callers -> [at : BudgetPlaces, cost : Nat]]
        /\ \A d \in Callers : caller'[d].at = "relock" => caller'[d].cost \in Costs
    BY <1>1, <1>2, BudgetBecomes DEF BudgetInd
  <1>6. /\ WindowKept(grants, CurrentStart, CurrentUsage)
        /\ CurrentStart \in Int /\ CurrentUsage \in Nat /\ clock <= CurrentStart + Window
        /\ BudgetTypes
    BY <1>3, StateFetched DEF BudgetInd
  <1>7. PICK cost \in Nat : cost = caller[c].cost
    BY DEF BudgetInd, BudgetTypes
  <1>8. Limit \in Nat /\ clock \in Times /\ grants \in [Times -> Nat]
    BY BudgetAssumption DEF BudgetAssumption, BudgetInd, BudgetTypes
  <1>9. /\ used' \in Nat /\ grants' \in [Times -> Nat]
        /\ WindowKept(grants', CurrentStart, used')
    <2>1. CASE AtomicCheck(c) /\ CurrentUsage + cost > Limit
      BY <1>6, <1>7, <1>8, <2>1 DEF AtomicCheck
    <2>2. CASE AtomicCheck(c) /\ ~ (CurrentUsage + cost > Limit)
      <3>1. /\ used' = CurrentUsage + cost
            /\ grants' = [grants EXCEPT ![clock] = grants[clock] + cost]
        BY <1>7, <2>2 DEF AtomicCheck, Grant
      <3>2. /\ grants' \in [Times -> Nat]
            /\ \A t \in Times : grants'[t] = IF t = clock THEN grants[clock] + cost ELSE grants[t]
        BY <1>8, <3>1
      <3>3. CurrentUsage + cost <= Limit
        BY <1>6, <1>8, <2>2
      <3>4. WindowKept(grants', CurrentStart, CurrentUsage + cost)
        BY <1>6, <3>2, <3>3, WindowGrants
      <3> QED
        BY <1>6, <3>1, <3>2, <3>4
    <2>3. CASE AtomicRecord(c)
      <3>1. used' = CurrentUsage + cost /\ grants' = grants
        BY <1>7, <2>3 DEF AtomicRecord
      <3>2. Cardinality(CentsOf(grants, CurrentStart, MaxBudgetTime)) \in Nat
        BY <1>6, <1>8, CentsCount DEF WindowKept
      <3>3. Cardinality(CentsOf(grants, CurrentStart, MaxBudgetTime)) <= CurrentUsage + cost
        BY <1>6, <3>2 DEF WindowKept
      <3> QED
        BY <1>6, <1>8, <3>1, <3>3 DEF WindowKept
    <2> QED
      BY <2>1, <2>2, <2>3
  <1>10. BudgetTypes'
    BY <1>3, <1>5, <1>6, <1>9 DEF BudgetTypes
  <1>11. WindowKept(grants, windowStart, used)'
    BY <1>3, <1>9 DEF WindowKept, CentsOf
  <1> QED
    BY <1>3, <1>4, <1>10, <1>11 DEF BudgetInd

LEMMA StoreCheckStep ==
  ASSUME BudgetInd, NEW c \in Callers, PersistentCheck(c)
  PROVE  BudgetInd'
  <1>1. PICK w : /\ w \in {Resting, At("granted", 0)} /\ Become(c, w)
                 /\ w = IF StoreAllows /\ Limit - StoreUsage >= caller[c].cost
                        THEN At("granted", 0) ELSE Resting
    BY DEF PersistentCheck
  <1>2. /\ w \in [at : BudgetPlaces, cost : Nat] /\ w.at \in {"idle", "granted"}
        /\ w.at = "granted" => StoreAllows
    BY <1>1 DEF Resting, At, BudgetPlaces
  <1>3. /\ checker = "persistent" /\ caller[c].at = "query" /\ holder' = holder
        /\ UNCHANGED <<checker, used, windowStart, clock, grants>>
    BY DEF PersistentCheck
  <1>4. LockHeld'
    BY <1>1, <1>2, <1>3, LockPasses, LockEmptied
  <1>5. CASE w.at = "idle"
    BY <1>1, <1>2, <1>3, <1>4, <1>5, BudgetQuiet
  <1>6. CASE w.at = "granted"
    <2>1. /\ caller' \in [Callers -> [at : BudgetPlaces, cost : Nat]]
          /\ \A d \in Callers : caller'[d].at = "relock" => caller'[d].cost \in Costs
      BY <1>1, <1>2, BudgetBecomes DEF BudgetInd
    <2>2. BudgetTypes'
      BY <1>3, <2>1 DEF BudgetInd, BudgetTypes
    <2>3. Passed' \subseteq Callers /\ IsFiniteSet(Callers)
      BY BudgetAssumption DEF Passed, BudgetAssumption
    <2>4. Cardinality(Passed') \in Nat /\ Cardinality(Passed') <= Cardinality(Callers)
      BY <2>3, FS_Subset, FS_CardinalityType
    <2>5. StoreUsage' = StoreUsage /\ StoreUsage \in Nat /\ StoreUsage < Limit
      BY <1>2, <1>3, <1>6 DEF StoreUsage, Period, StoreAllows, BudgetInd, BudgetTypes
    <2>6. Charged(StoreUsage, Cardinality(Passed'))
      <3>1. 0 \in Nat /\ 0 <= Max(Costs)
        BY MaxCost
      <3> QED
        BY <2>4, <2>5, <3>1, ChargedChanges
    <2>7. PersistentOverrunBounded'
      BY <1>3 DEF BudgetInd, StoreKept, PersistentOverrunBounded
    <2>8. StoreKept'
      BY <2>5, <2>6, <2>7 DEF StoreKept, Charged, Overrun
    <2> QED
      BY <1>3, <1>4, <2>2, <2>8 DEF BudgetInd
  <1> QED
    BY <1>2, <1>5, <1>6

LEMMA StoreRecordStep ==
  ASSUME BudgetInd, NEW c \in Callers, PersistentRecord(c)
  PROVE  BudgetInd'
  <1>1. /\ Resting \in [at : BudgetPlaces, cost : Nat] /\ Resting.at = "idle" /\ Become(c, Resting)
        /\ checker = "persistent" /\ caller[c].at = "relock" /\ holder' = holder
        /\ UNCHANGED <<checker, clock>> /\ windowStart' = Period
    BY DEF PersistentRecord, Resting, BudgetPlaces
  <1>2. PICK cost \in Costs : cost = caller[c].cost
    BY <1>1 DEF BudgetInd, BudgetTypes
  <1>3. cost \in Nat /\ cost <= Max(Costs)
    BY MaxCost, BudgetAssumption DEF BudgetAssumption
  <1>4. /\ caller' \in [Callers -> [at : BudgetPlaces, cost : Nat]]
        /\ \A d \in Callers : caller'[d].at = "relock" => caller'[d].cost \in Costs
        /\ Passed' = Passed \ {c}
    BY <1>1, BudgetBecomes DEF BudgetInd
  <1>5. LockHeld'
    BY <1>1, LockPasses, LockEmptied
  <1>6. /\ StoreUsage \in Nat /\ Period \in Nat /\ Period' = Period
        /\ used' = StoreUsage + cost /\ StoreUsage' = StoreUsage + cost
    <2>1. clock \in Nat /\ Window \in Nat /\ Window > 0
      BY BudgetAssumption DEF BudgetAssumption, BudgetInd, BudgetTypes, Times
    <2>2. Period \in Nat /\ Period' = Period
      BY <1>1, <2>1, PeriodGrows DEF Period
    <2>3. StoreUsage \in Nat /\ used' = StoreUsage + cost
      BY <1>2 DEF PersistentRecord, StoreUsage, BudgetInd, BudgetTypes
    <2> QED
      BY <1>1, <2>2, <2>3 DEF StoreUsage
  <1>7. BudgetTypes'
    <2>1. grants' \in [Times -> Nat]
      BY <1>2, <1>3 DEF PersistentRecord, Grant, BudgetInd, BudgetTypes
    <2> QED
      BY <1>1, <1>3, <1>4, <1>6, <2>1 DEF BudgetInd, BudgetTypes
  <1>8. /\ c \in Passed
        /\ Cardinality(Passed') = Cardinality(Passed) - 1 /\ Cardinality(Passed) > 0
    <2>1. c \in Passed
      BY <1>1 DEF Passed
    <2>2. Cardinality(Passed') = Cardinality(Passed) - 1
      BY <1>4, <2>1, PassedCount, FS_RemoveElement
    <2>3. Cardinality(Passed) # 0
      BY <2>1, PassedCount, FS_EmptySet
    <2> QED
      BY <2>1, <2>2, <2>3, PassedCount
  <1>9. Charged(StoreUsage, Cardinality(Passed))
    BY <1>1 DEF BudgetInd, StoreKept
  <1>10. Charged(StoreUsage + cost, Cardinality(Passed) - 1)
    BY <1>3, <1>6, <1>8, <1>9, PassedCount, ChargedChanges
  <1>11. StoreUsage + cost = 0 \/ StoreUsage + cost < Overrun
    <2>1. /\ StoreUsage + cost \in Nat /\ Cardinality(Passed) - 1 \in Nat
          /\ Cardinality(Passed) - 1 <= Cardinality(Callers)
      BY <1>3, <1>6, <1>8, PassedCount
    <2> QED
      BY <1>3, <1>10, <2>1, ChargedChanges
  <1>12. StoreKept'
    BY <1>6, <1>8, <1>10, <1>11
       DEF StoreKept, PersistentOverrunBounded, Charged, Overrun
  <1> QED
    BY <1>1, <1>5, <1>7, <1>12 DEF BudgetInd

\* Time and the administrator only lower what the store counts.
LEMMA StoreLowered ==
  ASSUME BudgetInd, checker = "persistent", UNCHANGED <<checker, caller>>,
         StoreUsage' \in {0, StoreUsage}, used' \in {0, used}
  PROVE  StoreKept'
  <1>1. Passed' = Passed
    BY DEF Passed
  <1>2. Charged(StoreUsage, Cardinality(Passed)) /\ PersistentOverrunBounded
    BY DEF BudgetInd, StoreKept
  <1>3. Charged(0, Cardinality(Passed))
    <2>1. Limit \in Nat /\ 0 <= Max(Costs)
      BY BudgetAssumption, MaxCost DEF BudgetAssumption
    <2>2. CASE Limit = 0
      BY <1>2, <2>2 DEF Charged
    <2>3. CASE Limit > 0
      BY <2>1, <2>3, PassedCount, ChargedChanges
    <2> QED
      BY <2>1, <2>2, <2>3
  <1>4. PersistentOverrunBounded'
    BY <1>2 DEF PersistentOverrunBounded
  <1> QED
    BY <1>1, <1>2, <1>3, <1>4 DEF StoreKept, Charged, Overrun

LEMMA ResetStep ==
  ASSUME BudgetInd, ResetPeriod
  PROVE  BudgetInd'
  <1>1. /\ checker = "persistent" /\ used' = 0
        /\ UNCHANGED <<checker, windowStart, holder, caller, clock, grants>>
    BY DEF ResetPeriod
  <1>2. StoreKept'
    BY <1>1, StoreLowered DEF StoreUsage, Period
  <1> QED
    BY <1>1, <1>2 DEF BudgetInd, BudgetTypes, LockHeld

LEMMA BudgetTickStep ==
  ASSUME BudgetInd, BudgetTick
  PROVE  BudgetInd'
  <1>1. /\ clock' = clock + 1 /\ clock' \in Times /\ clock \in Nat
        /\ UNCHANGED <<checker, used, windowStart, holder, caller, grants>>
        /\ windowStart \in Int /\ Window \in Nat /\ Window > 0
        /\ \A t \in Times : t \in Nat
    BY BudgetAssumption DEF BudgetAssumption, BudgetTick, BudgetInd, BudgetTypes, Times
  <1>2. BudgetTypes' /\ LockHeld'
    BY <1>1 DEF BudgetInd, BudgetTypes, LockHeld
  <1>3. ASSUME checker = "atomic"
        PROVE  WindowKept(grants, windowStart, used)'
    <2>1. /\ windowStart <= clock'
          /\ \A t \in Times : grants[t] > 0 => t <= clock' /\ t <= windowStart + Window
      BY <1>1, <1>3 DEF BudgetInd, WindowKept
    <2> QED
      BY <1>1, <1>3, <2>1 DEF BudgetInd, WindowKept, CentsOf
  <1>4. ASSUME checker = "persistent"
        PROVE  StoreKept'
    <2>1. Period \in Nat /\ Period <= Period'
      BY <1>1, PeriodGrows DEF Period
    <2>2. Period' \in Nat
      BY <1>1, PeriodGrows DEF Period
    <2>3. StoreUsage' \in {0, StoreUsage}
      BY <1>1, <2>1, <2>2 DEF StoreUsage
    <2> QED
      BY <1>1, <1>4, <2>3, StoreLowered
  <1> QED
    BY <1>1, <1>2, <1>3, <1>4 DEF BudgetInd

LEMMA BudgetStep == BudgetInd /\ [BudgetNext]_budgetVars => BudgetInd'
  <1> SUFFICES ASSUME BudgetInd, [BudgetNext]_budgetVars PROVE BudgetInd'
    OBVIOUS
  <1>1. PICK any \in Costs : TRUE
    BY BudgetAssumption DEF BudgetAssumption
  <1>2. CASE BudgetNext
    BY <1>1, <1>2, QuietSteps, DefaultStep, AtomicStep, StoreCheckStep, StoreRecordStep,
       ResetStep, BudgetTickStep DEF BudgetNext
  <1>3. CASE UNCHANGED budgetVars
    <2>1. UNCHANGED <<checker, used, windowStart, holder, caller, clock, grants>>
      BY <1>3 DEF budgetVars
    <2>2. StoreUsage' = StoreUsage
      BY <2>1 DEF StoreUsage, Period
    <2>3. checker = "persistent" => StoreKept'
      BY <2>1, <2>2, StoreLowered
    <2>4. checker = "atomic" => WindowKept(grants, windowStart, used)'
      BY <2>1 DEF BudgetInd, WindowKept, CentsOf
    <2> QED
      BY <2>1, <2>3, <2>4 DEF BudgetInd, BudgetTypes, LockHeld
  <1> QED
    BY <1>2, <1>3

LEMMA BudgetIndImplies == BudgetInd => BudgetInvariant
  <1> SUFFICES ASSUME BudgetInd PROVE BudgetInvariant
    OBVIOUS
  <1>1. BudgetTypeOK
    <2>1. Cardinality(holder) <= 1
      <3>1. CASE holder = {}
        BY <3>1, FS_EmptySet
      <3>2. CASE holder # {}
        <4>1. PICK c \in holder : holder = {c}
          BY <3>2 DEF BudgetInd, LockHeld
        <4>2. Cardinality({c}) = 1
          BY FS_Singleton
        <4> QED
          BY <4>1, <4>2
      <3> QED
        BY <3>1, <3>2
    <2> QED
      BY <2>1 DEF BudgetTypeOK, BudgetInd, BudgetTypes, LockHeld
  <1>2. ASSUME checker = "atomic"
        PROVE  /\ ~Expired => Cardinality(Granted(windowStart, clock)) <= Limit
               /\ \A t \in Times : Cardinality(Granted(t, t + Window)) <= 2 * Limit
    <2>1. \A a, b : Granted(a, b) = CentsOf(grants, a, b)
      BY DEF Granted, CentsOf
    <2>2. /\ IsFiniteSet(CentsOf(grants, 0, MaxBudgetTime))
          /\ Cardinality(CentsOf(grants, windowStart, MaxBudgetTime)) <= Limit
          /\ \A t \in Times : Cardinality(CentsOf(grants, t, t + Window)) <= 2 * Limit
          /\ grants \in [Times -> Nat] /\ Limit \in Nat
      BY <1>2, BudgetAssumption DEF BudgetInd, WindowKept, BudgetTypes, BudgetAssumption
    <2>3. \A t \in Times : t <= MaxBudgetTime
      BY BudgetAssumption DEF BudgetAssumption, Times
    <2>4. /\ Cardinality(CentsOf(grants, windowStart, clock))
               <= Cardinality(CentsOf(grants, windowStart, MaxBudgetTime))
          /\ Cardinality(CentsOf(grants, windowStart, clock)) \in Nat
          /\ Cardinality(CentsOf(grants, windowStart, MaxBudgetTime)) \in Nat
      BY <2>2, <2>3, CentsCount
    <2>5. Cardinality(CentsOf(grants, windowStart, clock)) <= Limit
      BY <2>2, <2>4
    <2> QED
      BY <2>1, <2>2, <2>5
  <1>3. PersistentOverrunBounded
    BY DEF BudgetInd, StoreKept, PersistentOverrunBounded
  <1> QED
    BY <1>1, <1>2, <1>3 DEF BudgetInvariant, AtomicHolds

\* For any callers, costs, limit and window: whatever the order of concurrent
\* checks and records, AtomicBudgetChecker grants no more than the limit in a
\* window and twice the limit in any stretch as long as one, and
\* PersistentBudgetChecker, which reserves nothing, overruns its limit by less
\* than one cost for every caller.
THEOREM BudgetsHold == BudgetSpec => []BudgetInvariant
  BY BudgetStarts, BudgetStep, BudgetIndImplies, PTL DEF BudgetSpec
=============================================================================
