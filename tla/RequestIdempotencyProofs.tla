---------------------- MODULE RequestIdempotencyProofs ----------------------
(***************************************************************************)
(* Proofs about RequestIdempotency, for any requests with one key, any     *)
(* bodies, any time to live and stale window, and any number of attempts.  *)
(***************************************************************************)
EXTENDS RequestIdempotency, TLAPS

\* The bounds on the time a claim and a request take: a claim is over before a
\* row it could find pending counts as stale, and a request, with the writes
\* that come after its end, before its row expires.
Timely == ClaimLimit <= StaleTicks /\ RequestLimit < TtlTicks

\* The request runs its handler, may still run it, or has run it.
Claimed(r) == pc[r] \in {"policy", "handle", "persist"} \/ r \in called

\* The write k of the request is about to be executed, or may still come.
At(r, k) == pc[r] = k \/ <<r, k>> \in flight

\* updated_at moves with every write.
Current == /\ row # NoRow => row.updated <= writes
           /\ \A r \in Requests : seen[r] <= writes

\* Where a request can be in view of what it has done.
Places == \A r \in Requests :
  /\ pc[r] = "idle" => age[r] = 0
  /\ pc[r] \in {"handle", "persist"} => r \in called
  /\ r \in called => pc[r] \in {"handle", "persist"} \cup Ended
  /\ pc[r] \notin Ended => outcome[r].kind = "none" /\ attempt[r] < ReloadLimit

\* Who has sent a write without waiting for it is gone.
Orphans == \A r \in Requests, k \in Writing : <<r, k>> \in flight =>
  pc[r] \in Ended /\ (k = "persist" => r \in called)

\* A row that is still the one a request read is as expired, or as stale, as
\* it was then.
SeenOld == \A r \in Requests : row # NoRow /\ row.updated = seen[r] =>
  /\ At(r, "reset") => row.life = 0
  /\ At(r, "recover") => row.staleIn = 0

\* Requests and their writes keep within the bounds on their time.
InBounds == \A r \in Requests :
  /\ Busy(r, Claiming) => age[r] <= ClaimLimit
  /\ Busy(r, Points) => age[r] <= RequestLimit

\* The row outlives the request that has claimed the key, and is that
\* request's as long as its time to live lasts.
ClaimCovered == \A r \in Requests : Claimed(r) =>
  /\ row # NoRow
  /\ row.life + age[r] >= TtlTicks
  /\ age[r] < TtlTicks =>
       /\ row.body = Body[r]
       /\ row.status = "pending" => row.staleIn + age[r] >= StaleTicks
       /\ row.status = "completed" => row.response = r

\* One request in a time to live has the key.
OneClaim == \A r, s \in Requests :
  Claimed(r) /\ Claimed(s) /\ age[r] < TtlTicks /\ age[s] < TtlTicks => r = s

\* A recorded answer comes from a handler that was called with the row's body.
AnswerCalled == row # NoRow /\ row.status = "completed" =>
  row.response \in called /\ Body[row.response] = row.body

\* A request that gave its own answer has left its row settled.
FreshRecorded == \A r \in Requests : outcome[r].kind = "fresh" =>
  r \in called /\ (age[r] < TtlTicks => row.status # "pending")

\* What ties the requests to the row.
RowInd == /\ Current /\ SeenOld /\ ClaimCovered /\ OneClaim
          /\ AnswerCalled /\ FreshRecorded

\* Where the requests are, and what they were told.
RequestsInd == TypeOK /\ Places /\ Orphans /\ InBounds /\ ReplayIsOfSameRequest

\* The inductive invariant.
KeyInd == RequestsInd /\ RowInd

-----------------------------------------------------------------------------
LEMMA KeyStarts == Init => KeyInd
  BY NoRowAssumption, NoOneAssumption, TimingAssumption, LimitAssumption
     DEF Init, KeyInd, RequestsInd, TypeOK, ReplayIsOfSameRequest, Current, Places, Orphans, SeenOld,
         InBounds, RowInd, ClaimCovered, OneClaim, AnswerCalled, FreshRecorded,
         Claimed, At, Busy,
         Claiming, Points, Writing, Ended, Kinds

\* A stutter leaves everything as it is.
LEMMA KeyStutters ==
  ASSUME KeyInd, UNCHANGED vars
  PROVE  KeyInd'
  BY DEF vars, KeyInd, RequestsInd, TypeOK, ReplayIsOfSameRequest, Current, Places, Orphans, SeenOld,
         InBounds, RowInd, ClaimCovered, OneClaim, AnswerCalled, FreshRecorded,
         Claimed, At, Busy

-----------------------------------------------------------------------------
(* The writes *)

\* The row and the count after a write that does not find its row.
LEMMA MissedWrite ==
  ASSUME NEW r \in Requests, NEW k \in Writing, Execute(r, k), ~Fits(r, k)
  PROVE  row' = row /\ writes' = writes
  BY DEF Execute

LEMMA ClaimWrite ==
  ASSUME TypeOK, NEW r \in Requests, NEW k \in {"insert", "reset"}, Execute(r, k), Fits(r, k)
  PROVE  /\ row' \in Row /\ row' # NoRow
         /\ row'.body = Body[r] /\ row'.status = "pending"
         /\ row'.life = TtlTicks - age[r] /\ row'.staleIn + age[r] >= StaleTicks
         /\ row'.updated = writes + 1 /\ writes' = writes + 1
  <1>1. age[r] \in 0..TtlTicks /\ writes \in Nat
    BY DEF TypeOK
  <1>2. /\ row' = [body |-> Body[r], status |-> "pending", response |-> NoOne,
                   life |-> TtlTicks - age[r], staleIn |-> Youth(r), updated |-> writes + 1]
        /\ writes' = writes + 1
    BY DEF Execute, Lives, Left, Written
  <1>3. Youth(r) \in 0..StaleTicks /\ Youth(r) + age[r] >= StaleTicks
    BY <1>1, TimingAssumption DEF Youth
  <1>4. row' \in Row
    BY <1>1, <1>2, <1>3, TimingAssumption DEF Row
  <1> QED
    BY <1>2, <1>3, <1>4, NoRowAssumption

LEMMA RecoverWrite ==
  ASSUME TypeOK, NEW r \in Requests, Execute(r, "recover"), Fits(r, "recover")
  PROVE  /\ row # NoRow /\ row.status = "pending" /\ row.updated = seen[r]
         /\ row' \in Row /\ row' # NoRow
         /\ row'.body = row.body /\ row'.status = "recovery_required"
         /\ row'.life = TtlTicks - age[r]
         /\ row'.updated = writes + 1 /\ writes' = writes + 1
  <1>1. age[r] \in 0..TtlTicks /\ writes \in Nat /\ row # NoRow /\ row \in Row
    BY DEF TypeOK, Fits
  <1>2. /\ row' = [row EXCEPT !.status = "recovery_required", !.life = TtlTicks - age[r],
                              !.staleIn = Youth(r), !.updated = writes + 1]
        /\ writes' = writes + 1
    BY DEF Execute, Lives, Left, Written
  <1>3. Youth(r) \in 0..StaleTicks
    BY <1>1, TimingAssumption DEF Youth
  <1>4. row' = [body |-> row.body, status |-> "recovery_required", response |-> row.response,
                life |-> TtlTicks - age[r], staleIn |-> Youth(r), updated |-> writes + 1]
    BY <1>1, <1>2 DEF Row
  <1>5. row' \in Row
    BY <1>1, <1>3, <1>4, TimingAssumption DEF Row
  <1> QED
    BY <1>1, <1>2, <1>4, <1>5, NoRowAssumption DEF Fits

LEMMA PersistWrite ==
  ASSUME TypeOK, NEW r \in Requests, Execute(r, "persist"), Fits(r, "persist")
  PROVE  /\ row # NoRow /\ row.status = "pending" /\ row.body = Body[r]
         /\ row' \in Row /\ row' # NoRow
         /\ row'.body = row.body /\ row'.status = "completed" /\ row'.response = r
         /\ row'.life + age[r] >= TtlTicks
         /\ row'.updated = writes + 1 /\ writes' = writes + 1
  <1>1. age[r] \in 0..TtlTicks /\ writes \in Nat /\ row # NoRow /\ row \in Row
    BY DEF TypeOK, Fits
  <1>2. PICK life \in TtlTicks - age[r] .. TtlTicks :
          row' = [row EXCEPT !.status = "completed", !.response = r, !.life = life,
                             !.staleIn = StaleTicks, !.updated = writes + 1]
    BY DEF Execute, Lives, Left, Written
  <1>3. writes' = writes + 1
    BY DEF Execute
  <1>4. life \in 0..TtlTicks /\ life + age[r] >= TtlTicks
    BY <1>1, TimingAssumption
  <1>5. row' = [body |-> row.body, status |-> "completed", response |-> r, life |-> life,
                staleIn |-> StaleTicks, updated |-> writes + 1]
    BY <1>1, <1>2 DEF Row
  <1>6. row' \in Row
    BY <1>1, <1>4, <1>5, TimingAssumption DEF Row
  <1> QED
    BY <1>1, <1>3, <1>4, <1>5, <1>6, NoRowAssumption DEF Fits

\* When a claim finds its row, no request in its time to live has the key.
LEMMA NoLiveClaim ==
  ASSUME KeyInd, NEW r \in Requests, NEW k \in {"insert", "reset"}, At(r, k), Fits(r, k),
         NEW s \in Requests, Claimed(s)
  PROVE  k = "reset" /\ row # NoRow /\ row.life = 0 /\ age[s] = TtlTicks
  <1>1. row # NoRow /\ row.life + age[s] >= TtlTicks
    BY DEF KeyInd, RowInd, ClaimCovered
  <1>2. k = "reset" /\ row.updated = seen[r]
    BY <1>1 DEF Fits
  <1>3. row.life = 0
    BY <1>1, <1>2 DEF KeyInd, RowInd, SeenOld
  <1> QED
    BY <1>1, <1>2, <1>3, TimingAssumption DEF KeyInd, RequestsInd, TypeOK

-----------------------------------------------------------------------------
(* What a step does to the part of the invariant that is about the row *)

\* A step that leaves the row alone and gives nobody a claim.
LEMMA RowAlone ==
  ASSUME KeyInd, UNCHANGED <<row, writes, age>>, called \subseteq called',
         \A s \in Requests :
           /\ Claimed(s)' => Claimed(s)
           /\ \A k \in {"reset", "recover"} : At(s, k)' => At(s, k) /\ seen'[s] = seen[s]
           /\ outcome'[s].kind = "fresh" => outcome[s].kind = "fresh"
           /\ seen'[s] <= writes
  PROVE  RowInd'
  <1>1. Current' /\ AnswerCalled' /\ FreshRecorded'
    BY DEF KeyInd, RowInd, Current, AnswerCalled, FreshRecorded
  <1>2. SeenOld'
    BY DEF KeyInd, RowInd, SeenOld
  <1>3. ClaimCovered' /\ OneClaim'
    BY DEF KeyInd, RowInd, ClaimCovered, OneClaim
  <1> QED
    BY <1>1, <1>2, <1>3 DEF RowInd

\* A claim that finds its row, whether its request still waits for it or not.
LEMMA RowClaimed ==
  ASSUME KeyInd, NEW r \in Requests, NEW k \in {"insert", "reset"},
         At(r, k), Fits(r, k), Execute(r, k), UNCHANGED <<age, seen, called, outcome>>,
         \A s \in Requests : Claimed(s)' => Claimed(s) \/ s = r
  PROVE  RowInd'
  <1>1. /\ row' \in Row /\ row' # NoRow
        /\ row'.body = Body[r] /\ row'.status = "pending"
        /\ row'.life = TtlTicks - age[r] /\ row'.staleIn + age[r] >= StaleTicks
        /\ row'.updated = writes + 1 /\ writes' = writes + 1
    BY ClaimWrite DEF KeyInd, RequestsInd
  <1>2. \A s \in Requests : Claimed(s) => age[s] = TtlTicks
    BY NoLiveClaim
  <1>3. writes \in Nat /\ \A s \in Requests : seen[s] \in Nat /\ age[s] \in 0..TtlTicks
    BY DEF KeyInd, RequestsInd, TypeOK
  <1>4. Current' /\ AnswerCalled'
    BY <1>1, <1>3 DEF KeyInd, RowInd, Current, AnswerCalled
  <1>5. SeenOld'
    BY <1>1, <1>3 DEF KeyInd, RowInd, Current, SeenOld
  <1>6. ClaimCovered'
    BY <1>1, <1>2, <1>3, TimingAssumption DEF ClaimCovered, Row
  <1>7. OneClaim'
    BY <1>2, <1>3, TimingAssumption DEF OneClaim
  <1>8. FreshRecorded'
    BY <1>2, <1>3, TimingAssumption DEF KeyInd, RowInd, FreshRecorded, Claimed
  <1> QED
    BY <1>4, <1>5, <1>6, <1>7, <1>8 DEF RowInd

\* A recovery that finds its row: the row counts as stale, so its owner began
\* before the request that recovers it.
LEMMA RowRecovered ==
  ASSUME KeyInd, Timely, NEW r \in Requests,
         At(r, "recover"), Fits(r, "recover"), Execute(r, "recover"),
         UNCHANGED <<age, seen, called>>,
         \A s \in Requests : /\ Claimed(s)' => Claimed(s)
                             /\ outcome'[s].kind = "fresh" => outcome[s].kind = "fresh"
  PROVE  RowInd'
  <1>1. /\ row # NoRow /\ row.status = "pending" /\ row.updated = seen[r]
        /\ row' \in Row /\ row' # NoRow
        /\ row'.body = row.body /\ row'.status = "recovery_required"
        /\ row'.life = TtlTicks - age[r]
        /\ row'.updated = writes + 1 /\ writes' = writes + 1
    BY RecoverWrite DEF KeyInd, RequestsInd
  <1>2. /\ writes \in Nat /\ row \in Row
        /\ \A s \in Requests : seen[s] \in Nat /\ age[s] \in 0..TtlTicks
    BY <1>1 DEF KeyInd, RequestsInd, TypeOK
  <1>3. row.staleIn = 0
    BY <1>1 DEF KeyInd, RowInd, SeenOld
  <1>4. age[r] <= ClaimLimit
    BY DEF KeyInd, RequestsInd, InBounds, At, Busy, Claiming
  <1>5. Current' /\ AnswerCalled' /\ FreshRecorded'
    BY <1>1, <1>2 DEF KeyInd, RowInd, Current, AnswerCalled, FreshRecorded
  <1>6. SeenOld'
    BY <1>1, <1>2 DEF KeyInd, RowInd, Current, SeenOld
  <1>7. ASSUME NEW s \in Requests, Claimed(s)
        PROVE  age[s] < TtlTicks => age[s] >= age[r] /\ row.body = Body[s]
    BY <1>1, <1>2, <1>3, <1>4, <1>7, LimitAssumption, TimingAssumption
       DEF KeyInd, RowInd, ClaimCovered, Timely
  <1>8. ClaimCovered'
    BY <1>1, <1>2, <1>7, TimingAssumption DEF ClaimCovered
  <1>9. OneClaim'
    BY DEF KeyInd, RowInd, OneClaim
  <1> QED
    BY <1>5, <1>6, <1>8, <1>9 DEF RowInd

\* An answer that finds its row: the row is still that of the request.
LEMMA RowPersisted ==
  ASSUME KeyInd, Timely, NEW r \in Requests,
         At(r, "persist"), Fits(r, "persist"), Execute(r, "persist"),
         UNCHANGED <<age, seen, called>>,
         \A s \in Requests : /\ Claimed(s)' => Claimed(s)
                             /\ outcome'[s].kind = "fresh" => outcome[s].kind = "fresh" \/ s = r
  PROVE  RowInd'
  <1>1. /\ row # NoRow /\ row.status = "pending" /\ row.body = Body[r]
        /\ row' \in Row /\ row' # NoRow
        /\ row'.body = row.body /\ row'.status = "completed" /\ row'.response = r
        /\ row'.life + age[r] >= TtlTicks
        /\ row'.updated = writes + 1 /\ writes' = writes + 1
    BY PersistWrite DEF KeyInd, RequestsInd
  <1>2. /\ writes \in Nat /\ row \in Row
        /\ \A s \in Requests : seen[s] \in Nat /\ age[s] \in 0..TtlTicks
    BY <1>1 DEF KeyInd, RequestsInd, TypeOK
  <1>3. r \in called /\ Claimed(r)
    BY DEF KeyInd, RequestsInd, Places, Orphans, At, Writing, Claimed
  <1>4. age[r] <= RequestLimit
    BY DEF KeyInd, RequestsInd, InBounds, At, Busy, Points
  <1>5. \A s \in Requests : Claimed(s) /\ age[s] < TtlTicks => s = r
    BY <1>2, <1>3, <1>4, LimitAssumption, TimingAssumption DEF KeyInd, RowInd, OneClaim, Timely
  <1>6. Current' /\ AnswerCalled' /\ FreshRecorded'
    BY <1>1, <1>2, <1>3 DEF KeyInd, RowInd, Current, AnswerCalled, FreshRecorded
  <1>7. SeenOld'
    BY <1>1, <1>2 DEF KeyInd, RowInd, Current, SeenOld
  <1>8. ClaimCovered'
    <2> SUFFICES ASSUME NEW s \in Requests, Claimed(s)
                 PROVE  /\ row'.life + age[s] >= TtlTicks
                        /\ age[s] < TtlTicks => s = r
      BY <1>1 DEF ClaimCovered
    <2> QED
      BY <1>1, <1>2, <1>5, TimingAssumption DEF Row
  <1>9. OneClaim'
    BY DEF KeyInd, RowInd, OneClaim
  <1> QED
    BY <1>6, <1>7, <1>8, <1>9 DEF RowInd

-----------------------------------------------------------------------------
(* What a step does to the part that is about the requests *)

\* A request ends, leaving a write behind or not.
LEMMA RequestEnds ==
  ASSUME KeyInd, NEW r \in Requests, NEW p \in Ended,
         pc[r] \notin {"idle"} \cup Ended, pc' = [pc EXCEPT ![r] = p], Abandon(r),
         UNCHANGED <<age, called>>,
         row' \in Row \cup {NoRow}, writes' \in Nat, seen' \in [Requests -> Nat],
         attempt' \in [Requests -> 0..ReloadLimit],
         outcome' \in [Requests -> [kind : Kinds, of : Requests \cup {NoOne}]],
         \A s \in Requests \ {r} : attempt'[s] = attempt[s] /\ outcome'[s] = outcome[s],
         outcome'[r].kind = "replay" =>
           outcome'[r].of \in called /\ Body[outcome'[r].of] = Body[r]
  PROVE  /\ RequestsInd'
         /\ \A s \in Requests : /\ Claimed(s)' => Claimed(s)
                                /\ \A k \in Writing : At(s, k)' => At(s, k)
  <1>1. /\ pc \in [Requests -> {"idle", "reload", "policy", "handle"} \cup Writing \cup Ended]
        /\ age \in [Requests -> 0..TtlTicks] /\ called \subseteq Requests
        /\ flight \subseteq Requests \X Writing
    BY DEF KeyInd, RequestsInd, TypeOK
  <1>2. \/ flight' = flight
        \/ pc[r] \in Writing /\ flight' = flight \cup {<<r, pc[r]>>}
    BY DEF Abandon
  <1>3. TypeOK'
    BY <1>1, <1>2 DEF TypeOK
  <1>4. Places'
    BY <1>1 DEF KeyInd, RequestsInd, Places, Ended
  <1>5. Orphans'
    BY <1>1, <1>2 DEF KeyInd, RequestsInd, Orphans, Places
  <1>6. \A s \in Requests : \A k : At(s, k)' => At(s, k) \/ k \in Ended
    BY <1>1, <1>2 DEF At
  <1>7. \A k \in Writing \cup Points : k \notin Ended
    BY DEF Writing, Points, Claiming, Ended
  <1>8. \A s \in Requests : /\ Busy(s, Claiming)' => Busy(s, Claiming)
                            /\ Busy(s, Points)' => Busy(s, Points)
    <2>1. \A s \in Requests : Busy(s, Claiming) <=> \E k \in Claiming : At(s, k)
      BY DEF Busy, At
    <2>2. \A s \in Requests : Busy(s, Points) <=> \E k \in Points : At(s, k)
      BY DEF Busy, At
    <2>3. \A s \in Requests : Busy(s, Claiming)' <=> \E k \in Claiming : At(s, k)'
      BY DEF Busy, At
    <2>4. \A s \in Requests : Busy(s, Points)' <=> \E k \in Points : At(s, k)'
      BY DEF Busy, At
    <2>5. Claiming \subseteq Points
      BY DEF Points
    <2> QED
      BY <1>6, <1>7, <2>1, <2>2, <2>3, <2>4, <2>5
  <1>9. InBounds'
    BY <1>8 DEF KeyInd, RequestsInd, InBounds
  <1>10. ReplayIsOfSameRequest'
    BY DEF KeyInd, RequestsInd, ReplayIsOfSameRequest
  <1>11. \A s \in Requests : Claimed(s)' => Claimed(s)
    BY <1>1 DEF Claimed, Ended
  <1> QED
    BY <1>3, <1>4, <1>5, <1>6, <1>7, <1>9, <1>10, <1>11 DEF RequestsInd

\* A request goes on to the point p.
LEMMA RequestMoves ==
  ASSUME KeyInd, NEW r \in Requests, NEW p \in Points,
         pc[r] \in Points \cup {"idle"}, p \in Claiming => pc[r] \in Claiming \cup {"idle"},
         pc' = [pc EXCEPT ![r] = p],
         UNCHANGED <<age, outcome, flight>>,
         row' \in Row \cup {NoRow}, writes' \in Nat, seen' \in [Requests -> Nat],
         attempt' \in [Requests -> 0..ReloadLimit], attempt'[r] < ReloadLimit,
         \A s \in Requests \ {r} : attempt'[s] = attempt[s],
         called' = called \/ called' = called \cup {r},
         r \in called' <=> p \in {"handle", "persist"}
  PROVE  RequestsInd'
  <1>1. /\ pc \in [Requests -> {"idle", "reload", "policy", "handle"} \cup Writing \cup Ended]
        /\ age \in [Requests -> 0..TtlTicks] /\ called \subseteq Requests
        /\ flight \subseteq Requests \X Writing
    BY DEF KeyInd, RequestsInd, TypeOK
  <1>2. pc[r] \notin Ended /\ p \notin Ended \cup {"idle"}
    BY DEF Points, Claiming, Ended
  <1>3. TypeOK'
    BY <1>1 DEF KeyInd, RequestsInd, TypeOK, Points, Claiming, Writing
  <1>4. Places'
    BY <1>1, <1>2 DEF KeyInd, RequestsInd, Places
  <1>5. Orphans'
    BY <1>1, <1>2 DEF KeyInd, RequestsInd, Orphans
  <1>6. /\ Busy(r, Claiming)' => Busy(r, Claiming) \/ age[r] = 0
        /\ Busy(r, Points)' => Busy(r, Points) \/ age[r] = 0
    BY <1>1 DEF KeyInd, RequestsInd, Places, Busy
  <1>7. \A s \in Requests \ {r} : /\ Busy(s, Claiming)' <=> Busy(s, Claiming)
                                  /\ Busy(s, Points)' <=> Busy(s, Points)
    BY <1>1 DEF Busy
  <1>8. InBounds'
    BY <1>6, <1>7, LimitAssumption DEF KeyInd, RequestsInd, InBounds
  <1>9. ReplayIsOfSameRequest'
    BY DEF KeyInd, RequestsInd, ReplayIsOfSameRequest
  <1> QED
    BY <1>3, <1>4, <1>5, <1>8, <1>9 DEF RequestsInd

-----------------------------------------------------------------------------
(* The steps of a request *)

\* A write leaves a row, or none as before.
LEMMA WriteTypes ==
  ASSUME TypeOK, NEW r \in Requests, NEW k \in Writing, Execute(r, k)
  PROVE  row' \in Row \cup {NoRow} /\ writes' \in Nat
  <1>1. CASE ~Fits(r, k)
    BY <1>1, MissedWrite DEF TypeOK
  <1>2. CASE Fits(r, k) /\ k \in {"insert", "reset"}
    BY <1>2, ClaimWrite DEF TypeOK
  <1>3. CASE Fits(r, k) /\ k = "recover"
    BY <1>3, RecoverWrite DEF TypeOK
  <1>4. CASE Fits(r, k) /\ k = "persist"
    BY <1>4, PersistWrite DEF TypeOK
  <1> QED
    BY <1>1, <1>2, <1>3, <1>4 DEF Writing

\* The types of what a step of a request changes.
LEMMA KeyTypes ==
  ASSUME KeyInd
  PROVE  /\ TypeOK /\ row \in Row \cup {NoRow} /\ writes \in Nat
         /\ pc \in [Requests -> {"idle", "reload", "policy", "handle"} \cup Writing \cup Ended]
         /\ seen \in [Requests -> Nat] /\ attempt \in [Requests -> 0..ReloadLimit]
         /\ called \subseteq Requests
         /\ outcome \in [Requests -> [kind : Kinds, of : Requests \cup {NoOne}]]
         /\ \A s \in Requests : seen[s] <= writes
  BY DEF KeyInd, RequestsInd, TypeOK, RowInd, Current

LEMMA BeginKeeps ==
  ASSUME KeyInd, NEW r \in Requests, Begin(r)
  PROVE  KeyInd'
  <1>1. pc[r] = "idle" /\ pc' = [pc EXCEPT ![r] = "insert"]
        /\ UNCHANGED <<row, writes, age, seen, attempt, called, outcome, flight>>
    BY DEF Begin, Goto
  <1>2. "insert" \in Points /\ "insert" \in Claiming /\ "idle" \notin Ended
    BY DEF Points, Claiming, Ended
  <1>3. attempt[r] < ReloadLimit /\ r \notin called
    BY <1>1, <1>2 DEF KeyInd, RequestsInd, Places
  <1>4. RequestsInd'
    BY <1>1, <1>2, <1>3, KeyTypes, RequestMoves
  <1>5. RowInd'
    BY <1>1, KeyTypes, RowAlone DEF Claimed, At
  <1> QED
    BY <1>4, <1>5 DEF KeyInd

LEMMA InsertKeeps ==
  ASSUME KeyInd, NEW r \in Requests, Insert(r)
  PROVE  KeyInd'
  <1>1. /\ pc[r] = "insert" /\ Execute(r, "insert")
        /\ pc' = [pc EXCEPT ![r] = IF Fits(r, "insert") THEN "policy" ELSE "reload"]
        /\ UNCHANGED <<age, seen, attempt, called, outcome, flight>>
    BY DEF Insert, Goto
  <1>2. /\ {"insert", "policy", "reload"} \subseteq Points
        /\ {"insert", "reload"} \subseteq Claiming /\ "policy" \notin Claiming
        /\ "insert" \in Writing /\ "insert" \notin Ended
    BY DEF Points, Claiming, Writing, Ended
  <1>3. attempt[r] < ReloadLimit /\ r \notin called
    BY <1>1, <1>2 DEF KeyInd, RequestsInd, Places
  <1>4. row' \in Row \cup {NoRow} /\ writes' \in Nat
    BY <1>1, <1>2, KeyTypes, WriteTypes
  <1>5. RequestsInd'
    BY <1>1, <1>2, <1>3, <1>4, KeyTypes, RequestMoves
  <1>6. CASE Fits(r, "insert")
    <2>1. \A s \in Requests : Claimed(s)' => Claimed(s) \/ s = r
      BY <1>1, KeyTypes DEF Claimed
    <2>2. RowInd'
      BY <1>1, <1>6, <2>1, RowClaimed DEF At
    <2> QED
      BY <1>5, <2>2 DEF KeyInd
  <1>7. CASE ~Fits(r, "insert")
    <2>1. UNCHANGED <<row, writes>>
      BY <1>1, <1>2, <1>7, MissedWrite
    <2>2. RowInd'
      BY <1>1, <1>7, <2>1, KeyTypes, RowAlone DEF Claimed, At
    <2> QED
      BY <1>5, <2>2 DEF KeyInd
  <1> QED
    BY <1>6, <1>7

\* What the request makes of the row, by the row.
LEMMA VerdictCases ==
  ASSUME KeyInd, NEW r \in Requests, row # NoRow
  PROVE  /\ Verdict(r) = "reset" => row.life = 0
         /\ Verdict(r) = "recover" => row.staleIn = 0
         /\ Verdict(r) = "replay" => row.status = "completed" /\ row.body = Body[r]
         /\ Verdict(r) \in {"reset", "recover"} \/ Verdict(r) \in Kinds \ {"fresh"}
         /\ row.life > 0 /\ row.body = Body[r] /\ row.status = "completed"
              => Verdict(r) = "replay"
  <1>1. row \in Row
    BY KeyTypes
  <1>2. row.life \in Nat /\ row.status \in {"pending", "completed", "recovery_required"}
    BY <1>1, TimingAssumption DEF Row
  <1> QED
    BY <1>2 DEF Verdict, Kinds

LEMMA ReloadKeeps ==
  ASSUME KeyInd, NEW r \in Requests, Reload(r)
  PROVE  KeyInd'
  <1>1. /\ pc[r] = "reload" /\ row # NoRow
        /\ seen' = [seen EXCEPT ![r] = row.updated]
        /\ UNCHANGED <<row, writes, age, attempt, called, flight>>
    BY DEF Reload
  <1>2. row \in Row /\ row.updated \in Nat /\ row.updated <= writes
    BY <1>1, KeyTypes DEF KeyInd, RowInd, Current, Row
  <1>3. seen' \in [Requests -> Nat] /\ \A s \in Requests : seen'[s] <= writes
    BY <1>1, <1>2, KeyTypes
  <1>4. "reload" \in Points /\ "reload" \in Claiming /\ "reload" \notin Ended \cup {"idle"}
    BY DEF Points, Claiming, Ended
  <1>5. attempt[r] < ReloadLimit /\ r \notin called /\ outcome[r].kind = "none"
    BY <1>1, <1>4 DEF KeyInd, RequestsInd, Places
  <1>6. \A k \in Writing : <<r, k>> \notin flight
    BY <1>1, <1>4 DEF KeyInd, RequestsInd, Orphans
  <1>7. CASE Verdict(r) \in {"reset", "recover"}
    <2>1. pc' = [pc EXCEPT ![r] = Verdict(r)] /\ outcome' = outcome
      BY <1>7 DEF Reload, Goto
    <2>2. Verdict(r) \in Points /\ Verdict(r) \in Claiming /\ Verdict(r) \notin {"handle", "persist"}
      BY <1>7 DEF Points, Claiming
    <2>3. RequestsInd'
      BY <1>1, <1>3, <1>4, <1>5, <2>1, <2>2, KeyTypes, RequestMoves
    <2>4. Current' /\ AnswerCalled' /\ FreshRecorded'
      BY <1>1, <1>3, <2>1 DEF KeyInd, RowInd, Current, AnswerCalled, FreshRecorded
    <2>5. \A s \in Requests : Claimed(s)' => Claimed(s)
      BY <1>1, <1>7, <2>1, KeyTypes DEF Claimed
    <2>6. ClaimCovered' /\ OneClaim'
      BY <1>1, <2>5 DEF KeyInd, RowInd, ClaimCovered, OneClaim
    <2>7. SeenOld'
      <3>1. \A s \in Requests \ {r} : \A k : At(s, k)' <=> At(s, k)
        BY <1>1, <2>1, KeyTypes DEF At
      <3>2. /\ At(r, "reset")' => Verdict(r) = "reset"
            /\ At(r, "recover")' => Verdict(r) = "recover"
        BY <1>1, <1>6, <2>1, KeyTypes DEF At, Writing
      <3> QED
        BY <1>1, <3>1, <3>2, KeyTypes, VerdictCases DEF KeyInd, RowInd, SeenOld
    <2> QED
      BY <2>3, <2>4, <2>6, <2>7 DEF KeyInd, RowInd
  <1>8. CASE Verdict(r) \notin {"reset", "recover"}
    <2> DEFINE of == IF Verdict(r) = "replay" THEN row.response ELSE NoOne
    <2>1. pc' = [pc EXCEPT ![r] = "done"]
          /\ outcome' = [outcome EXCEPT ![r] = [kind |-> Verdict(r), of |-> of]]
      BY <1>8 DEF Reload, Goto, Answer
    <2>2. Verdict(r) \in Kinds \ {"fresh"}
      BY <1>1, <1>8, VerdictCases
    <2>3. of \in Requests \cup {NoOne}
      BY <1>2 DEF Row
    <2>4. Verdict(r) = "replay" => of \in called /\ Body[of] = Body[r]
      BY <1>1, VerdictCases DEF KeyInd, RowInd, AnswerCalled
    <2>5. outcome' \in [Requests -> [kind : Kinds, of : Requests \cup {NoOne}]]
      BY <2>1, <2>2, <2>3, KeyTypes
    <2>6. outcome'[r].kind = Verdict(r) /\ outcome'[r].of = of
          /\ \A s \in Requests \ {r} : outcome'[s] = outcome[s]
      BY <2>1, KeyTypes
    <2>7. /\ RequestsInd'
          /\ \A s \in Requests : /\ Claimed(s)' => Claimed(s)
                                 /\ \A k \in Writing : At(s, k)' => At(s, k)
      <3>1. "done" \in Ended /\ Abandon(r) /\ pc[r] \notin {"idle"} \cup Ended
        BY <1>1, <1>4 DEF Ended, Abandon
      <3> HIDE DEF of
      <3> QED
        BY <1>1, <1>3, <2>1, <2>4, <2>5, <2>6, <3>1, KeyTypes, RequestEnds
    <2>8. \A s \in Requests : \A k \in {"reset", "recover"} : At(s, k)' =>
             At(s, k) /\ seen'[s] = seen[s]
      BY <1>1, <1>6, <2>7, KeyTypes DEF At, Writing
    <2>9. RowInd'
      BY <1>1, <1>3, <2>2, <2>6, <2>7, <2>8, RowAlone
    <2> QED
      BY <2>7, <2>9 DEF KeyInd
  <1> QED
    BY <1>7, <1>8

\* A request that is at its end with a refusal or an error.
LEMMA RefusalKeeps ==
  ASSUME KeyInd, NEW r \in Requests, NEW p \in Ended, NEW kind \in Kinds \ {"fresh", "replay"},
         pc[r] \notin {"idle"} \cup Ended, pc' = [pc EXCEPT ![r] = p], Abandon(r),
         Answer(r, kind, NoOne) \/ UNCHANGED outcome,
         attempt' \in [Requests -> 0..ReloadLimit],
         \A s \in Requests \ {r} : attempt'[s] = attempt[s],
         UNCHANGED <<row, writes, age, seen, called>>
  PROVE  KeyInd'
  <1>1. /\ outcome' \in [Requests -> [kind : Kinds, of : Requests \cup {NoOne}]]
        /\ \A s \in Requests \ {r} : outcome'[s] = outcome[s]
        /\ outcome'[r].kind = kind \/ outcome'[r] = outcome[r]
    BY KeyTypes DEF Answer
  <1>2. outcome[r].kind = "none"
    BY DEF KeyInd, RequestsInd, Places
  <1>3. /\ RequestsInd'
        /\ \A s \in Requests : /\ Claimed(s)' => Claimed(s)
                               /\ \A k \in Writing : At(s, k)' => At(s, k)
    BY <1>1, <1>2, KeyTypes, RequestEnds
  <1>4. RowInd'
    BY <1>1, <1>2, <1>3, KeyTypes, RowAlone DEF Writing
  <1> QED
    BY <1>3, <1>4 DEF KeyInd

\* The row has changed since it was read.
LEMMA TryAgainKeeps ==
  ASSUME KeyInd, NEW r \in Requests, pc[r] \in {"reset", "recover"}, TryAgain(r),
         UNCHANGED <<row, writes, age, seen, called, flight>>
  PROVE  KeyInd'
  <1>1. /\ {"reset", "recover", "reload"} \subseteq Points
        /\ {"reset", "recover", "reload"} \subseteq Claiming
        /\ pc[r] \notin Ended \cup {"idle"}
        /\ "done" \in Ended
    BY DEF Points, Claiming, Ended
  <1>2. attempt[r] < ReloadLimit /\ attempt[r] \in Nat /\ r \notin called
    BY <1>1, KeyTypes, LimitAssumption DEF KeyInd, RequestsInd, Places
  <1>3. /\ attempt' \in [Requests -> 0..ReloadLimit] /\ attempt'[r] = attempt[r] + 1
        /\ \A s \in Requests \ {r} : attempt'[s] = attempt[s]
    BY <1>2, KeyTypes, LimitAssumption DEF TryAgain
  <1>4. CASE attempt[r] + 1 < ReloadLimit
    <2>1. pc' = [pc EXCEPT ![r] = "reload"] /\ outcome' = outcome
      BY <1>4 DEF TryAgain, Goto
    <2>2. RequestsInd'
      BY <1>1, <1>2, <1>3, <1>4, <2>1, KeyTypes, RequestMoves
    <2>3. RowInd'
      BY <2>1, KeyTypes, RowAlone DEF Claimed, At
    <2> QED
      BY <2>2, <2>3 DEF KeyInd
  <1>5. CASE ~(attempt[r] + 1 < ReloadLimit)
    <2>1. pc' = [pc EXCEPT ![r] = "done"] /\ Answer(r, "error", NoOne)
      BY <1>5 DEF TryAgain, Goto
    <2>2. "error" \in Kinds \ {"fresh", "replay"} /\ Abandon(r)
      BY DEF Kinds, Abandon
    <2> QED
      BY <1>1, <1>3, <2>1, <2>2, RefusalKeeps
  <1> QED
    BY <1>4, <1>5

LEMMA ResetKeeps ==
  ASSUME KeyInd, NEW r \in Requests, Reset(r)
  PROVE  KeyInd'
  <1>1. pc[r] = "reset" /\ Execute(r, "reset") /\ "reset" \in Writing
        /\ UNCHANGED <<age, seen, called, flight>>
    BY DEF Reset, Writing
  <1>2. CASE Fits(r, "reset")
    <2>1. pc' = [pc EXCEPT ![r] = "policy"] /\ UNCHANGED <<attempt, outcome>>
      BY <1>2 DEF Reset, Goto
    <2>2. /\ {"reset", "policy"} \subseteq Points /\ "reset" \notin Ended
          /\ "policy" \notin Claiming
      BY DEF Points, Claiming, Ended
    <2>3. attempt[r] < ReloadLimit /\ r \notin called
      BY <1>1, <2>2 DEF KeyInd, RequestsInd, Places
    <2>4. RequestsInd'
      BY <1>1, <2>1, <2>2, <2>3, KeyTypes, WriteTypes, RequestMoves
    <2>5. \A s \in Requests : Claimed(s)' => Claimed(s) \/ s = r
      BY <1>1, <2>1, KeyTypes DEF Claimed
    <2>6. RowInd'
      BY <1>1, <1>2, <2>1, <2>5, RowClaimed DEF At
    <2> QED
      BY <2>4, <2>6 DEF KeyInd
  <1>3. CASE ~Fits(r, "reset")
    BY <1>1, <1>3, MissedWrite, TryAgainKeeps DEF Reset
  <1> QED
    BY <1>2, <1>3

LEMMA RecoverKeeps ==
  ASSUME KeyInd, Timely, NEW r \in Requests, Recover(r)
  PROVE  KeyInd'
  <1>1. pc[r] = "recover" /\ Execute(r, "recover") /\ "recover" \in Writing
        /\ UNCHANGED <<age, seen, called, flight>>
    BY DEF Recover, Writing
  <1>2. CASE Fits(r, "recover")
    <2>1. /\ pc' = [pc EXCEPT ![r] = "done"] /\ UNCHANGED attempt
          /\ outcome' = [outcome EXCEPT ![r] = [kind |-> "recovery_required", of |-> NoOne]]
      BY <1>2 DEF Recover, Goto, Answer
    <2>2. "done" \in Ended /\ "recover" \notin {"idle"} \cup Ended /\ Abandon(r)
          /\ "recovery_required" \in Kinds
      BY <1>1 DEF Ended, Abandon, Kinds
    <2>3. /\ outcome' \in [Requests -> [kind : Kinds, of : Requests \cup {NoOne}]]
          /\ outcome'[r].kind = "recovery_required"
          /\ \A s \in Requests \ {r} : outcome'[s] = outcome[s]
      BY <2>1, <2>2, KeyTypes
    <2>4. row' \in Row \cup {NoRow} /\ writes' \in Nat
      BY <1>1, KeyTypes, WriteTypes
    <2>5. /\ RequestsInd'
          /\ \A s \in Requests : Claimed(s)' => Claimed(s)
      BY <1>1, <2>1, <2>2, <2>3, <2>4, KeyTypes, RequestEnds
    <2>6. RowInd'
      BY <1>1, <1>2, <2>3, <2>5, RowRecovered DEF At
    <2> QED
      BY <2>5, <2>6 DEF KeyInd
  <1>3. CASE ~Fits(r, "recover")
    BY <1>1, <1>3, MissedWrite, TryAgainKeeps DEF Recover
  <1> QED
    BY <1>2, <1>3

LEMMA PolicyAllowsKeeps ==
  ASSUME KeyInd, NEW r \in Requests, PolicyAllows(r)
  PROVE  KeyInd'
  <1>1. /\ pc[r] = "policy" /\ pc' = [pc EXCEPT ![r] = "handle"]
        /\ called' = called \cup {r}
        /\ UNCHANGED <<row, writes, age, seen, attempt, outcome, flight>>
    BY DEF PolicyAllows, Goto
  <1>2. /\ {"policy", "handle"} \subseteq Points /\ "policy" \notin Ended
        /\ "handle" \notin Claiming
    BY DEF Points, Claiming, Ended
  <1>3. attempt[r] < ReloadLimit
    BY <1>1, <1>2 DEF KeyInd, RequestsInd, Places
  <1>4. RequestsInd'
    BY <1>1, <1>2, <1>3, KeyTypes, RequestMoves
  <1>5. \A s \in Requests : Claimed(s)' => Claimed(s)
    BY <1>1, KeyTypes DEF Claimed
  <1>6. RowInd'
    BY <1>1, <1>5, KeyTypes, RowAlone DEF At
  <1> QED
    BY <1>4, <1>6 DEF KeyInd

LEMMA HandlerAnswersKeeps ==
  ASSUME KeyInd, NEW r \in Requests, HandlerAnswers(r)
  PROVE  KeyInd'
  <1>1. /\ pc[r] = "handle" /\ pc' = [pc EXCEPT ![r] = "persist"]
        /\ UNCHANGED <<row, writes, age, seen, attempt, called, outcome, flight>>
    BY DEF HandlerAnswers, Goto
  <1>2. /\ {"handle", "persist"} \subseteq Points /\ "handle" \notin Ended
        /\ "persist" \notin Claiming
    BY DEF Points, Claiming, Ended
  <1>3. attempt[r] < ReloadLimit /\ r \in called
    BY <1>1, <1>2 DEF KeyInd, RequestsInd, Places
  <1>4. RequestsInd'
    BY <1>1, <1>2, <1>3, KeyTypes, RequestMoves
  <1>5. RowInd'
    BY <1>1, KeyTypes, RowAlone DEF Claimed, At
  <1> QED
    BY <1>4, <1>5 DEF KeyInd

LEMMA RefusalsKeep ==
  ASSUME KeyInd, NEW r \in Requests,
         PolicyDenies(r) \/ HandlerFails(r) \/ Fail(r) \/ Crash(r)
  PROVE  KeyInd'
  <1>1. {"denied", "error"} \subseteq Kinds \ {"fresh", "replay"} /\ {"done", "crashed"} \subseteq Ended
    BY DEF Kinds, Ended
  <1>2. CASE PolicyDenies(r)
    BY <1>1, <1>2, KeyTypes, RefusalKeeps DEF PolicyDenies, Goto, Abandon, Ended
  <1>3. CASE HandlerFails(r)
    BY <1>1, <1>3, KeyTypes, RefusalKeeps DEF HandlerFails, Goto, Abandon, Ended
  <1>4. CASE Fail(r)
    BY <1>1, <1>4, KeyTypes, RefusalKeeps DEF Fail, Goto, Writing, Ended
  <1>5. CASE Crash(r)
    BY <1>1, <1>5, KeyTypes, RefusalKeeps DEF Crash, Goto
  <1> QED
    BY <1>2, <1>3, <1>4, <1>5

LEMMA PersistKeeps ==
  ASSUME KeyInd, Timely, NEW r \in Requests, Persist(r)
  PROVE  KeyInd'
  <1>1. /\ pc[r] = "persist" /\ Execute(r, "persist") /\ "persist" \in Writing
        /\ pc' = [pc EXCEPT ![r] = "done"]
        /\ outcome' = [outcome EXCEPT ![r] = [kind |-> "fresh", of |-> r]]
        /\ UNCHANGED <<age, seen, attempt, called, flight>>
    BY DEF Persist, Writing, Goto, Answer
  <1>2. "done" \in Ended /\ "persist" \notin {"idle"} \cup Ended /\ Abandon(r) /\ "fresh" \in Kinds
    BY <1>1 DEF Ended, Abandon, Kinds
  <1>3. /\ outcome' \in [Requests -> [kind : Kinds, of : Requests \cup {NoOne}]]
        /\ outcome'[r].kind = "fresh"
        /\ \A s \in Requests \ {r} : outcome'[s] = outcome[s]
    BY <1>1, <1>2, KeyTypes
  <1>4. row' \in Row \cup {NoRow} /\ writes' \in Nat
    BY <1>1, KeyTypes, WriteTypes
  <1>5. /\ RequestsInd'
        /\ \A s \in Requests : /\ Claimed(s)' => Claimed(s)
                               /\ \A k \in Writing : At(s, k)' => At(s, k)
    BY <1>1, <1>2, <1>3, <1>4, KeyTypes, RequestEnds
  <1>6. CASE Fits(r, "persist")
    <2>1. RowInd'
      BY <1>1, <1>3, <1>5, <1>6, RowPersisted DEF At
    <2> QED
      BY <1>5, <2>1 DEF KeyInd
  <1>7. CASE ~Fits(r, "persist")
    <2>1. UNCHANGED <<row, writes>>
      BY <1>1, <1>7, MissedWrite
    <2>2. Current' /\ AnswerCalled'
      BY <1>1, <2>1 DEF KeyInd, RowInd, Current, AnswerCalled
    <2>3. SeenOld'
      BY <1>1, <1>5, <2>1 DEF KeyInd, RowInd, SeenOld, Writing
    <2>4. ClaimCovered' /\ OneClaim'
      BY <1>1, <1>5, <2>1 DEF KeyInd, RowInd, ClaimCovered, OneClaim
    <2>5. Claimed(r) /\ r \in called
      BY <1>1 DEF Claimed, KeyInd, RequestsInd, Places
    <2>6. row.status # "pending" \/ ~(age[r] < TtlTicks)
      BY <1>7, <2>5 DEF KeyInd, RowInd, ClaimCovered, Fits
    <2>7. FreshRecorded'
      BY <1>1, <1>3, <2>1, <2>5, <2>6 DEF KeyInd, RowInd, FreshRecorded
    <2> QED
      BY <1>5, <2>2, <2>3, <2>4, <2>7 DEF KeyInd, RowInd
  <1> QED
    BY <1>6, <1>7

LEMMA LateKeeps ==
  ASSUME KeyInd, Timely, NEW r \in Requests, NEW k \in Writing, Late(r, k)
  PROVE  KeyInd'
  <1>1. /\ <<r, k>> \in flight /\ flight' = flight \ {<<r, k>>} /\ Execute(r, k)
        /\ UNCHANGED <<pc, age, seen, attempt, called, outcome>>
    BY DEF Late
  <1>2. At(r, k)
    BY <1>1 DEF At
  <1>3. /\ \A s \in Requests : Claimed(s)' <=> Claimed(s)
        /\ \A s \in Requests : \A w : At(s, w)' => At(s, w)
    BY <1>1 DEF Claimed, At
  <1>4. row' \in Row \cup {NoRow} /\ writes' \in Nat
    BY <1>1, KeyTypes, WriteTypes
  <1>5. RequestsInd'
    <2>1. TypeOK'
      BY <1>1, <1>4 DEF KeyInd, RequestsInd, TypeOK
    <2>2. Places' /\ Orphans' /\ ReplayIsOfSameRequest'
      BY <1>1 DEF KeyInd, RequestsInd, Places, Orphans, ReplayIsOfSameRequest
    <2>3. \A s \in Requests : /\ Busy(s, Claiming)' => Busy(s, Claiming)
                              /\ Busy(s, Points)' => Busy(s, Points)
      BY <1>1 DEF Busy
    <2>4. InBounds'
      BY <1>1, <2>3 DEF KeyInd, RequestsInd, InBounds
    <2> QED
      BY <2>1, <2>2, <2>4 DEF RequestsInd
  <1>6. CASE ~Fits(r, k)
    BY <1>1, <1>3, <1>5, <1>6, KeyTypes, MissedWrite, RowAlone DEF KeyInd
  <1>7. CASE Fits(r, k) /\ k \in {"insert", "reset"}
    BY <1>1, <1>2, <1>3, <1>5, <1>7, RowClaimed DEF KeyInd
  <1>8. CASE Fits(r, k) /\ k = "recover"
    BY <1>1, <1>2, <1>3, <1>5, <1>8, RowRecovered DEF KeyInd
  <1>9. CASE Fits(r, k) /\ k = "persist"
    BY <1>1, <1>2, <1>3, <1>5, <1>9, RowPersisted DEF KeyInd
  <1> QED
    BY <1>6, <1>7, <1>8, <1>9 DEF Writing

LEMMA TickKeeps ==
  ASSUME KeyInd, Tick
  PROVE  KeyInd'
  <1>1. /\ \A r \in Requests : InTime(r)
        /\ age' = [r \in Requests |-> IF pc[r] # "idle" /\ age[r] < TtlTicks
                                        THEN age[r] + 1 ELSE age[r]]
        /\ UNCHANGED <<writes, pc, seen, attempt, called, outcome, flight>>
    BY DEF Tick
  <1>2. \A r \in Requests : age[r] \in 0..TtlTicks
    BY DEF KeyInd, RequestsInd, TypeOK
  <1>3. \A r \in Requests :
          /\ age'[r] \in 0..TtlTicks /\ age'[r] >= age[r] /\ age'[r] <= age[r] + 1
          /\ pc[r] = "idle" => age'[r] = age[r]
          /\ pc[r] # "idle" /\ age'[r] < TtlTicks => age'[r] = age[r] + 1
          /\ age[r] = TtlTicks => age'[r] = TtlTicks
          /\ pc[r] # "idle" /\ age[r] < TtlTicks => age'[r] = age[r] + 1
    BY <1>1, <1>2, TimingAssumption
  <1>4. row = NoRow => row' = NoRow
    BY DEF Tick
  <1>5. ASSUME row # NoRow
        PROVE  /\ row' \in Row /\ row' # NoRow
               /\ row'.body = row.body /\ row'.status = row.status
               /\ row'.response = row.response /\ row'.updated = row.updated
               /\ row'.life + 1 >= row.life /\ row'.staleIn + 1 >= row.staleIn
               /\ row.life = 0 => row'.life = 0
               /\ row.staleIn = 0 => row'.staleIn = 0
    <2>1. row \in Row
      BY <1>5, KeyTypes
    <2>2. row' = [row EXCEPT !.life = RunDown(row.life), !.staleIn = RunDown(row.staleIn)]
      BY <1>5 DEF Tick
    <2>3. row' = [body |-> row.body, status |-> row.status, response |-> row.response,
                  life |-> RunDown(row.life), staleIn |-> RunDown(row.staleIn),
                  updated |-> row.updated]
      BY <2>1, <2>2 DEF Row
    <2>4. /\ row.life \in 0..TtlTicks /\ row.staleIn \in 0..StaleTicks
          /\ RunDown(row.life) \in 0..TtlTicks /\ RunDown(row.staleIn) \in 0..StaleTicks
          /\ RunDown(row.life) + 1 >= row.life /\ RunDown(row.staleIn) + 1 >= row.staleIn
          /\ row.life = 0 => RunDown(row.life) = 0
          /\ row.staleIn = 0 => RunDown(row.staleIn) = 0
      BY <2>1, TimingAssumption DEF Row, RunDown
    <2>5. row' \in Row
      BY <2>1, <2>3, <2>4 DEF Row
    <2> QED
      BY <2>3, <2>4, <2>5, NoRowAssumption
  <1>6. \A r \in Requests : /\ Claimed(r)' <=> Claimed(r)
                            /\ Claimed(r) => pc[r] # "idle"
    BY <1>1 DEF Claimed, KeyInd, RequestsInd, Places, Ended
  <1>7. RequestsInd'
    <2>1. TypeOK'
      BY <1>1, <1>3, <1>4, <1>5 DEF KeyInd, RequestsInd, TypeOK
    <2>2. Places' /\ Orphans' /\ ReplayIsOfSameRequest'
      BY <1>1, <1>3 DEF KeyInd, RequestsInd, Places, Orphans, ReplayIsOfSameRequest
    <2>3. \A r \in Requests : /\ Busy(r, Claiming)' <=> Busy(r, Claiming)
                              /\ Busy(r, Points)' <=> Busy(r, Points)
      BY <1>1 DEF Busy
    <2>4. InBounds'
      BY <1>1, <1>2, <1>3, <2>3, LimitAssumption DEF InBounds, InTime
    <2> QED
      BY <2>1, <2>2, <2>4 DEF RequestsInd
  <1>8. Current' /\ AnswerCalled'
    BY <1>1, <1>4, <1>5 DEF KeyInd, RowInd, Current, AnswerCalled
  <1>9. SeenOld'
    BY <1>1, <1>4, <1>5 DEF KeyInd, RowInd, SeenOld, At
  <1>10. ASSUME NEW r \in Requests, Claimed(r)
         PROVE  /\ row' # NoRow
                /\ row'.life + age'[r] >= TtlTicks
                /\ age'[r] < TtlTicks =>
                     /\ row'.body = Body[r]
                     /\ row'.status = "pending" => row'.staleIn + age'[r] >= StaleTicks
                     /\ row'.status = "completed" => row'.response = r
    <2>1. /\ row # NoRow /\ row.life + age[r] >= TtlTicks
          /\ age[r] < TtlTicks =>
                     /\ row.body = Body[r]
                     /\ row.status = "pending" => row.staleIn + age[r] >= StaleTicks
                     /\ row.status = "completed" => row.response = r
      BY <1>10 DEF KeyInd, RowInd, ClaimCovered
    <2>2. row \in Row /\ row' \in Row
      BY <2>1, <1>5, KeyTypes
    <2>3. /\ row.life \in Nat /\ row.staleIn \in Nat /\ row'.life \in Nat /\ row'.staleIn \in Nat
      BY <2>2, TimingAssumption DEF Row
    <2>4. row'.life + age'[r] >= TtlTicks
      BY <1>2, <1>3, <1>5, <1>6, <1>10, <2>1, <2>3, TimingAssumption
    <2>5. age'[r] < TtlTicks => age'[r] = age[r] + 1 /\ age[r] < TtlTicks
      BY <1>2, <1>3, <1>6, <1>10, TimingAssumption
    <2> QED
      BY <1>2, <1>5, <2>1, <2>3, <2>4, <2>5, TimingAssumption
  <1>11. ClaimCovered'
    BY <1>6, <1>10 DEF ClaimCovered
  <1>12. \A r \in Requests : age'[r] < TtlTicks => age[r] < TtlTicks
    BY <1>2, <1>3, TimingAssumption
  <1>13. OneClaim'
    BY <1>6, <1>12 DEF KeyInd, RowInd, OneClaim
  <1>14. FreshRecorded'
    BY <1>1, <1>5, <1>10, <1>12 DEF KeyInd, RowInd, FreshRecorded, Claimed, ClaimCovered
  <1> QED
    BY <1>7, <1>8, <1>9, <1>11, <1>13, <1>14 DEF KeyInd, RowInd

-----------------------------------------------------------------------------
LEMMA KeyNextKeeps ==
  ASSUME KeyInd, Timely, Next
  PROVE  KeyInd'
  BY BeginKeeps, InsertKeeps, ReloadKeeps, ResetKeeps, RecoverKeeps, PolicyAllowsKeeps,
     HandlerAnswersKeeps, RefusalsKeep, PersistKeeps, LateKeeps, TickKeeps
     DEF Next, Step

\* A write, late or not, does not replace an answer that has not expired.
LEMMA RecordStays ==
  ASSUME KeyInd, NEW r \in Requests, NEW k \in Writing, At(r, k), Execute(r, k)
  PROVE  RecordedAnswerStays
  <1> SUFFICES ASSUME row # NoRow, row.status = "completed", row.life > 0, Fits(r, k)
               PROVE  FALSE
    BY MissedWrite DEF RecordedAnswerStays
  <1>1. k = "reset" /\ row.updated = seen[r]
    BY DEF Fits, Writing
  <1>2. row.life = 0
    BY <1>1 DEF KeyInd, RowInd, SeenOld
  <1> QED
    BY <1>2

LEMMA NextRecordStays ==
  ASSUME KeyInd, Next
  PROVE  RecordedAnswerStays
  <1>1. ASSUME NEW r \in Requests, Insert(r) \/ Reset(r) \/ Recover(r) \/ Persist(r)
        PROVE  RecordedAnswerStays
    BY <1>1, RecordStays DEF Insert, Reset, Recover, Persist, At, Writing
  <1>2. ASSUME NEW r \in Requests, NEW k \in Writing, Late(r, k)
        PROVE  RecordedAnswerStays
    BY <1>2, RecordStays DEF Late, At
  <1>3. ASSUME Tick
        PROVE  RecordedAnswerStays
    BY <1>3, KeyTypes DEF Tick, RecordedAnswerStays, Row
  <1>4. ASSUME row' = row
        PROVE  RecordedAnswerStays
    BY <1>4 DEF RecordedAnswerStays
  <1> QED
    BY <1>1, <1>2, <1>3, <1>4 DEF Next, Step, Begin, Reload, PolicyAllows, PolicyDenies,
       HandlerAnswers, HandlerFails, Fail, Crash

\* Whoever asks again is told what the row says, and the row is the answer's.
LEMMA NextAnswersAgain ==
  ASSUME KeyInd, Next
  PROVE  AnsweredOrInRecovery
  <1> SUFFICES ASSUME NEW r \in Requests, NEW s \in Requests, AskedAgain(r, s),
                      row.status # "recovery_required"
               PROVE  outcome'[s] = [kind |-> "replay", of |-> r]
    BY DEF AnsweredOrInRecovery
  <1>1. /\ pc[s] = "reload" /\ outcome'[s].kind \notin {"none", "error"}
        /\ outcome[r].kind = "fresh" /\ age[r] < TtlTicks /\ Body[s] = Body[r]
    BY DEF AskedAgain
  <1>2. outcome[s].kind = "none"
    BY <1>1 DEF KeyInd, RequestsInd, Places, Ended
  <1>3. r \in called /\ row.status # "pending" /\ Claimed(r)
    BY <1>1 DEF KeyInd, RowInd, FreshRecorded, Claimed
  <1>4. /\ row # NoRow /\ row.life + age[r] >= TtlTicks /\ row.body = Body[r]
        /\ row.status = "completed" => row.response = r
    BY <1>1, <1>3 DEF KeyInd, RowInd, ClaimCovered
  <1>5. row \in Row
    BY <1>4, KeyTypes
  <1>6. row.status = "completed" /\ row.life \in Nat /\ age[r] \in Nat
    BY <1>3, <1>5, TimingAssumption DEF Row, KeyInd, RequestsInd, TypeOK
  <1>7. Verdict(s) = "replay"
    BY <1>1, <1>4, <1>6, TimingAssumption, VerdictCases
  <1>8. Reload(s)
    <2>1. ASSUME NEW q \in Requests, q # s,
                 Step(q) \/ Begin(q) \/ Fail(q) \/ Crash(q)
          PROVE  outcome'[s] = outcome[s]
      BY <2>1, KeyTypes DEF Step, Insert, Reload, Reset, Recover, TryAgain, PolicyAllows,
         PolicyDenies, HandlerAnswers, HandlerFails, Persist, Begin, Fail, Crash, Answer
    <2>2. ASSUME NEW q \in Requests, NEW k \in Writing, Late(q, k)
          PROVE  outcome'[s] = outcome[s]
      BY <2>2 DEF Late
    <2>3. Tick => outcome'[s] = outcome[s]
      BY DEF Tick
    <2>4. ASSUME Fail(s)
          PROVE  FALSE
      <3>1. outcome'[s].kind = "error"
        BY <2>4, KeyTypes DEF Fail, Answer
      <3> QED
        BY <1>1, <3>1
    <2>5. Crash(s) \/ Begin(s) => outcome'[s] = outcome[s]
      BY DEF Crash, Begin
    <2>6. Step(s) => Reload(s)
      BY <1>1 DEF Step, Insert, Reset, Recover, PolicyAllows, PolicyDenies, HandlerAnswers,
         HandlerFails, Persist
    <2> QED
      BY <1>1, <1>2, <2>1, <2>2, <2>3, <2>4, <2>5, <2>6 DEF Next
  <1>9. outcome' = [outcome EXCEPT ![s] = [kind |-> "replay", of |-> row.response]]
    BY <1>7, <1>8 DEF Reload, Answer
  <1> QED
    BY <1>4, <1>6, <1>9, KeyTypes

-----------------------------------------------------------------------------
\* As long as claims and requests keep within their bounds, one of the requests
\* that arrive with a key within a time to live gets to its handler, and a
\* replayed answer is that of a request with the same body whose handler was
\* called: withTenantContext runs a mutation once, through duplicates in flight,
\* crashes, lost answers and writes that come late.
THEOREM KeyCorrect ==
  ASSUME Timely
  PROVE  Spec => []KeyInvariant
  <1>1. KeyInd /\ [Next]_vars => KeyInd'
    BY KeyNextKeeps, KeyStutters
  <1>2. KeyInd => KeyInvariant
    BY DEF KeyInd, RequestsInd, RowInd, KeyInvariant, OneClaim, OneRunPerWindow, Claimed
  <1> QED
    BY KeyStarts, <1>1, <1>2, PTL DEF Spec

\* A recorded answer is not replaced before it expires, and whoever asks again
\* while an answer is alive gets it, unless the row was taken for that of a dead
\* request.
THEOREM AnswersStayCorrect ==
  ASSUME Timely
  PROVE  Spec => AnswersStay
  <1>1. KeyInd /\ [Next]_vars => KeyInd'
    BY KeyNextKeeps, KeyStutters
  <1>2. KeyInd /\ [Next]_vars => [AnsweredOrInRecovery /\ RecordedAnswerStays]_vars
    BY NextAnswersAgain, NextRecordStays
  <1> QED
    BY KeyStarts, <1>1, <1>2, PTL DEF Spec, AnswersStay
=============================================================================
