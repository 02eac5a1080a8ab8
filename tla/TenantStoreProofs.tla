------------------------- MODULE TenantStoreProofs -------------------------
(***************************************************************************)
(* Proofs about TenantStore for any number of calls and any lease, timeout *)
(* and retry limit: types, no lost or repeated update, exclusion between   *)
(* unexpired leases, and that the store implements AtomicMutation.         *)
(***************************************************************************)
EXTENDS TenantStore, TLAPS

----------------------------------------------------------------------------
(* The inductive invariants *)

\* The call is past the point where it sends its save.
PastSave(c) == pc[c] \in {"release", "done", "crashed"}

\* A save that may still execute.
SavePending(c) == pc[c] = "save" \/ <<c, "save">> \in flight

\* The revision counts the mutations, and what a pending save would write on
\* top of is a past state of the row: the present one if the revision is.
RecordsArePast ==
  /\ row.revision = Len(row.state)
  /\ \A c \in Calls : SavePending(c) =>
       /\ record[c].revision = Len(record[c].state)
       /\ record[c].revision <= row.revision
       /\ record[c].revision = row.revision => record[c].state = row.state

\* A call sends at most one save that it does not wait for, and is finished
\* with saving once its mutation is in the row.
SavesOnce ==
  \A c \in Calls :
    /\ <<c, "save">> \in flight => PastSave(c) /\ result[c] # "ok"
    /\ Applied(c) => PastSave(c) /\ <<c, "save">> \notin flight
    /\ result[c] = "ok" => PastSave(c)

HistoryInv == /\ RecordsArePast
              /\ SavesOnce
              /\ AcknowledgedIsStored
              /\ AppliedOnce

\* The call may still write its name in the lease row.
MayTake(c) == \/ pc[c] \in {"idle", "acquire"} \cup AcquireRequests
              \/ <<c, "insert">> \in flight
              \/ <<c, "steal">> \in flight

\* Requests about the lease are abandoned at the end of a call, and at most one
\* of those that take it.
LeaseRequestsEnd ==
  \A c \in Calls :
    /\ \A k \in {"insert", "steal", "release"} :
         <<c, k>> \in flight => pc[c] \in Ended
    /\ ~(<<c, "insert">> \in flight /\ <<c, "steal">> \in flight)

\* A call holds the lease row at most once, so the row a call found expired is
\* still expired if its holder is the same.
HoldsOnce ==
  /\ lease.holder # NoHolder => ~MayTake(lease.holder)
  /\ \A c \in Calls : pc[c] = "steal" \/ <<c, "steal">> \in flight =>
       /\ seen[c] \in Calls
       /\ ~MayTake(seen[c])
       /\ lease.holder = seen[c] => lease.ttl = 0

LiveHoldersOwn ==
  \A c \in Calls : pc[c] \in Critical /\ expiresIn[c] > 0 =>
                     lease.holder = c /\ lease.ttl = expiresIn[c]

LeaseInv == LeaseRequestsEnd /\ HoldsOnce /\ LiveHoldersOwn

----------------------------------------------------------------------------
(* Types *)

\* A call about to save has attempts left.
AttemptsLeft == \A c \in Calls : pc[c] \in Ended \cup {"release"}
                                  \/ attempt[c] < RetryLimit

TypeInv == TypeOK /\ AttemptsLeft

\* What a save writes is a record of the right type, one mutation longer.
LEMMA StoreType ==
  ASSUME TypeOK, NEW c \in Calls, Store(c)
  PROVE row' \in Records
<1>1. record[c] \in Records
  BY DEF TypeOK
<1>2. record[c].revision \in Nat /\ record[c].state \in Seq(Calls)
  BY <1>1 DEF Records
<1>3. Append(record[c].state, c) \in Seq(Calls)
  BY <1>2
<1> QED BY <1>2, <1>3 DEF Store, Records

\* Every variable keeps its type: timers stay within the lease and the timeout,
\* the attempt counter within the retry limit.
LEMMA TypeStep == ASSUME TypeInv, [Next]_vars PROVE TypeInv'
<1> USE NoHolderAssumption, TimingAssumption, RetryAssumption
<1>1. ASSUME NEW c \in Calls, Begin(c) \/ BeginAttempt(c) \/ LockTimeout(c)
      PROVE TypeInv'
  BY <1>1 DEF Begin, BeginAttempt, LockTimeout, TypeInv, AttemptsLeft,
              TypeOK, AcquireRequests, Ended, Critical
<1>2. ASSUME NEW c \in Calls, InsertLease(c) \/ StealLease(c)
      PROVE TypeInv'
  BY <1>2 DEF InsertLease, StealLease, Take, TypeInv, AttemptsLeft,
              TypeOK, AcquireRequests, Ended, Critical
<1>3. ASSUME NEW c \in Calls, ReadLease(c) PROVE TypeInv'
  BY <1>3 DEF ReadLease, TypeInv, AttemptsLeft, TypeOK, AcquireRequests,
              Ended, Critical
<1>4. ASSUME NEW c \in Calls, Load(c) \/ MutatorThrows(c)
      PROVE TypeInv'
  BY <1>4 DEF Load, MutatorThrows, TypeInv, AttemptsLeft, TypeOK,
              AcquireRequests, Ended, Critical
<1>5. ASSUME NEW c \in Calls, Save(c) PROVE TypeInv'
  <2>1. row' \in Records
    BY <1>5, StoreType DEF Save, TypeInv
  <2> QED
    BY <1>5, <2>1 DEF Save, TypeInv, AttemptsLeft, TypeOK,
                      AcquireRequests, Ended, Critical
<1>6. ASSUME NEW c \in Calls, SaveConflict(c) PROVE TypeInv'
  BY <1>6 DEF SaveConflict, TypeInv, AttemptsLeft, TypeOK,
              AcquireRequests, Ended, Critical
<1>7. ASSUME NEW c \in Calls, Release(c) PROVE TypeInv'
  BY <1>7 DEF Release, Drop, NoLease, TypeInv, AttemptsLeft, TypeOK,
              AcquireRequests, Ended, Critical
<1>8. ASSUME NEW c \in Calls, Fail(c) PROVE TypeInv'
  BY <1>8 DEF Fail, Abandon, Writes, TypeInv, AttemptsLeft, TypeOK,
              AcquireRequests, MutateRequests, Ended, Critical
<1>9. ASSUME NEW c \in Calls, Crash(c) PROVE TypeInv'
  BY <1>9 DEF Crash, Abandon, Writes, TypeInv, AttemptsLeft, TypeOK,
              AcquireRequests, Ended, Critical
<1>10. ASSUME NEW c \in Calls, NEW k \in Writes, Late(c, k)
       PROVE TypeInv'
  <2>1. row' \in Records
    BY <1>10, StoreType DEF Late, TypeInv, TypeOK
  <2>2. lease' \in [holder : Calls \cup {NoHolder}, ttl : 0..LeaseTicks]
    BY <1>10 DEF Late, Take, Drop, NoLease, TypeInv, TypeOK
  <2> QED
    BY <1>10, <2>1, <2>2 DEF Late, TypeInv, AttemptsLeft, TypeOK
<1>11. CASE Tick
  <2>1. lease' \in [holder : Calls \cup {NoHolder}, ttl : 0..LeaseTicks]
    BY <1>11 DEF Tick, RunDown, TypeInv, TypeOK
  <2>2. expiresIn' \in [Calls -> 0..LeaseTicks]
    BY <1>11 DEF Tick, RunDown, TypeInv, TypeOK
  <2>3. elapsed' \in [Calls -> 0..(TimeoutTicks + 1)]
    BY <1>11 DEF Tick, TypeInv, TypeOK
  <2> QED
    BY <1>11, <2>1, <2>2, <2>3 DEF Tick, TypeInv, AttemptsLeft, TypeOK
<1>12. CASE UNCHANGED vars
  BY <1>12 DEF vars, TypeInv, AttemptsLeft, TypeOK
<1> QED
  BY <1>1, <1>2, <1>3, <1>4, <1>5, <1>6, <1>7, <1>8, <1>9, <1>10, <1>11,
     <1>12 DEF Next, Step

LEMMA TypeInvariance == Spec => []TypeInv
<1>1. Init => TypeInv
  BY TimingAssumption, RetryAssumption
     DEF Init, TypeInv, AttemptsLeft, TypeOK, EmptyRecord, NoLease, Records,
         Ended, Critical
<1>2. TypeInv /\ [Next]_vars => TypeInv'
  BY TypeStep
<1> QED BY <1>1, <1>2, PTL DEF Spec

\* Every variable of the store keeps its type, for any number of calls.
THEOREM TypeCorrect == Spec => []TypeOK
BY TypeInvariance, PTL DEF TypeInv

----------------------------------------------------------------------------
(* The state row *)

\* A save that fits extends the row as it is: the revision it loaded is the
\* revision of the row, and a revision belongs to one state only.
LEMMA SaveExtends ==
  ASSUME TypeOK, HistoryInv, NEW c \in Calls,
         SavePending(c), SaveFits(c), Store(c)
  PROVE row' = [revision |-> row.revision + 1, state |-> Append(row.state, c)]
<1>1. record[c].revision = row.revision
  BY DEF SaveFits
<1>2. record[c].state = row.state
  BY <1>1 DEF HistoryInv, RecordsArePast
<1> QED BY <1>1, <1>2 DEF Store

\* Appending a call that is not in the history adds that call and no other, and
\* leaves every entry in its place.
LEMMA AppendApplies ==
  ASSUME NEW c \in Calls, row \in Records, AppliedOnce, ~Applied(c),
         row' = [revision |-> row.revision + 1, state |-> Append(row.state, c)]
  PROVE /\ \A d \in Calls : Applied(d)' <=> (Applied(d) \/ d = c)
        /\ AppliedOnce'
        /\ row.revision = Len(row.state) => row'.revision = Len(row'.state)
<1> DEFINE s == row.state
<1>1. s \in Seq(Calls) /\ row.revision \in Nat
  BY DEF Records
<1>2. row'.state = Append(s, c) /\ row'.revision = row.revision + 1
  OBVIOUS
<1> HIDE DEF s
<1>3. /\ Len(Append(s, c)) = Len(s) + 1
      /\ Len(s) \in Nat
      /\ \A i \in 1..Len(s) : Append(s, c)[i] = s[i]
      /\ Append(s, c)[Len(s) + 1] = c
  BY <1>1
<1>4. \A i \in 1..Len(s) : s[i] # c
  BY DEF Applied, s
<1>5. \A i, j \in 1..Len(s) : s[i] = s[j] => i = j
  BY DEF AppliedOnce, s
<1>6. \A d \in Calls : Applied(d)' <=> (Applied(d) \/ d = c)
  <2> SUFFICES ASSUME NEW d \in Calls
               PROVE Applied(d)' <=> (Applied(d) \/ d = c)
    OBVIOUS
  <2>1. Applied(d)' <=> \E i \in 1..(Len(s) + 1) : Append(s, c)[i] = d
    BY <1>2, <1>3 DEF Applied
  <2>2. Applied(d) <=> \E i \in 1..Len(s) : s[i] = d
    BY DEF Applied, s
  <2> QED BY <2>1, <2>2, <1>3
<1>7. AppliedOnce'
  <2>1. AppliedOnce' <=> \A i, j \in 1..(Len(s) + 1) :
                           Append(s, c)[i] = Append(s, c)[j] => i = j
    <3>1. Len(row'.state) = Len(s) + 1
      BY <1>2, <1>3
    <3>2. PICK t : t = Append(s, c)
      OBVIOUS
    <3>3. row'.state = t
      BY <1>2, <3>2
    <3>4. AppliedOnce' <=> \A i, j \in 1..(Len(s) + 1) : t[i] = t[j] => i = j
      BY <3>1, <3>3, Zenon DEF AppliedOnce
    <3> QED BY <3>2, <3>4, Zenon
  <2>2. ASSUME NEW i \in 1..(Len(s) + 1), NEW j \in 1..(Len(s) + 1),
               Append(s, c)[i] = Append(s, c)[j]
        PROVE i = j
    <3>1. CASE i \in 1..Len(s) /\ j \in 1..Len(s)
      BY <2>2, <3>1, <1>3, <1>5
    <3>2. CASE i \in 1..Len(s) /\ j = Len(s) + 1
      <4>1. Append(s, c)[i] = s[i] /\ Append(s, c)[j] = c
        BY <3>2, <1>3
      <4> QED BY <2>2, <4>1, <3>2, <1>4
    <3>3. CASE i = Len(s) + 1 /\ j \in 1..Len(s)
      <4>1. Append(s, c)[i] = c /\ Append(s, c)[j] = s[j]
        BY <3>3, <1>3
      <4> QED BY <2>2, <4>1, <3>3, <1>4
    <3>4. i \in 1..Len(s) \/ i = Len(s) + 1
      BY <1>3
    <3>5. j \in 1..Len(s) \/ j = Len(s) + 1
      BY <1>3
    <3> QED BY <3>1, <3>2, <3>3, <3>4, <3>5
  <2> QED BY <2>1, <2>2
<1>8. row.revision = Len(s) => row'.revision = Len(row'.state)
  BY <1>2, <1>3
<1> QED BY <1>6, <1>7, <1>8 DEF s

\* Steps that leave the row alone keep every acknowledgement true, provided the
\* records of pending saves are past states.
LEMMA RowUnchanged ==
  ASSUME HistoryInv, UNCHANGED row
  PROVE /\ \A d \in Calls : Applied(d)' <=> Applied(d)
        /\ AppliedOnce'
BY DEF HistoryInv, AppliedOnce, Applied

\* Executing the save of c, by c or late, preserves the history invariant.
LEMMA SaveStep ==
  ASSUME TypeOK, HistoryInv, NEW c \in Calls,
         SavePending(c), SaveFits(c), Store(c), UNCHANGED record,
         PastSave(c)', <<c, "save">> \notin flight', flight' \subseteq flight,
         result'[c] \in {"ok", result[c]},
         \A d \in Calls \ {c} : pc'[d] = pc[d] /\ result'[d] = result[d]
  PROVE HistoryInv'
<1>1. row' = [revision |-> row.revision + 1, state |-> Append(row.state, c)]
  BY SaveExtends
<1>2. ~Applied(c)
  BY DEF SavePending, HistoryInv, SavesOnce, PastSave
<1>3. row \in Records /\ row.revision \in Nat
  BY DEF TypeOK, Records
<1>4. /\ \A d \in Calls : Applied(d)' <=> (Applied(d) \/ d = c)
      /\ AppliedOnce'
      /\ row'.revision = Len(row'.state)
  BY <1>1, <1>2, <1>3, AppendApplies DEF HistoryInv, RecordsArePast
<1>5. row'.revision = row.revision + 1
  BY <1>1
<1>6. RecordsArePast'
  <2> SUFFICES ASSUME NEW d \in Calls, SavePending(d)'
               PROVE /\ record'[d].revision = Len(record'[d].state)
                     /\ record'[d].revision <= row'.revision
                     /\ record'[d].revision = row'.revision
                          => record'[d].state = row'.state
    BY <1>4 DEF RecordsArePast
  <2>1. d # c /\ SavePending(d)
    BY DEF SavePending, PastSave
  <2>2. record[d].revision <= row.revision
    BY <2>1 DEF HistoryInv, RecordsArePast
  <2>3. record[d].revision \in Nat
    BY DEF TypeOK, Records
  <2> QED BY <2>1, <2>2, <2>3, <1>3, <1>5 DEF HistoryInv, RecordsArePast
<1>7. SavesOnce'
  BY <1>4 DEF HistoryInv, SavesOnce, PastSave
<1>8. AcknowledgedIsStored'
  BY <1>4 DEF HistoryInv, AcknowledgedIsStored
<1> QED BY <1>4, <1>6, <1>7, <1>8 DEF HistoryInv
\* Every step preserves the history invariant.
LEMMA HistoryStep ==
  ASSUME TypeInv, HistoryInv, [Next]_vars
  PROVE HistoryInv'
<1>1. TypeOK
  BY DEF TypeInv
<1>2. ASSUME NEW c \in Calls,
             \/ Begin(c) \/ BeginAttempt(c) \/ LockTimeout(c)
             \/ InsertLease(c) \/ ReadLease(c) \/ StealLease(c)
      PROVE HistoryInv'
  <2>1. ~PastSave(c) /\ pc[c] # "save"
    BY <1>2 DEF Begin, BeginAttempt, LockTimeout, InsertLease, ReadLease,
                StealLease, PastSave
  <2>2. ~Applied(c) /\ result[c] # "ok" /\ <<c, "save">> \notin flight
    BY <2>1 DEF HistoryInv, SavesOnce
  <2>3. UNCHANGED <<row, record, flight>>
    BY <1>2 DEF Begin, BeginAttempt, LockTimeout, InsertLease, ReadLease,
                StealLease
  <2>4. pc'[c] # "save" /\ result'[c] # "ok"
    BY <1>1, <1>2, <2>2 DEF Begin, BeginAttempt, LockTimeout, InsertLease,
                            ReadLease, StealLease, TypeOK
  <2>5. \A d \in Calls \ {c} : pc'[d] = pc[d] /\ result'[d] = result[d]
    BY <1>1, <1>2 DEF Begin, BeginAttempt, LockTimeout, InsertLease,
                      ReadLease, StealLease, TypeOK
  <2> QED
    BY <2>2, <2>3, <2>4, <2>5, RowUnchanged
       DEF HistoryInv, RecordsArePast, SavesOnce, AcknowledgedIsStored,
           SavePending, PastSave
<1>3. ASSUME NEW c \in Calls, Load(c) \/ MutatorThrows(c)
      PROVE HistoryInv'
  <2>1. ~PastSave(c) /\ pc[c] = "load"
    BY <1>3 DEF Load, MutatorThrows, PastSave
  <2>2. ~Applied(c) /\ result[c] # "ok" /\ <<c, "save">> \notin flight
    BY <2>1 DEF HistoryInv, SavesOnce
  <2>3. UNCHANGED <<row, flight>> /\ record'[c] = row
    BY <1>1, <1>3 DEF Load, MutatorThrows, TypeOK
  <2>4. result'[c] # "ok"
    BY <1>1, <1>3, <2>2 DEF Load, MutatorThrows, TypeOK
  <2>5. \A d \in Calls \ {c} : /\ pc'[d] = pc[d]
                               /\ result'[d] = result[d]
                               /\ record'[d] = record[d]
    BY <1>1, <1>3 DEF Load, MutatorThrows, TypeOK
  <2>6. row.revision <= row.revision
    BY <1>1 DEF TypeOK, Records
  <2>7. RecordsArePast'
    BY <2>2, <2>3, <2>5, <2>6 DEF HistoryInv, RecordsArePast, SavePending
  <2>8. SavesOnce' /\ AcknowledgedIsStored'
    BY <2>2, <2>3, <2>4, <2>5, RowUnchanged
       DEF HistoryInv, SavesOnce, AcknowledgedIsStored, PastSave
  <2> QED BY <2>3, <2>7, <2>8, RowUnchanged DEF HistoryInv
<1>4. ASSUME NEW c \in Calls, Save(c) PROVE HistoryInv'
  <2>1. /\ SavePending(c) /\ SaveFits(c) /\ Store(c) /\ PastSave(c)'
        /\ UNCHANGED <<record, flight>> /\ result'[c] = "ok"
    BY <1>1, <1>4 DEF Save, SavePending, PastSave, TypeOK
  <2>2. <<c, "save">> \notin flight
    BY <1>4 DEF Save, HistoryInv, SavesOnce, PastSave
  <2>3. \A d \in Calls \ {c} : pc'[d] = pc[d] /\ result'[d] = result[d]
    BY <1>1, <1>4 DEF Save, TypeOK
  <2> QED BY <1>1, <2>1, <2>2, <2>3, SaveStep
<1>5. ASSUME NEW c \in Calls, SaveConflict(c) PROVE HistoryInv'
  <2>1. ~Applied(c) /\ result[c] # "ok" /\ <<c, "save">> \notin flight
    BY <1>5 DEF SaveConflict, HistoryInv, SavesOnce, PastSave
  <2>2. /\ UNCHANGED <<row, record, flight>>
        /\ pc'[c] # "save" /\ result'[c] # "ok"
    BY <1>1, <1>5, <2>1 DEF SaveConflict, TypeOK
  <2>3. \A d \in Calls \ {c} : pc'[d] = pc[d] /\ result'[d] = result[d]
    BY <1>1, <1>5 DEF SaveConflict, TypeOK
  <2> QED
    BY <2>1, <2>2, <2>3, RowUnchanged
       DEF HistoryInv, RecordsArePast, SavesOnce, AcknowledgedIsStored,
           SavePending, PastSave
<1>6. ASSUME NEW c \in Calls, Release(c) PROVE HistoryInv'
  <2>1. /\ UNCHANGED <<row, record, flight, result>>
        /\ pc[c] = "release" /\ pc'[c] = "done"
        /\ \A d \in Calls \ {c} : pc'[d] = pc[d]
    BY <1>1, <1>6 DEF Release, TypeOK
  <2> QED
    BY <2>1, RowUnchanged
       DEF HistoryInv, RecordsArePast, SavesOnce, AcknowledgedIsStored,
           SavePending, PastSave
<1>7. ASSUME NEW c \in Calls, Fail(c) \/ Crash(c) PROVE HistoryInv'
  <2>1. /\ UNCHANGED <<row, record>>
        /\ flight \subseteq flight'
        /\ flight' \subseteq flight \cup {<<c, pc[c]>>}
    BY <1>7 DEF Fail, Crash, Abandon
  <2>2. PastSave(c)'
    BY <1>1, <1>7 DEF Fail, Crash, PastSave, TypeOK
  <2>3. /\ \A d \in Calls \ {c} : pc'[d] = pc[d] /\ result'[d] = result[d]
        /\ \/ result'[c] = result[c]
           \/ result'[c] = "error" /\ ~PastSave(c)
    BY <1>1, <1>7 DEF Fail, Crash, PastSave, AcquireRequests, MutateRequests,
                      TypeOK
  <2>4. /\ \A d \in Calls : SavePending(d)' => SavePending(d)
        /\ \A d \in Calls \ {c} : (<<d, "save">> \in flight')
                                   => <<d, "save">> \in flight
    BY <2>1, <2>2, <2>3 DEF SavePending, PastSave
  <2>5. (<<c, "save">> \in flight') =>
           \/ <<c, "save">> \in flight
           \/ ~Applied(c) /\ result[c] # "ok"
    BY <2>1 DEF HistoryInv, SavesOnce, PastSave
  <2>6. RecordsArePast'
    BY <2>1, <2>4 DEF HistoryInv, RecordsArePast
  <2>7. SavesOnce'
    BY <2>1, <2>2, <2>3, <2>4, <2>5, RowUnchanged
       DEF HistoryInv, SavesOnce, PastSave
  <2>8. AcknowledgedIsStored'
    BY <2>1, <2>3, RowUnchanged DEF HistoryInv, AcknowledgedIsStored
  <2> QED BY <2>1, <2>6, <2>7, <2>8, RowUnchanged DEF HistoryInv
<1>8. ASSUME NEW c \in Calls, NEW k \in Writes, Late(c, k)
      PROVE HistoryInv'
  <2>1. /\ UNCHANGED <<pc, record, result>>
        /\ flight' = flight \ {<<c, k>>} /\ <<c, k>> \in flight
    BY <1>8 DEF Late
  <2>2. CASE k = "save" /\ SaveFits(c)
    <3>1. SavePending(c) /\ PastSave(c) /\ Store(c)
      BY <1>8, <2>1, <2>2 DEF Late, SavePending, HistoryInv, SavesOnce
    <3>2. PastSave(c)' /\ <<c, "save">> \notin flight'
      BY <2>1, <2>2, <3>1 DEF PastSave
    <3> QED BY <1>1, <2>1, <2>2, <3>1, <3>2, SaveStep
  <2>3. CASE ~(k = "save" /\ SaveFits(c))
    <3>1. UNCHANGED row
      BY <1>8, <2>3 DEF Late
    <3> QED
      BY <2>1, <3>1, RowUnchanged
         DEF HistoryInv, RecordsArePast, SavesOnce, AcknowledgedIsStored,
             SavePending, PastSave
  <2> QED BY <2>2, <2>3
<1>9. CASE Tick \/ UNCHANGED vars
  <2>1. UNCHANGED <<row, pc, record, result, flight>>
    BY <1>9 DEF Tick, vars
  <2> QED
    BY <2>1, RowUnchanged
       DEF HistoryInv, RecordsArePast, SavesOnce, AcknowledgedIsStored,
           SavePending, PastSave
<1> QED
  BY <1>2, <1>3, <1>4, <1>5, <1>6, <1>7, <1>8, <1>9 DEF Next, Step

LEMMA HistoryInvariance == Spec => [](TypeInv /\ HistoryInv)
<1>1. Init => HistoryInv
  BY DEF Init, HistoryInv, RecordsArePast, SavesOnce, AcknowledgedIsStored,
         AppliedOnce, Applied, SavePending, PastSave, EmptyRecord
<1>2. TypeInv /\ HistoryInv /\ [Next]_vars => HistoryInv'
  BY HistoryStep
<1> QED BY <1>1, <1>2, TypeInvariance, PTL DEF Spec

\* A mutation that mutateState reports as saved is in the stored state: with
\* any number of calls, lease take-overs, crashes and late requests, the
\* revision check alone keeps one writer from erasing another's update.
THEOREM NoLostUpdate == Spec => []AcknowledgedIsStored
BY HistoryInvariance, PTL DEF HistoryInv

\* No mutation is stored twice, whatever the retry loop and the network do.
THEOREM NoRepeatedUpdate == Spec => []AppliedOnce
BY HistoryInvariance, PTL DEF HistoryInv
----------------------------------------------------------------------------
(* Refinement *)

\* What a step does to the row: nothing, or one more mutation on top of it by a
\* call that has not been applied and has not returned normally.
LEMMA RowStep ==
  ASSUME TypeInv, HistoryInv, [Next]_vars, row' # row
  PROVE \E c \in Calls :
          /\ row' = [revision |-> row.revision + 1,
                     state |-> Append(row.state, c)]
          /\ ~Applied(c)
          /\ pc[c] = "save" \/ result[c] # "ok"
          /\ Save(c) \/ UNCHANGED <<pc, result>>
<1>1. TypeOK
  BY DEF TypeInv
<1>2. ASSUME NEW c \in Calls, Save(c)
      PROVE /\ row' = [revision |-> row.revision + 1,
                       state |-> Append(row.state, c)]
            /\ ~Applied(c) /\ pc[c] = "save"
  <2>1. SavePending(c) /\ SaveFits(c) /\ Store(c) /\ pc[c] = "save"
    BY <1>2 DEF Save, SavePending
  <2>2. ~Applied(c)
    BY <2>1 DEF HistoryInv, SavesOnce, PastSave
  <2> QED BY <1>1, <2>1, <2>2, SaveExtends
<1>3. ASSUME NEW c \in Calls, NEW k \in Writes, Late(c, k)
      PROVE /\ row' = [revision |-> row.revision + 1,
                       state |-> Append(row.state, c)]
            /\ ~Applied(c) /\ result[c] # "ok"
            /\ UNCHANGED <<pc, result>>
  <2>1. /\ SavePending(c) /\ SaveFits(c) /\ Store(c)
        /\ <<c, "save">> \in flight /\ UNCHANGED <<pc, result>>
    BY <1>3 DEF Late, SavePending
  <2>2. ~Applied(c) /\ result[c] # "ok"
    BY <2>1 DEF HistoryInv, SavesOnce
  <2> QED BY <1>1, <2>1, <2>2, SaveExtends
<1>4. (\E c \in Calls : Save(c)) \/ (\E c \in Calls, k \in Writes : Late(c, k))
  BY DEF Next, Step, vars, Begin, BeginAttempt, LockTimeout, InsertLease,
         ReadLease, StealLease, Load, MutatorThrows, SaveConflict, Release,
         Fail, Crash, Tick
<1> QED BY <1>2, <1>3, <1>4

\* Each write of the state row adds one mutation to the state it replaces.
THEOREM HistoryOnlyGrows == Spec => WritesExtendHistory
<1>1. TypeInv /\ HistoryInv /\ [Next]_vars =>
        [row' # row => \E c \in Calls :
            row' = [revision |-> row.revision + 1,
                    state |-> Append(row.state, c)]]_vars
  BY RowStep
<1> QED BY <1>1, HistoryInvariance, PTL DEF Spec, WritesExtendHistory

\* Call c returns to its caller, with "ok" only if its mutation is stored.
Returns(c) == /\ pc[c] # "done" /\ pc'[c] = "done"
              /\ result'[c] = "ok" => Applied(c)
              /\ \A d \in Calls \ {c} : /\ pc'[d] = pc[d]
                                        /\ result'[d] = result[d]

\* No call returns, and what was returned stays.
Silent == \A d \in Calls : /\ (pc'[d] = "done") <=> (pc[d] = "done")
                           /\ pc[d] = "done" => result'[d] = result[d]

\* Every step is the return of one call or invisible to all callers.
LEMMA ReturnStep ==
  ASSUME TypeInv, HistoryInv, [Next]_vars
  PROVE Silent \/ \E c \in Calls : Returns(c)
<1>1. TypeOK
  BY DEF TypeInv
<1>2. ASSUME NEW c \in Calls, LockTimeout(c) \/ Release(c) \/ Fail(c)
      PROVE Silent \/ Returns(c)
  <2>1. /\ pc[c] # "done"
        /\ result'[c] = "ok" => result[c] = "ok"
        /\ pc'[c] \in {"done", "release"}
        /\ \A d \in Calls \ {c} : /\ pc'[d] = pc[d]
                                  /\ result'[d] = result[d]
    BY <1>1, <1>2 DEF LockTimeout, Release, Fail, AcquireRequests,
                      MutateRequests, TypeOK
  <2>2. result[c] = "ok" => Applied(c)
    BY DEF HistoryInv, AcknowledgedIsStored
  <2> QED BY <2>1, <2>2 DEF Silent, Returns
<1>3. ASSUME NEW c \in Calls,
             \/ Begin(c) \/ BeginAttempt(c) \/ InsertLease(c) \/ ReadLease(c)
             \/ StealLease(c) \/ Load(c) \/ MutatorThrows(c) \/ Save(c)
             \/ SaveConflict(c) \/ Crash(c)
      PROVE Silent
  BY <1>1, <1>3 DEF Begin, BeginAttempt, InsertLease, ReadLease, StealLease,
                    Load, MutatorThrows, Save, SaveConflict, Crash, Ended,
                    TypeOK, Silent
<1>4. CASE (\E c \in Calls, k \in Writes : Late(c, k)) \/ Tick
           \/ UNCHANGED vars
  BY <1>4 DEF Late, Tick, vars, Silent
<1> QED BY <1>2, <1>3, <1>4 DEF Next, Step

\* The durable store implements the atomic register: every step of every call
\* is the application of one mutator, a return, or invisible to callers.
THEOREM StoreImplementsRegister == Spec => ImplementsAtomicMutation
<1> DEFINE told == [c \in Calls |-> IF pc[c] = "done" THEN result[c]
                                                      ELSE "none"]
<1>1. Init => Abstract!Init
  BY DEF Init, Abstract!Init, EmptyRecord
<1>2. TypeInv /\ HistoryInv /\ [Next]_vars
        => [Abstract!Next]_(Abstract!absVars)
  <2> SUFFICES ASSUME TypeInv, HistoryInv, [Next]_vars
               PROVE [Abstract!Next]_(Abstract!absVars)
    OBVIOUS
  <2>1. CASE row' # row
    <3>1. PICK c \in Calls :
            /\ row' = [revision |-> row.revision + 1,
                       state |-> Append(row.state, c)]
            /\ ~Applied(c)
            /\ pc[c] = "save" \/ result[c] # "ok"
            /\ Save(c) \/ UNCHANGED <<pc, result>>
      BY <2>1, RowStep
    <3>2. told' = told
      BY <3>1 DEF Save, TypeInv, TypeOK
    <3>3. told[c] # "ok"
      BY <3>1
    <3>4. row'.state = Append(row.state, c)
      BY <3>1
    <3>5. ~Abstract!Applied(c)
      BY <3>1 DEF Applied, Abstract!Applied
    <3>6. Abstract!Apply(c)
      BY <3>2, <3>3, <3>4, <3>5 DEF Abstract!Apply
    <3> QED BY <3>6 DEF Abstract!Next
  <2>2. CASE UNCHANGED row
    <3>1. CASE Silent
      <4>1. \A d \in Calls : (IF pc'[d] = "done" THEN result'[d] ELSE "none")
                            = (IF pc[d] = "done" THEN result[d] ELSE "none")
        BY <3>1 DEF Silent
      <4>2. told' = told
        BY <4>1
      <4> QED BY <2>2, <4>2 DEF Abstract!absVars
    <3>2. ASSUME NEW c \in Calls, Returns(c)
          PROVE [Abstract!Next]_(Abstract!absVars)
      <4>1. told[c] = "none" /\ told' = [told EXCEPT ![c] = result'[c]]
        BY <3>2 DEF Returns
      <4>2. result'[c] \in {"none", "ok", "error"}
        BY TypeStep DEF TypeInv, TypeOK
      <4>3. CASE result'[c] = "ok"
        <5>1. Abstract!Applied(c)
          BY <3>2, <4>3 DEF Returns, Applied, Abstract!Applied
        <5>2. Abstract!ReturnOk(c)
          BY <2>2, <4>1, <4>3, <5>1 DEF Abstract!ReturnOk
        <5> QED BY <5>2 DEF Abstract!Next
      <4>4. CASE result'[c] = "error"
        <5>1. Abstract!ReturnError(c)
          BY <2>2, <4>1, <4>4 DEF Abstract!ReturnError
        <5> QED BY <5>1 DEF Abstract!Next
      <4>5. CASE result'[c] = "none"
        <5>1. told' = told
          BY <4>1, <4>5
        <5> QED BY <2>2, <5>1 DEF Abstract!absVars
      <4> QED BY <4>2, <4>3, <4>4, <4>5
    <3> QED BY <2>2, <3>1, <3>2, ReturnStep
  <2> QED BY <2>1, <2>2
<1> QED
  BY <1>1, <1>2, HistoryInvariance, PTL
     DEF Spec, ImplementsAtomicMutation, Abstract!Spec
----------------------------------------------------------------------------
(* The lease *)

\* Steps of call c that touch neither the lease row nor flight: c does not
\* become able to take the lease again, and enters no critical section.
LEMMA LeaseQuiet ==
  ASSUME TypeOK, LeaseInv, NEW c \in Calls,
         UNCHANGED <<lease, seen, flight>>,
         \A d \in Calls \ {c} : pc'[d] = pc[d] /\ expiresIn'[d] = expiresIn[d],
         pc[c] \notin Ended,
         MayTake(c)' => MayTake(c),
         pc'[c] = "steal" => pc[c] = "steal",
         pc'[c] \in Critical => pc[c] \in Critical /\ expiresIn'[c] = expiresIn[c]
  PROVE LeaseInv'
<1>1. \A d \in Calls : MayTake(d)' => MayTake(d)
  BY DEF MayTake
<1>2. \A k \in {"insert", "steal", "release"} : <<c, k>> \notin flight
  BY DEF LeaseInv, LeaseRequestsEnd
<1>3. LeaseRequestsEnd'
  BY <1>2 DEF LeaseInv, LeaseRequestsEnd
<1>4. HoldsOnce'
  BY <1>1, <1>2 DEF LeaseInv, HoldsOnce, TypeOK
<1>5. LiveHoldersOwn'
  BY DEF LeaseInv, LiveHoldersOwn
<1> QED BY <1>3, <1>4, <1>5 DEF LeaseInv

\* Call c takes the lease, by itself or late, when the row is absent or expired.
LEMMA LeaseTaken ==
  ASSUME TypeOK, LeaseInv, NEW c \in Calls,
         Take(c), UNCHANGED <<seen, expiresIn>>, flight' \subseteq flight,
         \A d \in Calls \ {c} : pc'[d] = pc[d],
         lease.holder = NoHolder \/ lease.ttl = 0,
         MayTake(c), ~MayTake(c)',
         \/ pc'[c] = pc[c] /\ pc[c] \in Ended
         \/ pc'[c] = "load" /\ pc[c] \notin Ended /\ flight' = flight
  PROVE LeaseInv'
<1>1. lease'.holder = c /\ lease'.ttl = expiresIn[c]
  BY DEF Take
<1>2. \A d \in Calls : MayTake(d)' => MayTake(d)
  BY DEF MayTake
<1>3. LeaseRequestsEnd'
  BY DEF LeaseInv, LeaseRequestsEnd
<1>4. \A d \in Calls : pc'[d] = "steal" \/ (<<d, "steal">> \in flight') =>
        /\ seen'[d] \in Calls
        /\ ~MayTake(seen[d])'
        /\ lease'.holder # seen'[d]
  <2> SUFFICES ASSUME NEW d \in Calls,
                      pc'[d] = "steal" \/ (<<d, "steal">> \in flight')
               PROVE /\ seen'[d] \in Calls
                     /\ ~MayTake(seen[d])'
                     /\ lease'.holder # seen'[d]
    OBVIOUS
  <2>1. pc[d] = "steal" \/ <<d, "steal">> \in flight
    BY DEF Ended
  <2>2. seen[d] \in Calls /\ ~MayTake(seen[d])
    BY <2>1 DEF LeaseInv, HoldsOnce
  <2>3. ~MayTake(seen[d])'
    BY <2>2, <1>2 DEF MayTake
  <2> QED BY <2>2, <2>3, <1>1
<1>5. HoldsOnce'
  <2>1. ~MayTake(lease.holder)'
    BY <1>1 DEF MayTake
  <2> QED BY <1>4, <2>1 DEF HoldsOnce, MayTake
<1>6. LiveHoldersOwn'
  <2> SUFFICES ASSUME NEW d \in Calls, pc'[d] \in Critical, expiresIn'[d] > 0
               PROVE lease'.holder = d /\ lease'.ttl = expiresIn'[d]
    BY DEF LiveHoldersOwn
  <2>1. CASE d = c
    BY <2>1, <1>1
  <2>2. CASE d # c
    <3>1. lease.holder = d /\ lease.ttl = expiresIn[d]
      BY <2>2 DEF LeaseInv, LiveHoldersOwn
    <3> QED BY <3>1, NoHolderAssumption DEF TypeOK
  <2> QED BY <2>1, <2>2
<1> QED BY <1>3, <1>5, <1>6 DEF LeaseInv

\* Call c is over, or its request for release is late: dropping its lease row
\* takes it from nobody else.
LEMMA LeaseDropped ==
  ASSUME TypeOK, LeaseInv, NEW c \in Calls,
         Drop(c), UNCHANGED <<seen, expiresIn>>, flight' \subseteq flight,
         \A d \in Calls \ {c} : pc'[d] = pc[d],
         pc'[c] \in Ended, pc[c] \in Ended \cup {"release"}
  PROVE LeaseInv'
<1>1. \A d \in Calls : MayTake(d)' => MayTake(d)
  BY DEF MayTake, Ended, AcquireRequests
<1>2. lease' = lease \/ (lease.holder = c /\ lease' = NoLease)
  BY DEF Drop
<1>3. /\ lease'.holder \in {lease.holder, NoHolder}
      /\ lease'.holder # NoHolder => lease' = lease
  BY <1>2 DEF NoLease
<1>4. LeaseRequestsEnd'
  BY DEF LeaseInv, LeaseRequestsEnd
<1>5. HoldsOnce'
  <2>1. lease'.holder # NoHolder => ~MayTake(lease.holder)'
    BY <1>1, <1>3 DEF LeaseInv, HoldsOnce, TypeOK
  <2>2. ASSUME NEW d \in Calls,
               pc'[d] = "steal" \/ (<<d, "steal">> \in flight')
        PROVE /\ seen'[d] \in Calls
              /\ ~MayTake(seen[d])'
              /\ lease'.holder = seen'[d] => lease'.ttl = 0
    <3>1. pc[d] = "steal" \/ <<d, "steal">> \in flight
      BY <2>2 DEF Ended
    <3>2. /\ seen[d] \in Calls /\ ~MayTake(seen[d])
          /\ lease.holder = seen[d] => lease.ttl = 0
      BY <3>1 DEF LeaseInv, HoldsOnce
    <3> QED BY <3>2, <1>1, <1>3, NoHolderAssumption
  <2> QED BY <2>1, <2>2 DEF HoldsOnce, MayTake
<1>6. LiveHoldersOwn'
  BY <1>2 DEF LeaseInv, LiveHoldersOwn, Critical, Ended
<1> QED BY <1>4, <1>5, <1>6 DEF LeaseInv
\* Every step preserves the lease invariant.
LEMMA LeaseStep ==
  ASSUME TypeInv, LeaseInv, [Next]_vars
  PROVE LeaseInv'
<1>1. TypeOK
  BY DEF TypeInv
<1>2. ASSUME NEW c \in Calls,
             \/ Begin(c) \/ BeginAttempt(c) \/ LockTimeout(c) \/ Load(c)
             \/ MutatorThrows(c) \/ Save(c) \/ SaveConflict(c)
      PROVE LeaseInv'
  <2>1. UNCHANGED <<lease, seen, flight>>
    BY <1>2 DEF Begin, BeginAttempt, LockTimeout, Load, MutatorThrows, Save,
                SaveConflict
  <2>2. \A d \in Calls \ {c} : pc'[d] = pc[d] /\ expiresIn'[d] = expiresIn[d]
    BY <1>1, <1>2 DEF Begin, BeginAttempt, LockTimeout, Load, MutatorThrows,
                      Save, SaveConflict, TypeOK
  <2>3. /\ pc[c] \notin Ended
        /\ pc'[c] # "steal"
        /\ pc'[c] \in Critical => /\ pc[c] \in Critical
                                  /\ expiresIn'[c] = expiresIn[c]
    BY <1>1, <1>2 DEF Begin, BeginAttempt, LockTimeout, Load, MutatorThrows,
                      Save, SaveConflict, Ended, Critical, TypeOK
  <2>4. MayTake(c)' => MayTake(c)
    BY <1>1, <1>2 DEF Begin, BeginAttempt, LockTimeout, Load, MutatorThrows,
                      Save, SaveConflict, MayTake, AcquireRequests, TypeOK
  <2> QED BY <1>1, <2>1, <2>2, <2>3, <2>4, LeaseQuiet
<1>3. ASSUME NEW c \in Calls, InsertLease(c) \/ StealLease(c)
      PROVE LeaseInv'
  <2>1. /\ UNCHANGED <<seen, expiresIn, flight>>
        /\ pc[c] \in {"insert", "steal"}
        /\ \A d \in Calls \ {c} : pc'[d] = pc[d]
    BY <1>1, <1>3 DEF InsertLease, StealLease, TypeOK
  <2>2. MayTake(c) /\ pc[c] \notin Ended
        /\ <<c, "insert">> \notin flight /\ <<c, "steal">> \notin flight
    BY <2>1 DEF MayTake, AcquireRequests, Ended, LeaseInv, LeaseRequestsEnd
  <2>3. CASE Take(c) /\ pc'[c] = "load"
             /\ (lease.holder = NoHolder \/ lease.ttl = 0)
    <3>1. ~MayTake(c)'
      BY <2>1, <2>2, <2>3 DEF MayTake, AcquireRequests
    <3> QED BY <1>1, <2>1, <2>2, <2>3, <3>1, LeaseTaken
  <2>4. CASE UNCHANGED lease /\ pc'[c] \in {"read", "acquire"}
    <3>1. pc'[c] \notin Critical \cup {"steal"}
      BY <2>4 DEF Critical
    <3> QED BY <1>1, <2>1, <2>2, <2>4, <3>1, LeaseQuiet
  <2>5. pc[c] = "steal" /\ lease.holder = seen[c] => lease.ttl = 0
    BY DEF LeaseInv, HoldsOnce
  <2>6. \/ Take(c) /\ pc'[c] = "load"
              /\ (lease.holder = NoHolder \/ lease.ttl = 0)
        \/ UNCHANGED lease /\ pc'[c] \in {"read", "acquire"}
    BY <1>1, <1>3, <2>5 DEF InsertLease, StealLease, InsertFits, StealFits,
                            TypeOK
  <2> QED BY <2>3, <2>4, <2>6
<1>4. ASSUME NEW c \in Calls, ReadLease(c) PROVE LeaseInv'
  <2>1. /\ UNCHANGED <<lease, expiresIn, flight>> /\ pc[c] = "read"
        /\ \A d \in Calls \ {c} : pc'[d] = pc[d] /\ seen'[d] = seen[d]
        /\ pc'[c] \in {"steal", "acquire"}
        /\ pc'[c] = "steal" => /\ lease.holder # NoHolder /\ lease.ttl = 0
                               /\ seen'[c] = lease.holder
    BY <1>1, <1>4 DEF ReadLease, TypeOK
  <2>2. \A d \in Calls : MayTake(d)' <=> MayTake(d)
    BY <2>1 DEF MayTake, AcquireRequests
  <2>3. \A k \in {"insert", "steal", "release"} : <<c, k>> \notin flight
    BY <2>1 DEF LeaseInv, LeaseRequestsEnd, Ended
  <2>4. LeaseRequestsEnd'
    BY <2>1, <2>3 DEF LeaseInv, LeaseRequestsEnd
  <2>5. HoldsOnce'
    <3>1. lease'.holder # NoHolder => ~MayTake(lease.holder)'
      BY <1>1, <2>1, <2>2 DEF LeaseInv, HoldsOnce, TypeOK
    <3>2. ASSUME NEW d \in Calls,
                 pc'[d] = "steal" \/ (<<d, "steal">> \in flight')
          PROVE /\ seen'[d] \in Calls
                /\ ~MayTake(seen[d])'
                /\ lease'.holder = seen'[d] => lease'.ttl = 0
      <4>1. CASE d = c
        BY <1>1, <2>1, <2>2, <2>3, <3>2, <4>1 DEF LeaseInv, HoldsOnce, TypeOK
      <4>2. CASE d # c
        BY <2>1, <2>2, <3>2, <4>2 DEF LeaseInv, HoldsOnce
      <4> QED BY <4>1, <4>2
    <3> QED BY <3>1, <3>2 DEF HoldsOnce, MayTake
  <2>6. LiveHoldersOwn'
    BY <2>1 DEF LeaseInv, LiveHoldersOwn, Critical
  <2> QED BY <2>4, <2>5, <2>6 DEF LeaseInv
<1>5. ASSUME NEW c \in Calls, Release(c) PROVE LeaseInv'
  <2>1. /\ Drop(c) /\ UNCHANGED <<seen, expiresIn, flight>>
        /\ \A d \in Calls \ {c} : pc'[d] = pc[d]
        /\ pc[c] = "release" /\ pc'[c] \in Ended
    BY <1>1, <1>5 DEF Release, Ended, TypeOK
  <2> QED BY <1>1, <2>1, LeaseDropped
<1>6. ASSUME NEW c \in Calls, Fail(c) \/ Crash(c) PROVE LeaseInv'
  <2>1. /\ UNCHANGED <<lease, seen, expiresIn>>
        /\ flight \subseteq flight'
        /\ flight' \subseteq flight \cup {<<c, pc[c]>>}
        /\ \A d \in Calls \ {c} : pc'[d] = pc[d]
    BY <1>1, <1>6 DEF Fail, Crash, Abandon, TypeOK
  <2>2. /\ pc[c] \notin Ended
        /\ \/ pc'[c] \in Ended
           \/ pc'[c] = "release" /\ pc[c] \in MutateRequests
    BY <1>1, <1>6 DEF Fail, Crash, Ended, AcquireRequests, MutateRequests,
                      TypeOK
  <2>3. \A k \in {"insert", "steal", "release"} : <<c, k>> \notin flight
    BY <2>2 DEF LeaseInv, LeaseRequestsEnd
  <2>4. \A d \in Calls : MayTake(d)' => MayTake(d)
    BY <2>1, <2>2 DEF MayTake, Ended, AcquireRequests
  <2>5. LeaseRequestsEnd'
    BY <2>1, <2>2, <2>3 DEF LeaseInv, LeaseRequestsEnd, MutateRequests
  <2>6. HoldsOnce'
    <3>1. lease'.holder # NoHolder => ~MayTake(lease.holder)'
      BY <1>1, <2>1, <2>4 DEF LeaseInv, HoldsOnce, TypeOK
    <3>2. ASSUME NEW d \in Calls,
                 pc'[d] = "steal" \/ (<<d, "steal">> \in flight')
          PROVE /\ seen'[d] \in Calls
                /\ ~MayTake(seen[d])'
                /\ lease'.holder = seen'[d] => lease'.ttl = 0
      <4>1. pc[d] = "steal" \/ <<d, "steal">> \in flight
        BY <2>1, <2>2, <3>2 DEF Ended
      <4> QED BY <2>1, <2>4, <4>1 DEF LeaseInv, HoldsOnce
    <3> QED BY <3>1, <3>2 DEF HoldsOnce, MayTake
  <2>7. LiveHoldersOwn'
    BY <2>1, <2>2 DEF LeaseInv, LiveHoldersOwn, Critical, MutateRequests, Ended
  <2> QED BY <2>5, <2>6, <2>7 DEF LeaseInv
<1>7. ASSUME NEW c \in Calls, NEW k \in Writes, Late(c, k)
      PROVE LeaseInv'
  <2>1. /\ UNCHANGED <<pc, seen, expiresIn>>
        /\ flight' = flight \ {<<c, k>>} /\ <<c, k>> \in flight
    BY <1>7 DEF Late
  <2>2. CASE Take(c) /\ (lease.holder = NoHolder \/ lease.ttl = 0)
             /\ k \in {"insert", "steal"}
    <3>1. MayTake(c) /\ pc[c] \in Ended /\ ~MayTake(c)'
      BY <2>1, <2>2 DEF MayTake, LeaseInv, LeaseRequestsEnd, Ended,
                        AcquireRequests
    <3> QED BY <1>1, <2>1, <2>2, <3>1, LeaseTaken
  <2>3. CASE Drop(c) /\ k = "release"
    <3>1. pc[c] \in Ended
      BY <2>1, <2>3 DEF LeaseInv, LeaseRequestsEnd
    <3> QED BY <1>1, <2>1, <2>3, <3>1, LeaseDropped
  <2>4. CASE UNCHANGED lease
    <3>1. \A d \in Calls : MayTake(d)' => MayTake(d)
      BY <2>1 DEF MayTake
    <3>2. LeaseRequestsEnd' /\ LiveHoldersOwn'
      BY <2>1, <2>4 DEF LeaseInv, LeaseRequestsEnd, LiveHoldersOwn
    <3>3. HoldsOnce'
      BY <1>1, <2>1, <2>4, <3>1 DEF LeaseInv, HoldsOnce, TypeOK
    <3> QED BY <3>2, <3>3 DEF LeaseInv
  <2>5. k = "steal" /\ lease.holder = seen[c] => lease.ttl = 0
    BY <2>1 DEF LeaseInv, HoldsOnce
  <2> QED
    BY <1>7, <2>2, <2>3, <2>4, <2>5 DEF Late, InsertFits, StealFits, Writes
<1>8. CASE Tick
  <2>1. /\ UNCHANGED <<pc, seen, flight>>
        /\ lease'.holder = lease.holder /\ lease'.ttl = RunDown(lease.ttl)
        /\ \A c \in Calls : expiresIn'[c] = RunDown(expiresIn[c])
    BY <1>1, <1>8 DEF Tick, TypeOK
  <2>2. \A c \in Calls : MayTake(c)' <=> MayTake(c)
    BY <2>1 DEF MayTake
  <2>3. LeaseRequestsEnd'
    BY <2>1 DEF LeaseInv, LeaseRequestsEnd
  <2>4. lease.ttl = 0 => lease'.ttl = 0
    BY <2>1 DEF RunDown
  <2>5. HoldsOnce'
    BY <1>1, <2>1, <2>2, <2>4 DEF LeaseInv, HoldsOnce, TypeOK
  <2>6. \A c \in Calls : expiresIn'[c] > 0 => expiresIn[c] > 0
    BY <1>1, <2>1, TimingAssumption DEF RunDown, TypeOK
  <2>7. LiveHoldersOwn'
    BY <2>1, <2>6 DEF LeaseInv, LiveHoldersOwn
  <2> QED BY <2>3, <2>5, <2>7 DEF LeaseInv
<1>9. CASE UNCHANGED vars
  BY <1>9 DEF vars, LeaseInv, LeaseRequestsEnd, HoldsOnce, LiveHoldersOwn,
              MayTake
<1> QED
  BY <1>2, <1>3, <1>4, <1>5, <1>6, <1>7, <1>8, <1>9 DEF Next, Step

\* Two calls inside their critical sections never both hold an unexpired lease:
\* a take-over only replaces a row that has expired, even when the request that
\* replaces it executes late, and a release only deletes its own row.
THEOREM LeaseExclusion == Spec => []LiveLeaseExcludes
<1>1. Init => LeaseInv
  BY DEF Init, LeaseInv, LeaseRequestsEnd, HoldsOnce, LiveHoldersOwn, NoLease,
         Critical
<1>2. TypeInv /\ LeaseInv /\ [Next]_vars => LeaseInv'
  BY LeaseStep
<1>3. LeaseInv => LiveLeaseExcludes
  BY DEF LeaseInv, LiveHoldersOwn, LiveLeaseExcludes
<1> QED BY <1>1, <1>2, <1>3, TypeInvariance, PTL DEF Spec

\* All that the runs check of mutateState's states, for any number of calls: no
\* acknowledged mutation is lost and none is applied twice, whatever requests
\* arrive late, and unexpired leases exclude each other.
THEOREM StoreCorrect == Spec => []StoreInvariant
<1>1. TypeOK /\ AcknowledgedIsStored /\ AppliedOnce /\ LiveLeaseExcludes
        => StoreInvariant
  BY DEF StoreInvariant
<1> QED BY <1>1, TypeCorrect, NoLostUpdate, NoRepeatedUpdate, LeaseExclusion, PTL
=============================================================================
