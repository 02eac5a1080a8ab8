----------------------- MODULE FileTenantStoreProofs -----------------------
(***************************************************************************)
(* Filesystem mode under one runtime: the lock file excludes, and no       *)
(* acknowledged mutation is lost, for any set of calls and processes and   *)
(* any LOCK_STALE_MS and LOCK_TIMEOUT_MS.                                  *)
(***************************************************************************)
EXTENDS FileTenantStore, TLAPS

Holding == {"write"} \cup Critical

----------------------------------------------------------------------------
(* The inductive invariant *)

\* One process runs, and only its calls are under way.
OneLives == \A p, q \in alive : p = q
RunningLives == \A c \in Calls : pc[c] \in Acquiring \cup Critical => ProcOf[c] \in alive

\* The event loop runs one synchronous acquisition at a time.
OneAcquires == \A c, d \in Calls : /\ ProcOf[c] = ProcOf[d]
                                  /\ pc[c] \in Acquiring /\ pc[d] \in Acquiring
                                  => c = d

\* Who created the lock file was started; the pid in it is its creator's.
LockIsOf == /\ lock.by # NoCall => ProcOf[lock.by] \in started
            /\ lock.pid # NoPid => lock.by # NoCall /\ lock.pid = ProcOf[lock.by]

\* A live creator still holds the lock, and nobody else does.
HolderHolds == HolderLives => /\ pc[lock.by] \in Holding
                              /\ lock.fresh # 0
                              /\ pc[lock.by] \in Critical => lock.pid # NoPid
HoldersHave == \A c \in Calls : pc[c] \in Holding => lock.by = c

\* A waiter that may remove the file does not remove a live creator's.
WaitersSee == \A d \in Calls :
                /\ pc[d] = "stat" /\ HolderLives => pid[d] = lock.pid
                /\ pc[d] = "remove" => ~HolderLives

\* What the holder loaded is the file.
LoadedIsFile == \A c \in Calls : pc[c] = "save" => record[c] = file

FileInd == /\ TypeOK /\ OneLives /\ RunningLives /\ OneAcquires /\ LockIsOf
           /\ ~overdue => /\ HolderHolds /\ HoldersHave /\ WaitersSee
                          /\ LoadedIsFile
           /\ AcknowledgedIsStored

----------------------------------------------------------------------------
(* Every step preserves it *)

LEMMA FileInit ==
  Init => FileInd
  <1> SUFFICES ASSUME Init PROVE FileInd
    OBVIOUS
  <1>1. EmptyRecord \in Records
    BY DEF EmptyRecord, Records
  <1>2. NoLock \in [by : Calls \cup {NoCall}, pid : Procs \cup {NoPid}, fresh : 0..StaleTicks]
    BY TimingAssumption DEF NoLock
  <1>a. /\ elapsed \in [Calls -> 0..(TimeoutTicks + 1)]
        /\ pc \in [Calls -> {"idle"} \cup Acquiring \cup Critical \cup Ended]
    BY TimingAssumption DEF Init
  <1>b. lock = NoLock /\ file = EmptyRecord /\ started = {} /\ alive = {} /\ overdue = FALSE
    BY DEF Init
  <1>c. record \in [Calls -> Records] /\ pid \in [Calls -> Procs \cup {NoPid}]
    BY <1>1 DEF Init
  <1>d. result \in [Calls -> {"none", "ok", "error"}]
    BY DEF Init
  <1>3. TypeOK
    BY <1>1, <1>2, <1>a, <1>b, <1>c, <1>d DEF TypeOK
  <1>4. OneLives /\ RunningLives /\ OneAcquires /\ LockIsOf
    BY DEF Init, OneLives, RunningLives, OneAcquires, LockIsOf, Acquiring, Critical, NoLock
  <1>5. HolderHolds /\ HoldersHave /\ WaitersSee /\ LoadedIsFile /\ AcknowledgedIsStored
    BY DEF Init, HolderHolds, HoldersHave, WaitersSee, LoadedIsFile, AcknowledgedIsStored,
           HolderLives, NoLock, Holding, Critical
  <1> QED
    BY <1>3, <1>4, <1>5 DEF FileInd

\* While a call takes a step, no other call of any process is acquiring.
LEMMA Alone ==
  ASSUME FileInd, NEW c \in Calls, NEW p, At(c, p)
  PROVE  \A d \in Calls \ {c} : pc[d] \notin Acquiring
  <1> SUFFICES ASSUME NEW d \in Calls \ {c}, pc[d] \in Acquiring
               PROVE  FALSE
    OBVIOUS
  <1>1. ProcOf[d] \in alive /\ ProcOf[c] \in alive
    BY DEF FileInd, RunningLives, At
  <1>2. ProcOf[d] = ProcOf[c]
    BY <1>1 DEF FileInd, OneLives
  <1> QED
    BY <1>2 DEF At, Blocked

\* A step of a call that leaves the processes alone.
LEMMA StepKeepsControl ==
  ASSUME FileInd, NEW c \in Calls, NEW p, NEW q, At(c, p), Goto(c, q),
         q \in Acquiring \cup Critical \cup Ended,
         UNCHANGED <<started, alive, overdue>>
  PROVE  /\ OneLives' /\ RunningLives' /\ OneAcquires'
         /\ pc' \in [Calls -> {"idle"} \cup Acquiring \cup Critical \cup Ended]
         /\ (started \subseteq Procs /\ alive \subseteq started)'
         /\ overdue' \in BOOLEAN
  <1>1. \A d \in Calls \ {c} : pc[d] \notin Acquiring
    BY Alone
  <1>2. pc \in [Calls -> {"idle"} \cup Acquiring \cup Critical \cup Ended]
    BY DEF FileInd, TypeOK
  <1>3. \A d \in Calls : pc'[d] = IF d = c THEN q ELSE pc[d]
    BY <1>2 DEF Goto
  <1>4. pc' \in [Calls -> {"idle"} \cup Acquiring \cup Critical \cup Ended]
    BY <1>2 DEF Goto
  <1>5. OneAcquires'
    BY <1>1, <1>3 DEF OneAcquires
  <1>6. RunningLives'
    BY <1>3 DEF FileInd, RunningLives, At
  <1>7. OneLives' /\ (started \subseteq Procs /\ alive \subseteq started)' /\ overdue' \in BOOLEAN
    BY DEF FileInd, OneLives, TypeOK
  <1> QED
    BY <1>4, <1>5, <1>6, <1>7

\* A step that touches neither the file nor what calls loaded and were told.
LEMMA StepKeepsFile ==
  ASSUME FileInd, NEW c \in Calls, NEW q, Goto(c, q), q # "save",
         UNCHANGED <<file, record, overdue>>,
         result' = result \/ result' = [result EXCEPT ![c] = "error"]
  PROVE  /\ ~overdue' => LoadedIsFile'
         /\ AcknowledgedIsStored'
         /\ file' \in Records /\ record' \in [Calls -> Records]
         /\ result' \in [Calls -> {"none", "ok", "error"}]
  <1>1. pc \in [Calls -> {"idle"} \cup Acquiring \cup Critical \cup Ended]
    BY DEF FileInd, TypeOK
  <1>2. \A d \in Calls : pc'[d] = "save" => pc[d] = "save"
    BY <1>1 DEF Goto
  <1>3. result \in [Calls -> {"none", "ok", "error"}]
    BY DEF FileInd, TypeOK
  <1>4. result' \in [Calls -> {"none", "ok", "error"}]
    BY <1>3
  <1>5. \A d \in Calls : result'[d] = "ok" => result[d] = "ok"
    BY <1>3
  <1>6. AcknowledgedIsStored'
    BY <1>5 DEF FileInd, AcknowledgedIsStored
  <1>7. ~overdue' => LoadedIsFile'
    BY <1>2 DEF FileInd, LoadedIsFile
  <1> QED
    BY <1>4, <1>6, <1>7 DEF FileInd, TypeOK

----------------------------------------------------------------------------
(* Acquiring *)

\* A step that leaves the lock file alone and neither takes it nor gives it up.
LEMMA WaitKeepsLock ==
  ASSUME FileInd, NEW c \in Calls, NEW p, NEW q, At(c, p), Goto(c, q),
         p \notin Holding, q \notin Holding, q # "remove",
         q = "stat" => pid'[c] = lock.pid,
         UNCHANGED <<lock, started, alive, overdue>>
  PROVE  LockIsOf' /\ (~overdue' => HolderHolds' /\ HoldersHave' /\ WaitersSee')
  <1>1. \A d \in Calls \ {c} : pc[d] \notin Acquiring
    BY Alone
  <1>2. pc \in [Calls -> {"idle"} \cup Acquiring \cup Critical \cup Ended] /\ pc[c] = p
    BY DEF FileInd, TypeOK, At
  <1>3. \A d \in Calls : pc'[d] = IF d = c THEN q ELSE pc[d]
    BY <1>2 DEF Goto
  <1>4. LockIsOf' /\ HolderLives' = HolderLives
    BY DEF FileInd, LockIsOf, HolderLives
  <1>5. lock.by \in Calls \cup {NoCall}
    BY DEF FileInd, TypeOK
  <1>6. ASSUME ~overdue'
        PROVE  HolderHolds' /\ HoldersHave' /\ WaitersSee'
    <2>1. HolderHolds /\ HoldersHave
      BY <1>6 DEF FileInd
    <2>2. HoldersHave'
      BY <1>3, <2>1 DEF HoldersHave
    <2>3. ASSUME HolderLives
          PROVE  lock.by \in Calls /\ lock.by # c /\ pc'[lock.by] = pc[lock.by]
      BY <1>2, <1>3, <1>5, <2>1, <2>3 DEF HolderHolds, HolderLives
    <2>4. HolderHolds'
      BY <1>4, <2>1, <2>3 DEF HolderHolds
    <2>5. WaitersSee'
      BY <1>1, <1>3, <1>4 DEF WaitersSee, Acquiring
    <2> QED
      BY <2>2, <2>4, <2>5
  <1> QED
    BY <1>4, <1>6

LEMMA BeginKeeps ==
  ASSUME FileInd, NEW c \in Calls, Begin(c)
  PROVE  FileInd'
  <1>1. /\ At(c, "idle") /\ Goto(c, "open")
        /\ UNCHANGED <<lock, file, started, alive, overdue, elapsed, pid, record, result>>
    BY DEF Begin, world
  <1>2. "open" \in Acquiring /\ "open" \notin Holding /\ "idle" \notin Holding
    BY DEF Acquiring, Holding, Critical
  <1>3. /\ OneLives' /\ RunningLives' /\ OneAcquires'
        /\ pc' \in [Calls -> {"idle"} \cup Acquiring \cup Critical \cup Ended]
    BY <1>1, <1>2, StepKeepsControl
  <1>4. LockIsOf' /\ (~overdue' => HolderHolds' /\ HoldersHave' /\ WaitersSee')
    BY <1>1, <1>2, WaitKeepsLock
  <1>5. (~overdue' => LoadedIsFile') /\ AcknowledgedIsStored'
    BY <1>1, StepKeepsFile
  <1>6. TypeOK'
    BY <1>1, <1>3 DEF FileInd, TypeOK
  <1> QED
    BY <1>3, <1>4, <1>5, <1>6 DEF FileInd

LEMMA OpenKeeps ==
  ASSUME FileInd, NEW c \in Calls, Open(c)
  PROVE  FileInd'
  <1>1. /\ At(c, "open")
        /\ UNCHANGED <<file, started, alive, overdue, elapsed, pid, record, result>>
    BY DEF Open, world
  <1>2. /\ {"read", "write"} \subseteq Acquiring /\ "write" \in Holding
        /\ "read" \notin Holding /\ "open" \notin Holding
    BY DEF Acquiring, Holding, Critical
  <1>3. CASE lock.by # NoCall
    <2>1. lock' = lock /\ Goto(c, "read")
      BY <1>3 DEF Open
    <2>2. /\ OneLives' /\ RunningLives' /\ OneAcquires'
          /\ pc' \in [Calls -> {"idle"} \cup Acquiring \cup Critical \cup Ended]
      BY <1>1, <1>2, <2>1, StepKeepsControl
    <2>3. LockIsOf' /\ (~overdue' => HolderHolds' /\ HoldersHave' /\ WaitersSee')
      BY <1>1, <1>2, <2>1, WaitKeepsLock
    <2>4. (~overdue' => LoadedIsFile') /\ AcknowledgedIsStored'
      BY <1>1, <2>1, StepKeepsFile
    <2>5. TypeOK'
      BY <1>1, <2>1, <2>2 DEF FileInd, TypeOK
    <2> QED
      BY <2>2, <2>3, <2>4, <2>5 DEF FileInd
  <1>4. CASE lock.by = NoCall
    <2>1. lock' = [by |-> c, pid |-> NoPid, fresh |-> StaleTicks] /\ Goto(c, "write")
      BY <1>4 DEF Open
    <2>2. /\ OneLives' /\ RunningLives' /\ OneAcquires'
          /\ pc' \in [Calls -> {"idle"} \cup Acquiring \cup Critical \cup Ended]
      BY <1>1, <1>2, <2>1, StepKeepsControl
    <2>3. (~overdue' => LoadedIsFile') /\ AcknowledgedIsStored'
      BY <1>1, <2>1, StepKeepsFile
    <2>4. lock' \in [by : Calls \cup {NoCall}, pid : Procs \cup {NoPid}, fresh : 0..StaleTicks]
      BY <2>1, TimingAssumption
    <2>5. TypeOK'
      BY <1>1, <2>2, <2>4 DEF FileInd, TypeOK
    <2>6. c # NoCall /\ ProcOf[c] \in alive /\ ProcOf[c] \in started
      BY <1>1, NoneAssumption DEF At, FileInd, TypeOK
    <2>7. LockIsOf'
      BY <1>1, <2>1, <2>6 DEF LockIsOf
    <2>8. pc \in [Calls -> {"idle"} \cup Acquiring \cup Critical \cup Ended] /\ pc[c] = "open"
      BY <1>1 DEF FileInd, TypeOK, At
    <2>9. \A d \in Calls : pc'[d] = IF d = c THEN "write" ELSE pc[d]
      BY <2>1, <2>8 DEF Goto
    <2>10. ASSUME ~overdue'
           PROVE  HolderHolds' /\ HoldersHave' /\ WaitersSee'
      <3>1. \A d \in Calls : pc[d] \notin Holding
        BY <1>1, <1>4, <2>10, NoneAssumption DEF FileInd, HoldersHave
      <3>2. HoldersHave'
        BY <2>1, <2>9, <3>1 DEF HoldersHave
      <3>3. HolderHolds'
        BY <1>2, <2>1, <2>9, TimingAssumption DEF HolderHolds, Critical
      <3>4. \A d \in Calls \ {c} : pc[d] \notin Acquiring
        BY <1>1, Alone
      <3>5. WaitersSee'
        BY <2>9, <3>4 DEF WaitersSee, Acquiring
      <3> QED
        BY <3>2, <3>3, <3>5
    <2> QED
      BY <2>2, <2>3, <2>5, <2>7, <2>10 DEF FileInd
  <1> QED
    BY <1>3, <1>4

LEMMA WaiterKeeps ==
  ASSUME FileInd, NEW c \in Calls, LockTimeout(c) \/ ReadLockMetadata(c)
  PROVE  FileInd'
  <1>1. PICK p \in {"open", "read"}, q \in {"done", "stat"} : At(c, p) /\ Goto(c, q)
    BY DEF LockTimeout, ReadLockMetadata
  <1>2. /\ UNCHANGED <<lock, file, started, alive, overdue, elapsed, record>>
        /\ result' = result \/ result' = [result EXCEPT ![c] = "error"]
    BY DEF LockTimeout, ReadLockMetadata, world
  <1>3. q \in Acquiring \cup Ended /\ q \notin Holding /\ p \notin Holding
    BY DEF Acquiring, Ended, Holding, Critical
  <1>4. lock.pid \in Procs \cup {NoPid} /\ pid \in [Calls -> Procs \cup {NoPid}]
    BY DEF FileInd, TypeOK
  <1>5. pc'[c] = q /\ pc \in [Calls -> {"idle"} \cup Acquiring \cup Critical \cup Ended]
    BY <1>1 DEF Goto, FileInd, TypeOK
  <1>6. pid' \in [Calls -> Procs \cup {NoPid}] /\ (q = "stat" => pid'[c] = lock.pid)
    <2>1. CASE LockTimeout(c)
      BY <1>4, <1>5, <2>1 DEF LockTimeout, Goto
    <2>2. CASE ReadLockMetadata(c)
      BY <1>4, <2>2 DEF ReadLockMetadata
    <2> QED
      BY <2>1, <2>2
  <1>7. /\ OneLives' /\ RunningLives' /\ OneAcquires'
        /\ pc' \in [Calls -> {"idle"} \cup Acquiring \cup Critical \cup Ended]
    BY <1>1, <1>2, <1>3, StepKeepsControl
  <1>8. LockIsOf' /\ (~overdue' => HolderHolds' /\ HoldersHave' /\ WaitersSee')
    BY <1>1, <1>2, <1>3, <1>6, WaitKeepsLock
  <1>9. /\ (~overdue' => LoadedIsFile') /\ AcknowledgedIsStored'
        /\ result' \in [Calls -> {"none", "ok", "error"}]
    BY <1>1, <1>2, StepKeepsFile
  <1>10. TypeOK'
    BY <1>2, <1>6, <1>7, <1>9 DEF FileInd, TypeOK
  <1> QED
    BY <1>7, <1>8, <1>9, <1>10 DEF FileInd

LEMMA StatKeeps ==
  ASSUME FileInd, NEW c \in Calls, Stat(c)
  PROVE  FileInd'
  <1>1. /\ At(c, "stat")
        /\ UNCHANGED <<lock, file, started, alive, overdue, elapsed, pid, record, result>>
    BY DEF Stat, world
  <1>2. PICK q \in {"remove", "open"} : Goto(c, q) /\ (q = "remove" => Stale(c))
    BY DEF Stat
  <1>3. q \in Acquiring /\ q \notin Holding /\ "stat" \notin Holding
    BY DEF Acquiring, Holding, Critical
  <1>4. /\ OneLives' /\ RunningLives' /\ OneAcquires'
        /\ pc' \in [Calls -> {"idle"} \cup Acquiring \cup Critical \cup Ended]
    BY <1>1, <1>2, <1>3, StepKeepsControl
  <1>5. (~overdue' => LoadedIsFile') /\ AcknowledgedIsStored'
    BY <1>1, <1>2, StepKeepsFile
  <1>6. TypeOK'
    BY <1>1, <1>4 DEF FileInd, TypeOK
  <1>7. pc \in [Calls -> {"idle"} \cup Acquiring \cup Critical \cup Ended] /\ pc[c] = "stat"
    BY <1>1 DEF FileInd, TypeOK, At
  <1>8. \A d \in Calls : pc'[d] = IF d = c THEN q ELSE pc[d]
    BY <1>2, <1>7 DEF Goto
  <1>9. LockIsOf' /\ HolderLives' = HolderLives
    BY <1>1 DEF FileInd, LockIsOf, HolderLives
  <1>10. ASSUME ~overdue'
         PROVE  HolderHolds' /\ HoldersHave' /\ WaitersSee'
    <2>1. HolderHolds /\ HoldersHave /\ WaitersSee
      BY <1>1, <1>10 DEF FileInd
    <2>2. HoldersHave'
      BY <1>1, <1>3, <1>8, <2>1 DEF HoldersHave
    <2>3. lock.by \in Calls \cup {NoCall}
      BY DEF FileInd, TypeOK
    <2>4. ASSUME HolderLives
          PROVE  lock.by \in Calls /\ lock.by # c /\ pc'[lock.by] = pc[lock.by]
      BY <1>3, <1>7, <1>8, <2>1, <2>3, <2>4 DEF HolderHolds, HolderLives
    <2>5. HolderHolds'
      BY <1>1, <1>9, <2>1, <2>4 DEF HolderHolds
    <2>6. \A d \in Calls \ {c} : pc[d] \notin Acquiring
      BY <1>1, Alone
    <2>7. ASSUME HolderLives
          PROVE  ~Stale(c)
      <3>1. pid[c] = lock.pid /\ lock.fresh # 0 /\ lock.by # NoCall
        BY <1>7, <2>1, <2>7 DEF WaitersSee, HolderHolds, HolderLives
      <3>2. lock.pid # NoPid => lock.pid \in alive
        BY <2>7 DEF FileInd, LockIsOf, HolderLives
      <3> QED
        BY <3>1, <3>2 DEF Stale
    <2>8. WaitersSee'
      BY <1>2, <1>8, <1>9, <2>6, <2>7 DEF WaitersSee, Acquiring
    <2> QED
      BY <2>2, <2>5, <2>8
  <1> QED
    BY <1>4, <1>5, <1>6, <1>9, <1>10 DEF FileInd

\* Remove and Release leave no lock file and nobody who holds it.
LEMMA UnlockKeeps ==
  ASSUME FileInd, NEW c \in Calls, Remove(c) \/ Release(c)
  PROVE  FileInd'
  <1>1. PICK p \in {"remove", "release"}, q \in {"open", "done"} : At(c, p) /\ Goto(c, q)
    BY DEF Remove, Release
  <1>2. /\ lock' = NoLock
        /\ UNCHANGED <<file, started, alive, overdue, elapsed, pid, record, result>>
    BY DEF Remove, Release, world
  <1>3. q \in Acquiring \cup Ended /\ q \notin Holding /\ q \notin {"stat", "remove"}
    BY DEF Acquiring, Ended, Holding, Critical
  <1>4. /\ OneLives' /\ RunningLives' /\ OneAcquires'
        /\ pc' \in [Calls -> {"idle"} \cup Acquiring \cup Critical \cup Ended]
    BY <1>1, <1>2, <1>3, StepKeepsControl
  <1>5. (~overdue' => LoadedIsFile') /\ AcknowledgedIsStored'
    BY <1>1, <1>2, <1>3, StepKeepsFile
  <1>6. lock' \in [by : Calls \cup {NoCall}, pid : Procs \cup {NoPid}, fresh : 0..StaleTicks]
    BY <1>2, TimingAssumption DEF NoLock
  <1>7. TypeOK'
    BY <1>2, <1>4, <1>6 DEF FileInd, TypeOK
  <1>8. pc \in [Calls -> {"idle"} \cup Acquiring \cup Critical \cup Ended] /\ pc[c] = p
    BY <1>1 DEF FileInd, TypeOK, At
  <1>9. \A d \in Calls : pc'[d] = IF d = c THEN q ELSE pc[d]
    BY <1>1, <1>8 DEF Goto
  <1>10. LockIsOf' /\ ~HolderLives'
    BY <1>2 DEF LockIsOf, HolderLives, NoLock
  <1>11. ASSUME ~overdue'
         PROVE  HolderHolds' /\ HoldersHave' /\ WaitersSee'
    <2>1. HoldersHave /\ WaitersSee
      BY <1>2, <1>11 DEF FileInd
    <2>2. ASSUME NEW d \in Calls \ {c} PROVE pc[d] \notin Holding
      <3> SUFFICES ASSUME pc[d] \in Holding PROVE FALSE
        OBVIOUS
      <3>1. lock.by = d /\ d # NoCall /\ ProcOf[d] \in alive
        BY <2>1, NoneAssumption DEF HoldersHave, FileInd, RunningLives, Holding, Acquiring
      <3>2. p # "remove"
        BY <1>8, <2>1, <3>1 DEF WaitersSee, HolderLives
      <3>3. p \in Holding
        BY <3>2 DEF Holding, Critical
      <3> QED
        BY <1>8, <2>1, <3>1, <3>3 DEF HoldersHave
    <2>3. HoldersHave'
      BY <1>3, <1>9, <2>2 DEF HoldersHave
    <2>4. \A d \in Calls \ {c} : pc[d] \notin Acquiring
      BY <1>1, Alone
    <2>5. WaitersSee'
      BY <1>3, <1>9, <2>4, <1>10 DEF WaitersSee, Acquiring
    <2> QED
      BY <1>10, <2>3, <2>5 DEF HolderHolds
  <1> QED
    BY <1>4, <1>5, <1>7, <1>10, <1>11 DEF FileInd

----------------------------------------------------------------------------
(* Under the lock *)

\* A step of the holder that keeps the lock file, and may write its pid to it.
LEMMA HolderKeepsLock ==
  ASSUME FileInd, NEW c \in Calls, NEW p, NEW q, At(c, p), Goto(c, q),
         p \in Holding, q \in Critical,
         \/ lock' = lock /\ p # "write"
         \/ lock.by # c /\ lock' = lock
         \/ lock.by = c /\ lock' = [lock EXCEPT !.pid = ProcOf[c], !.fresh = StaleTicks],
         UNCHANGED <<started, alive, overdue>>
  PROVE  /\ LockIsOf' /\ (~overdue' => HolderHolds' /\ HoldersHave' /\ WaitersSee')
         /\ lock' \in [by : Calls \cup {NoCall}, pid : Procs \cup {NoPid}, fresh : 0..StaleTicks]
  <1>1. \A d \in Calls \ {c} : pc[d] \notin Acquiring
    BY Alone
  <1>2. pc \in [Calls -> {"idle"} \cup Acquiring \cup Critical \cup Ended] /\ pc[c] = p
    BY DEF FileInd, TypeOK, At
  <1>3. \A d \in Calls : pc'[d] = IF d = c THEN q ELSE pc[d]
    BY <1>2 DEF Goto
  <1>4. /\ lock \in [by : Calls \cup {NoCall}, pid : Procs \cup {NoPid}, fresh : 0..StaleTicks]
        /\ ProcOf[c] \in Procs /\ ProcOf[c] \in alive /\ ProcOf[c] \in started /\ c # NoCall
    BY ProcAssumption, NoneAssumption DEF FileInd, TypeOK, At
  <1>5. /\ lock' \in [by : Calls \cup {NoCall}, pid : Procs \cup {NoPid}, fresh : 0..StaleTicks]
        /\ lock'.by = lock.by
        /\ \/ lock' = lock
           \/ lock'.by = c /\ lock'.pid = ProcOf[c] /\ lock'.fresh = StaleTicks
    <2>1. CASE lock' = lock
      BY <1>4, <2>1
    <2>2. CASE lock.by = c /\ lock' = [lock EXCEPT !.pid = ProcOf[c], !.fresh = StaleTicks]
      <3>1. lock' = [by |-> lock.by, pid |-> ProcOf[c], fresh |-> StaleTicks]
        BY <1>4, <2>2
      <3>2. StaleTicks \in 0..StaleTicks
        BY TimingAssumption
      <3>3. lock' \in [by : Calls \cup {NoCall}, pid : Procs \cup {NoPid}, fresh : 0..StaleTicks]
        BY <1>4, <3>1, <3>2
      <3>4. lock'.by = lock.by /\ lock'.pid = ProcOf[c] /\ lock'.fresh = StaleTicks
        BY <3>1
      <3> QED
        BY <2>2, <3>3, <3>4
    <2> QED
      BY <2>1, <2>2
  <1>6. LockIsOf' /\ HolderLives' = HolderLives
    BY <1>4, <1>5 DEF FileInd, LockIsOf, HolderLives
  <1>7. ASSUME ~overdue'
        PROVE  HolderHolds' /\ HoldersHave' /\ WaitersSee'
    <2>1. HolderHolds /\ HoldersHave /\ lock.by = c
      BY <1>2, <1>7 DEF FileInd, HoldersHave
    <2>2. HoldersHave'
      BY <1>3, <1>5, <2>1 DEF HoldersHave
    <2>3. lock'.pid # NoPid /\ lock'.fresh # 0
      BY <1>2, <1>4, <1>5, <2>1, TimingAssumption, NoneAssumption DEF HolderHolds, HolderLives, Holding
    <2>4. HolderHolds'
      BY <1>3, <1>5, <2>1, <2>3 DEF HolderHolds, Holding
    <2>5. WaitersSee'
      BY <1>1, <1>3 DEF WaitersSee, Acquiring, Critical
    <2> QED
      BY <2>2, <2>4, <2>5
  <1> QED
    BY <1>5, <1>6, <1>7

LEMMA WriteMetadataKeeps ==
  ASSUME FileInd, NEW c \in Calls, WriteMetadata(c)
  PROVE  FileInd'
  <1>1. /\ At(c, "write") /\ Goto(c, "load")
        /\ UNCHANGED <<file, started, alive, overdue, elapsed, pid, record, result>>
    BY DEF WriteMetadata, world
  <1>2. \/ lock.by # c /\ lock' = lock
        \/ lock.by = c /\ lock' = [lock EXCEPT !.pid = ProcOf[c], !.fresh = StaleTicks]
    BY DEF WriteMetadata
  <1>3. "write" \in Holding /\ "load" \in Critical
    BY DEF Holding, Critical
  <1>4. /\ OneLives' /\ RunningLives' /\ OneAcquires'
        /\ pc' \in [Calls -> {"idle"} \cup Acquiring \cup Critical \cup Ended]
    BY <1>1, <1>3, StepKeepsControl
  <1>5. (~overdue' => LoadedIsFile') /\ AcknowledgedIsStored'
    BY <1>1, StepKeepsFile
  <1>6. /\ LockIsOf' /\ (~overdue' => HolderHolds' /\ HoldersHave' /\ WaitersSee')
        /\ lock' \in [by : Calls \cup {NoCall}, pid : Procs \cup {NoPid}, fresh : 0..StaleTicks]
    BY <1>1, <1>2, <1>3, HolderKeepsLock
  <1>7. TypeOK'
    BY <1>1, <1>4, <1>6 DEF FileInd, TypeOK
  <1> QED
    BY <1>4, <1>5, <1>6, <1>7 DEF FileInd

LEMMA LoadKeeps ==
  ASSUME FileInd, NEW c \in Calls, Load(c) \/ MutatorThrows(c)
  PROVE  FileInd'
  <1>1. /\ At(c, "load") /\ record' = [record EXCEPT ![c] = file]
        /\ UNCHANGED <<lock, file, started, alive, overdue, elapsed, pid>>
        /\ result' = result \/ result' = [result EXCEPT ![c] = "error"]
    BY DEF Load, MutatorThrows, world
  <1>2. PICK q \in {"save", "release"} : Goto(c, q)
    BY DEF Load, MutatorThrows
  <1>3. "load" \in Holding /\ q \in Critical
    BY DEF Holding, Critical
  <1>4. /\ OneLives' /\ RunningLives' /\ OneAcquires'
        /\ pc' \in [Calls -> {"idle"} \cup Acquiring \cup Critical \cup Ended]
    BY <1>1, <1>2, <1>3, StepKeepsControl
  <1>5. LockIsOf' /\ (~overdue' => HolderHolds' /\ HoldersHave' /\ WaitersSee')
    BY <1>1, <1>2, <1>3, HolderKeepsLock
  <1>6. file \in Records /\ record \in [Calls -> Records] /\ result \in [Calls -> {"none", "ok", "error"}]
    BY DEF FileInd, TypeOK
  <1>7. record' \in [Calls -> Records] /\ result' \in [Calls -> {"none", "ok", "error"}]
    BY <1>1, <1>6
  <1>8. TypeOK'
    BY <1>1, <1>4, <1>7 DEF FileInd, TypeOK
  <1>9. \A d \in Calls : result'[d] = "ok" => result[d] = "ok"
    BY <1>1, <1>6
  <1>10. AcknowledgedIsStored'
    BY <1>1, <1>9 DEF FileInd, AcknowledgedIsStored
  <1>11. \A d \in Calls : record'[d] = IF d = c THEN file ELSE record[d]
    BY <1>1, <1>6
  <1>12. \A d \in Calls : d = c \/ pc'[d] = pc[d]
    BY <1>2 DEF Goto, FileInd, TypeOK
  <1>13. ~overdue' => LoadedIsFile'
    BY <1>1, <1>11, <1>12 DEF FileInd, LoadedIsFile
  <1> QED
    BY <1>4, <1>5, <1>8, <1>10, <1>13 DEF FileInd

LEMMA SaveKeeps ==
  ASSUME FileInd, NEW c \in Calls, Save(c)
  PROVE  FileInd'
  <1>1. /\ At(c, "save") /\ Goto(c, "release") /\ result' = [result EXCEPT ![c] = "ok"]
        /\ file' = [revision |-> record[c].revision + 1, state |-> Append(record[c].state, c)]
        /\ UNCHANGED <<lock, started, alive, overdue, elapsed, pid, record>>
    BY DEF Save, Write, world
  <1>2. "save" \in Holding /\ "release" \in Critical /\ pc[c] = "save"
    BY <1>1 DEF Holding, Critical, At
  <1>3. /\ OneLives' /\ RunningLives' /\ OneAcquires'
        /\ pc' \in [Calls -> {"idle"} \cup Acquiring \cup Critical \cup Ended]
    BY <1>1, <1>2, StepKeepsControl
  <1>4. LockIsOf' /\ (~overdue' => HolderHolds' /\ HoldersHave' /\ WaitersSee')
    BY <1>1, <1>2, HolderKeepsLock
  <1>5. record[c] \in Records /\ result \in [Calls -> {"none", "ok", "error"}]
    BY DEF FileInd, TypeOK
  <1>6. record[c].revision \in Nat /\ record[c].state \in Seq(Calls)
    BY <1>5 DEF Records
  <1>7. /\ Append(record[c].state, c) \in Seq(Calls)
        /\ Len(Append(record[c].state, c)) = Len(record[c].state) + 1
        /\ Len(record[c].state) \in Nat
        /\ Append(record[c].state, c)[Len(record[c].state) + 1] = c
        /\ \A i \in 1..Len(record[c].state) : Append(record[c].state, c)[i] = record[c].state[i]
    BY <1>6
  <1>8. file' \in Records /\ result' \in [Calls -> {"none", "ok", "error"}]
    BY <1>1, <1>5, <1>6, <1>7 DEF Records
  <1>9. TypeOK'
    BY <1>1, <1>3, <1>8 DEF FileInd, TypeOK
  <1>10. pc \in [Calls -> {"idle"} \cup Acquiring \cup Critical \cup Ended]
    BY DEF FileInd, TypeOK
  <1>11. \A d \in Calls : pc'[d] = IF d = c THEN "release" ELSE pc[d]
    BY <1>1, <1>10 DEF Goto
  <1>12. ASSUME ~overdue'
         PROVE  LoadedIsFile' /\ AcknowledgedIsStored'
    <2>1. HoldersHave /\ LoadedIsFile /\ AcknowledgedIsStored /\ ~overdue
      BY <1>1, <1>12 DEF FileInd
    <2>2. \A d \in Calls \ {c} : pc[d] # "save"
      BY <1>2, <2>1 DEF HoldersHave
    <2>3. LoadedIsFile'
      BY <1>11, <2>2 DEF LoadedIsFile
    <2>4. record[c] = file
      BY <1>2, <2>1 DEF LoadedIsFile
    <2>5. PICK s : s = record[c].state
      OBVIOUS
    <2>6. file.state = s /\ file'.state = Append(s, c)
      BY <1>1, <2>4, <2>5
    <2>7. ASSUME NEW d \in Calls, result'[d] = "ok"
          PROVE  \E i \in 1..Len(Append(s, c)) : Append(s, c)[i] = d
      <3>1. CASE d = c
        BY <1>7, <2>5, <3>1
      <3>2. CASE d # c
        <4>1. result[d] = "ok"
          BY <1>1, <1>5, <2>7, <3>2
        <4>2. PICK i \in 1..Len(s) : s[i] = d
          BY <2>1, <2>6, <4>1 DEF AcknowledgedIsStored
        <4>3. i \in 1..Len(Append(s, c)) /\ Append(s, c)[i] = d
          BY <1>7, <2>5, <4>2
        <4> QED
          BY <4>3
      <3> QED
        BY <3>1, <3>2
    <2>8. AcknowledgedIsStored'
      BY <2>6, <2>7 DEF AcknowledgedIsStored
    <2> QED
      BY <2>3, <2>8
  <1>13. AcknowledgedIsStored'
    BY <1>12 DEF AcknowledgedIsStored
  <1> QED
    BY <1>3, <1>4, <1>9, <1>12, <1>13 DEF FileInd

----------------------------------------------------------------------------
(* Processes and time *)

\* With one runtime the process that starts is the first, or follows a dead one
\* whose lock file it did not create.
LEMMA StartKeeps ==
  ASSUME FileInd, OneRuntime, NEW p \in Procs, Start(p)
  PROVE  FileInd'
  <1>1. /\ p \notin started /\ alive = {} /\ started' = started \cup {p} /\ alive' = {p}
        /\ UNCHANGED <<lock, file, overdue, pc, elapsed, pid, record, result>>
    BY DEF Start
  <1>2. \A c \in Calls : pc[c] \notin Acquiring \cup Critical
    BY <1>1 DEF FileInd, RunningLives
  <1>3. TypeOK'
    BY <1>1 DEF FileInd, TypeOK
  <1>4. OneLives' /\ RunningLives' /\ OneAcquires' /\ LockIsOf'
    BY <1>1, <1>2 DEF FileInd, OneLives, RunningLives, OneAcquires, LockIsOf
  <1>5. ~HolderLives'
    BY <1>1 DEF FileInd, LockIsOf, HolderLives
  <1>6. HolderHolds' /\ HoldersHave' /\ WaitersSee' /\ LoadedIsFile'
    BY <1>1, <1>2, <1>5 DEF HolderHolds, HoldersHave, WaitersSee, LoadedIsFile, Holding,
       Acquiring, Critical
  <1>7. AcknowledgedIsStored'
    BY <1>1 DEF FileInd, AcknowledgedIsStored
  <1> QED
    BY <1>3, <1>4, <1>6, <1>7 DEF FileInd

LEMMA DieKeeps ==
  ASSUME FileInd, NEW p \in Procs, Die(p)
  PROVE  FileInd'
  <1>1. /\ p \in alive /\ alive' = alive \ {p}
        /\ UNCHANGED <<lock, file, started, overdue, elapsed, pid, record, result>>
    BY DEF Die
  <1>2. alive' = {} /\ \A q \in alive : q = p
    BY <1>1 DEF FileInd, OneLives
  <1>3. pc \in [Calls -> {"idle"} \cup Acquiring \cup Critical \cup Ended]
    BY DEF FileInd, TypeOK
  <1>4. "crashed" \in Ended /\ \A x \in Acquiring \cup Critical : x \notin Ended
    BY DEF Acquiring, Critical, Ended
  <1>5. pc' \in [Calls -> {"idle"} \cup Acquiring \cup Critical \cup Ended]
    BY <1>3, <1>4 DEF Die
  <1>6. ASSUME NEW c \in Calls PROVE pc'[c] \notin Acquiring \cup Critical
    <2>1. pc'[c] = IF ProcOf[c] = p /\ pc[c] \notin Ended THEN "crashed" ELSE pc[c]
      BY DEF Die
    <2>2. pc[c] \in Acquiring \cup Critical => ProcOf[c] = p
      BY <1>2 DEF FileInd, RunningLives
    <2> QED
      BY <1>4, <2>1, <2>2
  <1>7. TypeOK'
    BY <1>1, <1>2, <1>5 DEF FileInd, TypeOK
  <1>8. OneLives' /\ RunningLives' /\ OneAcquires' /\ LockIsOf'
    BY <1>1, <1>2, <1>6 DEF FileInd, OneLives, RunningLives, OneAcquires, LockIsOf
  <1>9. ~HolderLives'
    BY <1>2 DEF HolderLives
  <1>10. HolderHolds' /\ HoldersHave' /\ WaitersSee' /\ LoadedIsFile'
    BY <1>6, <1>9 DEF HolderHolds, HoldersHave, WaitersSee, LoadedIsFile, Holding,
       Acquiring, Critical
  <1>11. AcknowledgedIsStored'
    BY <1>1 DEF FileInd, AcknowledgedIsStored
  <1> QED
    BY <1>7, <1>8, <1>10, <1>11 DEF FileInd

LEMMA TickKeeps ==
  ASSUME FileInd, Tick
  PROVE  FileInd'
  <1>1. UNCHANGED <<file, started, alive, pc, pid, record, result>>
    BY DEF Tick
  <1>2. lock \in [by : Calls \cup {NoCall}, pid : Procs \cup {NoPid}, fresh : 0..StaleTicks]
    BY DEF FileInd, TypeOK
  <1>3. lock' = [by |-> lock.by, pid |-> lock.pid, fresh |-> RunDown(lock.fresh)]
    BY <1>2 DEF Tick
  <1>4. RunDown(lock.fresh) \in 0..StaleTicks /\ lock.fresh \in Nat
    BY <1>2, TimingAssumption DEF RunDown
  <1>5. lock' \in [by : Calls \cup {NoCall}, pid : Procs \cup {NoPid}, fresh : 0..StaleTicks]
    BY <1>2, <1>3, <1>4
  <1>6. elapsed' \in [Calls -> 0..(TimeoutTicks + 1)]
    BY TimingAssumption DEF Tick, FileInd, TypeOK
  <1>7. overdue \in BOOLEAN
    BY DEF FileInd, TypeOK
  <1>8. overdue' \in BOOLEAN
    BY <1>7 DEF Tick
  <1>9. TypeOK'
    BY <1>1, <1>5, <1>6, <1>8 DEF FileInd, TypeOK
  <1>10. OneLives' /\ RunningLives' /\ OneAcquires' /\ LockIsOf'
    BY <1>1, <1>3 DEF FileInd, OneLives, RunningLives, OneAcquires, LockIsOf
  <1>11. HolderLives' <=> HolderLives
    BY <1>1, <1>3 DEF HolderLives
  <1>12. ~overdue' => ~overdue /\ ~(HolderLives /\ lock.fresh = 1)
    BY <1>7 DEF Tick
  <1>13. ASSUME ~overdue'
         PROVE  HolderHolds' /\ HoldersHave' /\ WaitersSee' /\ LoadedIsFile'
    <2>1. HolderHolds /\ HoldersHave /\ WaitersSee /\ LoadedIsFile
      BY <1>12, <1>13 DEF FileInd
    <2>2. HolderLives => RunDown(lock.fresh) # 0
      BY <1>4, <1>12, <1>13, <2>1 DEF HolderHolds, RunDown
    <2>3. HolderHolds'
      BY <1>1, <1>3, <1>11, <2>1, <2>2 DEF HolderHolds
    <2> QED
      BY <1>1, <1>3, <1>11, <2>1, <2>3 DEF HoldersHave, WaitersSee, LoadedIsFile
  <1>14. AcknowledgedIsStored'
    BY <1>1, <1>12 DEF FileInd, AcknowledgedIsStored
  <1> QED
    BY <1>9, <1>10, <1>13, <1>14 DEF FileInd

LEMMA FileStep ==
  ASSUME OneRuntime, FileInd, [Next]_vars
  PROVE  FileInd'
  <1>1. ASSUME NEW c \in Calls, Begin(c) \/ Step(c) \/ MutatorThrows(c)
        PROVE  FileInd'
    BY <1>1, BeginKeeps, OpenKeeps, WaiterKeeps, StatKeeps, UnlockKeeps, WriteMetadataKeeps,
       LoadKeeps, SaveKeeps DEF Step
  <1>2. ASSUME NEW p \in Procs, Start(p) \/ Die(p)
        PROVE  FileInd'
    BY <1>2, StartKeeps, DieKeeps
  <1>3. CASE Tick
    BY <1>3, TickKeeps
  <1>4. CASE UNCHANGED vars
    <2>1. UNCHANGED <<lock, file, started, alive, overdue, pc, elapsed, pid, record, result>>
      BY <1>4 DEF vars, world
    <2>2. HolderLives' = HolderLives
      BY <2>1 DEF HolderLives
    <2>3. TypeOK' /\ AcknowledgedIsStored' /\ LockIsOf'
      BY <2>1 DEF FileInd, TypeOK, AcknowledgedIsStored, LockIsOf
    <2>4. OneLives' /\ RunningLives' /\ OneAcquires'
      BY <2>1 DEF FileInd, OneLives, RunningLives, OneAcquires
    <2>5. ~overdue' => HolderHolds' /\ HoldersHave' /\ WaitersSee' /\ LoadedIsFile'
      BY <2>1, <2>2 DEF FileInd, HolderHolds, HoldersHave, WaitersSee, LoadedIsFile
    <2> QED
      BY <2>3, <2>4, <2>5 DEF FileInd
  <1> QED
    BY <1>1, <1>2, <1>3, <1>4 DEF Next

\* As long as one runtime at a time serves the directory, and every call gives
\* the lock up within LOCK_STALE_MS: no two calls of mutateState are between
\* acquireTenantLock and releaseTenantLock, and what was reported as saved is in
\* the state file, for any number of calls, restarts and crashes.
THEOREM FileStoreCorrect ==
  ASSUME OneRuntime
  PROVE  Spec => []FileInvariant
  <1>1. FileInd => FileInvariant
    <2> SUFFICES ASSUME FileInd PROVE LockExcludes
      BY DEF FileInd, FileInvariant
    <2> QED
      BY DEF FileInd, LockExcludes, HoldersHave, Holding
  <1>2. FileInd /\ [Next]_vars => FileInd'
    BY FileStep
  <1> QED
    BY FileInit, <1>1, <1>2, PTL DEF Spec
=============================================================================
