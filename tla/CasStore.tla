------------------------------ MODULE CasStore ------------------------------
(***************************************************************************)
(* The kernel's local content-addressed store (src/src/cas.cpp, CasStore   *)
(* and CasGarbageCollector): a blob, a .meta sidecar and a line of         *)
(* index.ndjson per object, an in-memory index that is filled lazily, and  *)
(* threads that put, remove, prune, repair and compact.  atomic_write,     *)
(* fs::remove and an append are one step each; between them other threads  *)
(* run and the process may die.                                            *)
(*                                                                         *)
(* Content and digest are one to one, so an object is named by its digest; *)
(* a blob is missing, the stored content, or something else.               *)
(***************************************************************************)
EXTENDS Naturals, FiniteSets

CONSTANTS
  Digests, CasThreads,
  MaxClock,       \* bound: values of std::time
  MaxCasOps,      \* bound: operations started
  MaxCasCrashes,  \* bound: crashes
  MaxCasFaults    \* bound: failed writes and damaged blobs

ASSUME CasAssumption ==
  /\ MaxClock \in Nat \ {0}
  /\ MaxCasOps \in Nat /\ MaxCasCrashes \in Nat /\ MaxCasFaults \in Nat

VARIABLES
  blob,       \* the object file: "none", "ok" or "bad"
  sidecar,    \* the .meta file exists
  lineOf,     \* created_at of the digest's last line in index.ndjson, 0 if none
  indexCut,   \* index.ndjson ends in the middle of a line
  index,      \* index_: created_at, 0 if absent
  indexLoaded,\* index_loaded_
  casClock,   \* std::time
  thread,     \* what each thread is doing
  owed,       \* history: digests acknowledged and not removed since
  coldCompact,\* history: compact ran before the index was loaded
  lineLost,   \* history: a crash or a failed write took an index line
  rolledBack, \* history: digests whose blob a failing put took away
  casOps, casCrashes, casFaults

diskVars == <<blob, sidecar, lineOf, indexCut>>
memVars  == <<index, indexLoaded>>
casHist  == <<owed, coldCompact, lineLost, rolledBack>>
casVars  == <<diskVars, memVars, casClock, thread, casHist,
              casOps, casCrashes, casFaults>>

Idle == [op |-> "idle"]

\* step: the next write or removal.  ts: info.created_at_unix_ts.  alone: no
\* removal of the same digest has overlapped the put.
PutAt(d, step, ts, alone) ==
  [op |-> "put", d |-> d, step |-> step, ts |-> ts, alone |-> alone]

\* After the removal of d: more digests to prune, or the put of a repair.
RemoveAt(d, step, todo, again) ==
  [op |-> "remove", d |-> d, step |-> step, todo |-> todo, again |-> again]

CasStarts ==
  /\ casOps < MaxCasOps
  /\ casOps' = casOps + 1
  /\ UNCHANGED <<casClock, casCrashes>>

CasGoesOn == UNCHANGED <<casClock, casCrashes, casOps>>

Fault == casFaults < MaxCasFaults /\ casFaults' = casFaults + 1

-----------------------------------------------------------------------------
(* Reading *)

\* load_index: the file's lines over what put has entered already.
LoadedIndex ==
  IF indexLoaded THEN index
  ELSE [d \in Digests |-> IF lineOf[d] # 0 THEN lineOf[d] ELSE index[d]]

Load == index' = LoadedIndex /\ indexLoaded' = TRUE

\* get: the blob, the index entry, the sidecar, and the two hashes agree.
Gets(d) == blob[d] = "ok" /\ LoadedIndex[d] # 0 /\ sidecar[d]

\* get loads the index on its way unless there is no blob.
GetLoads(d) == IF blob[d] # "none" THEN Load ELSE UNCHANGED memVars

\* scan_objects: the index once it is loaded, before that the blobs that have
\* an entry (info loads the index).
Scan ==
  {d \in Digests : /\ LoadedIndex[d] # 0
                   /\ indexLoaded \/ blob[d] # "none"}

-----------------------------------------------------------------------------
CasInit ==
  /\ blob = [d \in Digests |-> "none"] /\ sidecar = [d \in Digests |-> FALSE]
  /\ lineOf = [d \in Digests |-> 0] /\ indexCut = FALSE
  /\ index = [d \in Digests |-> 0] /\ indexLoaded = FALSE
  /\ casClock = 1
  /\ thread = [t \in CasThreads |-> Idle]
  /\ owed = {} /\ coldCompact = FALSE /\ lineLost = FALSE
  /\ rolledBack = {}
  /\ casOps = 0 /\ casCrashes = 0 /\ casFaults = 0

Removing(d) == \E t \in CasThreads : thread[t].op = "remove" /\ thread[t].d = d

\* put, first part: the dedup check.  Content that is stored and readable is
\* acknowledged at once; stored and not readable, it is refused.
BeginPut(t, d) ==
  IF blob[d] # "none" /\ sidecar[d]
  THEN /\ GetLoads(d)
       /\ thread' = [thread EXCEPT ![t] = Idle]
       /\ owed' = IF Gets(d) /\ ~Removing(d) THEN owed \cup {d} ELSE owed
  ELSE /\ thread' = [thread EXCEPT ![t] = PutAt(d, "blob", 0, ~Removing(d))]
       /\ UNCHANGED <<memVars, owed>>

Put(t, d) ==
  /\ thread[t].op = "idle" /\ CasStarts
  /\ BeginPut(t, d)
  /\ UNCHANGED <<diskVars, coldCompact, lineLost, rolledBack, casFaults>>

At(t, op, step) == thread[t].op = op /\ thread[t].step = step

\* The blob is renamed into place; the time is taken afterwards.
PutBlob(t) ==
  /\ At(t, "put", "blob") /\ CasGoesOn
  /\ blob' = [blob EXCEPT ![thread[t].d] = "ok"]
  /\ thread' = [thread EXCEPT ![t].step = "meta", ![t].ts = casClock]
  /\ UNCHANGED <<sidecar, lineOf, indexCut, memVars, casHist, casFaults>>

\* atomic_write of the blob fails, before the rename or in the directory's fsync.
PutBlobFails(t) ==
  /\ At(t, "put", "blob") /\ CasGoesOn /\ Fault
  /\ blob' \in {blob, [blob EXCEPT ![thread[t].d] = "ok"]}
  /\ thread' = [thread EXCEPT ![t] = Idle]
  /\ UNCHANGED <<sidecar, lineOf, indexCut, memVars, casHist>>

PutMeta(t) ==
  /\ At(t, "put", "meta") /\ CasGoesOn
  /\ sidecar' = [sidecar EXCEPT ![thread[t].d] = TRUE]
  /\ thread' = [thread EXCEPT ![t].step = "index"]
  /\ UNCHANGED <<blob, lineOf, indexCut, memVars, casHist, casFaults>>

\* The sidecar fails: the blob is rolled back, whoever wrote it.
PutMetaFails(t) ==
  /\ At(t, "put", "meta") /\ CasGoesOn /\ Fault
  /\ sidecar' \in {sidecar, [sidecar EXCEPT ![thread[t].d] = TRUE]}
  /\ blob' = [blob EXCEPT ![thread[t].d] = "none"]
  /\ rolledBack' = rolledBack \cup {thread[t].d}
  /\ thread' = [thread EXCEPT ![t] = Idle]
  /\ UNCHANGED <<lineOf, indexCut, memVars, owed, coldCompact, lineLost>>

Acknowledge(t) ==
  /\ thread' = [thread EXCEPT ![t] = Idle]
  /\ owed' = IF thread[t].alone /\ ~Removing(thread[t].d)
             THEN owed \cup {thread[t].d} ELSE owed

\* Mutant: put acknowledges before the index line is written.
PutIndexAcknowledges(t) ==
  /\ At(t, "put", "index") /\ CasGoesOn
  /\ index' = [index EXCEPT ![thread[t].d] = thread[t].ts]
  /\ Acknowledge(t)
  /\ UNCHANGED <<diskVars, indexLoaded, coldCompact, lineLost,
                 rolledBack, casFaults>>

PutIndex(t) ==
  /\ At(t, "put", "index") /\ CasGoesOn
  /\ index' = [index EXCEPT ![thread[t].d] = thread[t].ts]
  /\ thread' = [thread EXCEPT ![t].step = "line"]
  /\ UNCHANGED <<diskVars, indexLoaded, casHist, casFaults>>

\* save_index_entry.  On a line that was cut the new one is lost with it.
PutLine(t) ==
  /\ At(t, "put", "line") /\ CasGoesOn
  /\ lineOf' = IF indexCut THEN lineOf
               ELSE [lineOf EXCEPT ![thread[t].d] = thread[t].ts]
  /\ indexCut' = FALSE
  /\ Acknowledge(t)
  /\ UNCHANGED <<blob, sidecar, memVars, coldCompact, lineLost, rolledBack, casFaults>>

\* save_index_entry fails, wholly or in the middle of the line; nobody looks.
PutLineFails(t) ==
  /\ At(t, "put", "line") /\ CasGoesOn /\ Fault
  /\ indexCut' \in {indexCut, TRUE}
  /\ lineLost' = TRUE
  /\ Acknowledge(t)
  /\ UNCHANGED <<blob, sidecar, lineOf, memVars, coldCompact,
                 rolledBack>>

\* A removal of d is under way: what was acknowledged is no longer owed, and a
\* put of d that overlaps it may be undone by it.
RemovalOf(t, d, next) ==
  /\ thread' = [u \in CasThreads |->
                 IF u = t THEN next
                 ELSE IF thread[u].op = "put" /\ thread[u].d = d
                 THEN [thread[u] EXCEPT !.alone = FALSE] ELSE thread[u]]
  /\ owed' = owed \ {d}

Remove(t, d) ==
  /\ thread[t].op = "idle" /\ CasStarts
  /\ RemovalOf(t, d, RemoveAt(d, "blob", {}, FALSE))
  /\ UNCHANGED <<diskVars, memVars, coldCompact, lineLost, rolledBack, casFaults>>

RemoveBlob(t) ==
  /\ At(t, "remove", "blob") /\ CasGoesOn
  /\ blob' = [blob EXCEPT ![thread[t].d] = "none"]
  /\ RemovalOf(t, thread[t].d, [thread[t] EXCEPT !.step = "meta"])
  /\ UNCHANGED <<sidecar, lineOf, indexCut, memVars, coldCompact,
                 lineLost, rolledBack, casFaults>>

RemoveMeta(t) ==
  /\ At(t, "remove", "meta") /\ CasGoesOn
  /\ sidecar' = [sidecar EXCEPT ![thread[t].d] = FALSE]
  /\ RemovalOf(t, thread[t].d, [thread[t] EXCEPT !.step = "index"])
  /\ UNCHANGED <<blob, lineOf, indexCut, memVars, coldCompact,
                 lineLost, rolledBack, casFaults>>

\* The in-memory entry goes; the line stays in the file.
RemoveIndex(t) ==
  LET d == thread[t].d  todo == thread[t].todo IN
  /\ At(t, "remove", "index") /\ CasGoesOn
  /\ index' = [index EXCEPT ![d] = 0]
  /\ \/ /\ thread[t].again
        /\ RemovalOf(t, d, PutAt(d, "start", 0, TRUE))
     \/ /\ ~thread[t].again /\ todo = {}
        /\ RemovalOf(t, d, Idle)
     \/ /\ ~thread[t].again
        /\ \E e \in todo : RemovalOf(t, d, RemoveAt(e, "blob", todo \ {e}, FALSE))
  /\ UNCHANGED <<diskVars, indexLoaded, coldCompact, lineLost, rolledBack, casFaults>>

\* CasGarbageCollector::prune: scan, then remove what is older than the cutoff.
Prune(t) ==
  LET old == {d \in Scan : LoadedIndex[d] < casClock} IN
  /\ thread[t].op = "idle" /\ CasStarts
  /\ IF indexLoaded \/ \A d \in Digests : blob[d] = "none"
     THEN UNCHANGED memVars ELSE Load
  /\ \E d \in old : RemovalOf(t, d, RemoveAt(d, "blob", old \ {d}, FALSE))
  /\ UNCHANGED <<diskVars, coldCompact, lineLost, rolledBack, casFaults>>

\* repair of an object that get does not return and the replica has.
Repair(t, d) ==
  /\ thread[t].op = "idle" /\ CasStarts
  /\ ~Gets(d)
  /\ GetLoads(d)
  /\ RemovalOf(t, d, RemoveAt(d, "blob", {}, TRUE))
  /\ UNCHANGED <<diskVars, coldCompact, lineLost, rolledBack, casFaults>>

RepairPut(t) ==
  /\ At(t, "put", "start") /\ CasGoesOn
  /\ BeginPut(t, thread[t].d)
  /\ UNCHANGED <<diskVars, coldCompact, lineLost, rolledBack, casFaults>>

\* compact rewrites the file from the in-memory index, loaded or not.
Compact(t) ==
  /\ thread[t].op = "idle" /\ CasStarts
  /\ lineOf' = index /\ indexCut' = FALSE
  /\ coldCompact' = (coldCompact \/ ~indexLoaded)
  /\ UNCHANGED <<blob, sidecar, memVars, thread, owed, lineLost,
                 rolledBack, casFaults>>

\* info, size: the readers that load the index.
LoadIndex ==
  /\ ~indexLoaded /\ CasGoesOn
  /\ Load
  /\ UNCHANGED <<diskVars, thread, casHist, casFaults>>

CasTick ==
  /\ casClock < MaxClock
  /\ casClock' = casClock + 1
  /\ UNCHANGED <<diskVars, memVars, thread, casHist, casOps, casCrashes, casFaults>>

\* The process dies; a thread that was about to append its index line leaves
\* none, or half of it.
CasCrash ==
  LET appending == \E t \in CasThreads : At(t, "put", "line") IN
  /\ casCrashes < MaxCasCrashes
  /\ casCrashes' = casCrashes + 1
  /\ indexCut' \in {indexCut, indexCut \/ appending}
  /\ lineLost' = (lineLost \/ appending)
  /\ thread' = [t \in CasThreads |-> Idle]
  /\ index' = [d \in Digests |-> 0] /\ indexLoaded' = FALSE
  /\ UNCHANGED <<blob, sidecar, lineOf, casClock, owed, coldCompact,
                 rolledBack, casOps, casFaults>>

\* A blob is damaged on disk.
Damage(d) ==
  /\ blob[d] = "ok" /\ Fault /\ CasGoesOn
  /\ blob' = [blob EXCEPT ![d] = "bad"]
  /\ UNCHANGED <<sidecar, lineOf, indexCut, memVars, thread, casHist>>

PutSteps(t) == PutBlob(t) \/ PutMeta(t) \/ PutIndex(t) \/ PutLine(t) \/ RepairPut(t)
PutFailures(t) == PutBlobFails(t) \/ PutMetaFails(t) \/ PutLineFails(t)
RemoveSteps(t) == RemoveBlob(t) \/ RemoveMeta(t) \/ RemoveIndex(t)

CasNext ==
  \/ \E t \in CasThreads :
       \/ \E d \in Digests : Put(t, d) \/ Remove(t, d) \/ Repair(t, d)
       \/ Prune(t) \/ Compact(t)
       \/ PutSteps(t) \/ PutFailures(t) \/ RemoveSteps(t)
  \/ \E d \in Digests : Damage(d)
  \/ LoadIndex \/ CasTick \/ CasCrash

CasSpec == CasInit /\ [][CasNext]_casVars

-----------------------------------------------------------------------------
(* Properties *)

Steps == {"start", "blob", "meta", "index", "line"}

\* Types of the store's state.
CasTypeOK ==
  /\ blob \in [Digests -> {"none", "ok", "bad"}]
  /\ sidecar \in [Digests -> BOOLEAN]
  /\ lineOf \in [Digests -> 0..MaxClock] /\ indexCut \in BOOLEAN
  /\ index \in [Digests -> 0..MaxClock] /\ indexLoaded \in BOOLEAN
  /\ casClock \in 1..MaxClock
  /\ \A t \in CasThreads :
       \/ thread[t] = Idle
       \/ /\ thread[t].op = "put" /\ thread[t].step \in Steps
          /\ thread[t].d \in Digests /\ thread[t].ts \in 0..MaxClock
          /\ thread[t].step \in {"index", "line"} => thread[t].ts > 0
       \/ /\ thread[t].op = "remove" /\ thread[t].step \in {"blob", "meta", "index"}
          /\ thread[t].d \in Digests /\ thread[t].todo \subseteq Digests
  /\ owed \subseteq Digests /\ rolledBack \subseteq Digests

\* An object whose put was acknowledged can be read, now and by a process that
\* starts after a crash at any point, with other threads putting, pruning,
\* repairing and compacting around it, until a removal of it begins or its
\* blob is damaged.  The ways the code can still lose it are the premises: an
\* index line that did not reach the file (a second put of the same content
\* may be acknowledged before the first has written its line), a compaction by a process that had
\* not loaded the index, and a concurrent put of the same content whose
\* sidecar failed and that rolled the shared blob back.
AcknowledgedIsReadable ==
  ~lineLost /\ ~coldCompact =>
    \A d \in owed \ rolledBack : Gets(d) \/ blob[d] = "bad"

\* What holds of the store in every state: types, and that what it has
\* acknowledged can be read.
CasInvariant == CasTypeOK /\ AcknowledgedIsReadable

\* Put again, content whose intact object is in place is acknowledged, with no
\* other thread at work: docs/KERNEL_SPEC.md has put return the digest when the
\* object file exists.
StoredIsDeduped ==
  (\A t \in CasThreads : thread[t] = Idle) =>
    \A d \in Digests : blob[d] = "ok" /\ sidecar[d] => Gets(d)
=============================================================================
