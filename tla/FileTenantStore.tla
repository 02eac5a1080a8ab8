-------------------------- MODULE FileTenantStore --------------------------
(***************************************************************************)
(* Filesystem mode of the control-plane store (local-single-runtime): the  *)
(* tenant's lock is a file created with O_EXCL, its state a JSON file that *)
(* is replaced by rename.  Processes on one machine share both.            *)
(*                                                                         *)
(* Acquiring is synchronous: while a call waits in Atomics.wait the event  *)
(* loop of its process is blocked, and with it every other call of that    *)
(* process (Blocked).  Between processes every system call is a step of    *)
(* its own.  As in TenantStore the state is the sequence of calls whose    *)
(* mutator it contains, and Tick lets the timers run down.  A process that *)
(* died is not started again under its old pid.                            *)
(***************************************************************************)
EXTENDS Naturals, Sequences

CONSTANTS Calls, Procs,
          ProcOf,        \* the process that makes a call
          NoCall, NoPid,
          StaleTicks,    \* LOCK_STALE_MS
          TimeoutTicks,  \* LOCK_TIMEOUT_MS
          OneRuntime     \* a process is started only when no other runs

ASSUME ProcAssumption == ProcOf \in [Calls -> Procs]
ASSUME NoneAssumption == NoCall \notin Calls /\ NoPid \notin Procs
ASSUME TimingAssumption == StaleTicks \in Nat \ {0} /\ TimeoutTicks \in Nat
ASSUME ModeAssumption == OneRuntime \in BOOLEAN

VARIABLES
  lock,     \* the lock file: who created it, pid in it, time until it is stale
  file,     \* the state file: revision (0: no file) and state
  started,  \* processes that were started
  alive,    \* and those of them that run
  overdue,  \* some live process has held the lock for LOCK_STALE_MS
  pc,
  elapsed,  \* Date.now() - startedAt in acquireFilesystemTenantLock
  pid,      \* the pid readLockMetadata found
  record,   \* the StateRecord the call loaded
  result

world == <<started, alive, overdue>>
vars == <<lock, file, world, pc, elapsed, pid, record, result>>

NoLock == [by |-> NoCall, pid |-> NoPid, fresh |-> 0]
Records == [revision : Nat, state : Seq(Calls)]
EmptyRecord == [revision |-> 0, state |-> <<>>]

\* Synchronous part of acquireFilesystemTenantLock.
Acquiring == {"open", "write", "read", "stat", "remove"}
Critical == {"load", "save", "release"}
Ended == {"done", "crashed"}

Init == /\ lock = NoLock
        /\ file = EmptyRecord
        /\ started = {}
        /\ alive = {}
        /\ overdue = FALSE
        /\ pc = [c \in Calls |-> "idle"]
        /\ elapsed = [c \in Calls |-> 0]
        /\ pid = [c \in Calls |-> NoPid]
        /\ record = [c \in Calls |-> EmptyRecord]
        /\ result = [c \in Calls |-> "none"]

----------------------------------------------------------------------------

\* The event loop of c's process runs somebody else's synchronous code.
Blocked(c) == \E d \in Calls \ {c} : /\ ProcOf[d] = ProcOf[c]
                                    /\ pc[d] \in Acquiring

At(c, p) == pc[c] = p /\ ProcOf[c] \in alive /\ ~Blocked(c)

Goto(c, p) == pc' = [pc EXCEPT ![c] = p]

\* mutateState is called; acquireTenantLock runs at once.
Begin(c) == /\ At(c, "idle")
            /\ Goto(c, "open")
            /\ UNCHANGED <<lock, file, world, elapsed, pid, record, result>>

\* openSync(lockPath, 'wx')
Open(c) == /\ At(c, "open")
           /\ elapsed[c] <= TimeoutTicks
           /\ IF lock.by = NoCall
                THEN /\ lock' = [by |-> c, pid |-> NoPid, fresh |-> StaleTicks]
                     /\ Goto(c, "write")
                ELSE UNCHANGED lock /\ Goto(c, "read")
           /\ UNCHANGED <<file, world, elapsed, pid, record, result>>

\* Mutant: a timed out waiter goes ahead.
LockTimeoutIgnored(c) == /\ At(c, "open")
                         /\ elapsed[c] > TimeoutTicks
                         /\ Goto(c, "load")
                         /\ UNCHANGED <<lock, file, world, elapsed, pid, record,
                                        result>>

\* control_plane_lock_timeout, thrown before the try block of mutateState.
LockTimeout(c) == /\ At(c, "open")
                  /\ elapsed[c] > TimeoutTicks
                  /\ Goto(c, "done")
                  /\ result' = [result EXCEPT ![c] = "error"]
                  /\ UNCHANGED <<lock, file, world, elapsed, pid, record>>

\* The metadata goes to the file this call created, which may be gone.
WriteMetadata(c) ==
  /\ At(c, "write")
  /\ lock' = IF lock.by = c
               THEN [lock EXCEPT !.pid = ProcOf[c], !.fresh = StaleTicks]
               ELSE lock
  /\ Goto(c, "load")
  /\ UNCHANGED <<file, world, elapsed, pid, record, result>>

\* readLockMetadata: no pid if the file is gone or still empty.
ReadLockMetadata(c) == /\ At(c, "read")
                       /\ pid' = [pid EXCEPT ![c] = lock.pid]
                       /\ Goto(c, "stat")
                       /\ UNCHANGED <<lock, file, world, elapsed, record,
                                      result>>

\* The file is gone, is old, or carries the pid of a process that is not alive.
Stale(c) == \/ lock.by = NoCall
            \/ lock.fresh = 0
            \/ pid[c] # NoPid /\ pid[c] \notin alive

\* Mutant: instead of polling it waits for the file to go or its holder to die.
StatWaits(c) == /\ At(c, "stat")
                /\ lock.by = NoCall \/ lock.pid \notin alive
                /\ Goto(c, "remove")
                /\ UNCHANGED <<lock, file, world, elapsed, pid, record,
                               result>>

\* Not stale: sleep for LOCK_POLL_MS and try again.
Stat(c) == /\ At(c, "stat")
           /\ Goto(c, IF Stale(c) THEN "remove" ELSE "open")
           /\ UNCHANGED <<lock, file, world, elapsed, pid, record, result>>

\* rmSync removes whatever has that path now.
Remove(c) == /\ At(c, "remove")
             /\ lock' = NoLock
             /\ Goto(c, "open")
             /\ UNCHANGED <<file, world, elapsed, pid, record, result>>

----------------------------------------------------------------------------
(* mutateState under the lock *)

Load(c) == /\ At(c, "load")
           /\ record' = [record EXCEPT ![c] = file]
           /\ Goto(c, "save")
           /\ UNCHANGED <<lock, file, world, elapsed, pid, result>>

MutatorThrows(c) == /\ At(c, "load")
                    /\ record' = [record EXCEPT ![c] = file]
                    /\ Goto(c, "release")
                    /\ result' = [result EXCEPT ![c] = "error"]
                    /\ UNCHANGED <<lock, file, world, elapsed, pid>>

\* writeFilesystemState: temporary file and rename; the revision is written,
\* not compared.
Write(c) == file' = [revision |-> record[c].revision + 1,
                     state |-> Append(record[c].state, c)]

Save(c) == /\ At(c, "save")
           /\ Write(c)
           /\ Goto(c, "release")
           /\ result' = [result EXCEPT ![c] = "ok"]
           /\ UNCHANGED <<lock, world, elapsed, pid, record>>

\* releaseTenantLock: rmSync of the path, whoever's file it is.
Release(c) == /\ At(c, "release")
              /\ lock' = NoLock
              /\ Goto(c, "done")
              /\ UNCHANGED <<file, world, elapsed, pid, record, result>>

----------------------------------------------------------------------------

Start(p) == /\ p \notin started
            /\ OneRuntime => alive = {}
            /\ started' = started \cup {p}
            /\ alive' = alive \cup {p}
            /\ UNCHANGED <<lock, file, overdue, pc, elapsed, pid, record, result>>

\* A process dies with all its calls; what it left on disk stays.
Die(p) == /\ p \in alive
          /\ alive' = alive \ {p}
          /\ pc' = [c \in Calls |-> IF ProcOf[c] = p /\ pc[c] \notin Ended
                                      THEN "crashed" ELSE pc[c]]
          /\ UNCHANGED <<lock, file, started, overdue, elapsed, pid, record,
                         result>>

RunDown(t) == IF t = 0 THEN 0 ELSE t - 1

HolderLives == lock.by # NoCall /\ ProcOf[lock.by] \in alive

Tick == /\ overdue' = (overdue \/ (HolderLives /\ lock.fresh = 1))
        /\ lock' = [lock EXCEPT !.fresh = RunDown(@)]
        /\ elapsed' = [c \in Calls |->
                         IF pc[c] \in Acquiring /\ elapsed[c] <= TimeoutTicks
                           THEN elapsed[c] + 1 ELSE elapsed[c]]
        /\ UNCHANGED <<file, started, alive, pc, pid, record, result>>

Step(c) == \/ Open(c) \/ LockTimeout(c) \/ WriteMetadata(c)
           \/ ReadLockMetadata(c) \/ Stat(c) \/ Remove(c)
           \/ Load(c) \/ Save(c) \/ Release(c)

Next == \/ \E c \in Calls : Begin(c) \/ Step(c) \/ MutatorThrows(c)
        \/ \E p \in Procs : Start(p) \/ Die(p)
        \/ Tick

Spec == Init /\ [][Next]_vars

FairSpec == /\ Spec
            /\ \A c \in Calls : WF_vars(Step(c))
            /\ WF_vars(Tick)

----------------------------------------------------------------------------
(* Properties *)

TypeOK == /\ lock \in [by : Calls \cup {NoCall}, pid : Procs \cup {NoPid},
                       fresh : 0..StaleTicks]
          /\ file \in Records
          /\ started \subseteq Procs /\ alive \subseteq started
          /\ overdue \in BOOLEAN
          /\ pc \in [Calls -> {"idle"} \cup Acquiring \cup Critical \cup Ended]
          /\ elapsed \in [Calls -> 0..(TimeoutTicks + 1)]
          /\ pid \in [Calls -> Procs \cup {NoPid}]
          /\ record \in [Calls -> Records]
          /\ result \in [Calls -> {"none", "ok", "error"}]

\* At most one call of all processes is between acquiring and releasing: neither
\* a file left by a dead process, nor a waiter that timed out lets a second in,
\* as long as every call releases the lock within LOCK_STALE_MS.
LockExcludes == ~overdue => \A c, d \in Calls :
                  pc[c] \in Critical /\ pc[d] \in Critical => c = d

\* Under the same condition a mutation that mutateState has reported as saved is
\* in the state file, and stays there.
AcknowledgedIsStored == ~overdue => \A c \in Calls : result[c] = "ok" =>
                          \E i \in 1..Len(file.state) : file.state[i] = c

\* What holds of the file store in every state: its types, one call at a time
\* inside the lock, and no lost update.
FileInvariant == TypeOK /\ LockExcludes /\ AcknowledgedIsStored

\* Every call ends, also behind a lock file left by a dead process and behind a
\* call of its own process that it keeps from releasing the lock.
CallsEnd == \A c \in Calls : pc[c] # "idle" ~> pc[c] \in Ended
=============================================================================
