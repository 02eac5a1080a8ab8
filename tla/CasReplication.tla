--------------------------- MODULE CasReplication ---------------------------
(***************************************************************************)
(* ReplicatingBackend, ReplicationManager and ReplicationMonitor of        *)
(* src/src/cas.cpp: writes go to the primary store and through a bounded   *)
(* queue, emptied by one worker thread, to the secondary; a monitor thread *)
(* compares the two stores and copies what is missing.                     *)
(*                                                                         *)
(* A store is the set of objects it can return; CasStore models what is    *)
(* inside one.                                                             *)
(***************************************************************************)
EXTENDS Naturals, Sequences

CONSTANTS
  Objects, Clients,
  MaxQueue,       \* max_queue_size_ (0 means unbounded)
  MaxReplPuts,    \* bound: calls of put and put_stream
  MaxReplRemoves, \* bound: calls of remove
  MaxReplFaults   \* bound: puts the secondary refuses

ASSUME ReplAssumption ==
  MaxQueue \in Nat /\ MaxReplPuts \in Nat /\ MaxReplRemoves \in Nat
  /\ MaxReplFaults \in Nat

VARIABLES
  policy,     \* "Block" or "DropOldest"
  primary, secondary,
  queue,      \* queue_
  worker,     \* the objects the worker has taken off the queue: none or one
  monitor,    \* the object the monitor is looking at: none or one
  stopping,   \* stopping_
  ended,      \* the worker has returned from worker_loop
  client,     \* what each caller is doing
  stored,     \* history: objects whose put was acknowledged and not removed since
  skipped,    \* history: objects that were dropped, refused by the secondary, not
              \* enqueued, or enqueued when the worker had ended
  gone,       \* history: objects removed while nothing else was under way for them
  replPuts, replRemoves, replFaults

replHist == <<stored, skipped, gone>>
replCount == <<replPuts, replRemoves, replFaults>>
replVars == <<policy, primary, secondary, queue, worker, monitor, stopping,
              ended, client, replHist, replCount>>

NoCall == [op |-> "idle"]
Call(op, o) == [op |-> op, o |-> o]

Full == MaxQueue > 0 /\ Len(queue) >= MaxQueue

Queued(o) == \E i \in 1..Len(queue) : queue[i] = o

\* Something that may still write o into a store.
UnderWay(o) ==
  \/ Queued(o) \/ o \in worker \/ o \in monitor
  \/ \E c \in Clients : client[c] # NoCall /\ client[c].o = o

-----------------------------------------------------------------------------
ReplInit ==
  /\ policy \in {"Block", "DropOldest"}
  /\ primary = {} /\ secondary = {}
  /\ queue = <<>> /\ worker = {} /\ monitor = {}
  /\ stopping = FALSE /\ ended = FALSE
  /\ client = [c \in Clients |-> NoCall]
  /\ stored = {} /\ skipped = {} /\ gone = {}
  /\ replPuts = 0 /\ replRemoves = 0 /\ replFaults = 0

Returns(c) == client' = [client EXCEPT ![c] = NoCall]

\* put: the primary first; enqueue follows.
ReplPut(c, o) ==
  /\ client[c] = NoCall /\ ~stopping /\ replPuts < MaxReplPuts
  /\ replPuts' = replPuts + 1
  /\ primary' = primary \cup {o}
  /\ client' = [client EXCEPT ![c] = Call("enqueue", o)]
  /\ gone' = gone \ {o}
  /\ UNCHANGED <<policy, secondary, queue, worker, monitor, stopping, ended, stored,
                 skipped, replRemoves, replFaults>>

Stores(o) == stored' = stored \cup {o}

\* A task for a worker that has ended stays in the queue.  The manager's mutex
\* and queue are about to be destroyed as well: what else may become of a call
\* that comes so late is not modelled.
Late(c) == IF ended THEN {client[c].o} ELSE {}

\* enqueue with room in the queue: at once, whether stopping or not, or after
\* the wait for capacity, unless stopping.
Enqueue(c) ==
  /\ \/ client[c].op = "enqueue"
     \/ client[c].op = "wait" /\ ~stopping
  /\ ~Full
  /\ queue' = Append(queue, client[c].o)
  /\ skipped' = skipped \cup Late(c)
  /\ Stores(client[c].o) /\ Returns(c)
  /\ UNCHANGED <<policy, primary, secondary, worker, monitor, stopping, ended, gone,
                 replCount>>

\* enqueue on a full queue that blocks.
EnqueueWaits(c) ==
  /\ client[c].op = "enqueue" /\ Full /\ policy = "Block"
  /\ client' = [client EXCEPT ![c].op = "wait"]
  /\ UNCHANGED <<policy, primary, secondary, queue, worker, monitor, stopping, ended,
                 replHist, replCount>>

\* Mutant: on a full queue the new task is dropped, not the oldest.
EnqueueDroppingNewest(c) ==
  /\ client[c].op = "enqueue" /\ Full /\ policy = "DropOldest"
  /\ skipped' = skipped \cup {Head(queue)}
  /\ Stores(client[c].o) /\ Returns(c)
  /\ UNCHANGED <<policy, primary, secondary, queue, worker, monitor, stopping, ended,
                 gone, replCount>>

\* enqueue on a full queue that drops the oldest task.
EnqueueDropping(c) ==
  /\ client[c].op = "enqueue" /\ Full /\ policy = "DropOldest"
  /\ queue' = Append(Tail(queue), client[c].o)
  /\ skipped' = skipped \cup {Head(queue)} \cup Late(c)
  /\ Stores(client[c].o) /\ Returns(c)
  /\ UNCHANGED <<policy, primary, secondary, worker, monitor, stopping, ended, gone,
                 replCount>>

\* Mutant: the wait for capacity does not look at stopping_.
EnqueueNeverGivesUp(c) == FALSE

\* A caller that waits for capacity is let go by the destructor: put returns
\* the digest although nothing was enqueued.
EnqueueGivesUp(c) ==
  /\ client[c].op = "wait" /\ stopping
  /\ skipped' = skipped \cup {client[c].o}
  /\ Stores(client[c].o) /\ Returns(c)
  /\ UNCHANGED <<policy, primary, secondary, queue, worker, monitor, stopping, ended,
                 gone, replCount>>

SecondaryRefuses(o) ==
  /\ replFaults < MaxReplFaults /\ replFaults' = replFaults + 1
  /\ secondary' = secondary /\ skipped' = skipped \cup {o}

SecondaryPuts(o) ==
  /\ secondary' = secondary \cup {o}
  /\ UNCHANGED <<skipped, replFaults>>

\* put_stream: the primary, then the secondary in the same call.
ReplPutStream(c, o) ==
  /\ client[c] = NoCall /\ ~stopping /\ replPuts < MaxReplPuts
  /\ replPuts' = replPuts + 1
  /\ primary' = primary \cup {o}
  /\ client' = [client EXCEPT ![c] = Call("stream", o)]
  /\ gone' = gone \ {o}
  /\ UNCHANGED <<policy, secondary, queue, worker, monitor, stopping, ended, stored,
                 skipped, replRemoves, replFaults>>

\* The read back finds the object, or a removal came between.
ReplPutStreamCopies(c) ==
  LET o == client[c].o IN
  /\ client[c].op = "stream"
  /\ \/ o \in primary /\ (SecondaryPuts(o) \/ SecondaryRefuses(o))
     \/ /\ o \notin primary
        /\ skipped' = skipped \cup {o} /\ UNCHANGED <<secondary, replFaults>>
  /\ Stores(o) /\ Returns(c)
  /\ UNCHANGED <<policy, primary, queue, worker, monitor, stopping, ended, gone,
                 replPuts, replRemoves>>

\* worker_loop: take a task, then put it outside the lock.
WorkerTakes ==
  /\ ~ended /\ worker = {} /\ queue # <<>>
  /\ worker' = {Head(queue)} /\ queue' = Tail(queue)
  /\ UNCHANGED <<policy, primary, secondary, monitor, stopping, ended, client, replHist,
                 replCount>>

WorkerPuts ==
  /\ \E o \in worker : SecondaryPuts(o) \/ SecondaryRefuses(o)
  /\ worker' = {}
  /\ UNCHANGED <<policy, primary, queue, monitor, stopping, ended, client, stored, gone,
                 replPuts, replRemoves>>

\* worker_loop: stopping with nothing left to take, the thread returns.
WorkerEnds ==
  /\ ~ended /\ worker = {} /\ stopping /\ queue = <<>>
  /\ ended' = TRUE
  /\ UNCHANGED <<policy, primary, secondary, queue, worker, monitor, stopping, client,
                 replHist, replCount>>

\* remove: first the primary, then the secondary.
ReplRemove(c, o) ==
  /\ client[c] = NoCall /\ ~stopping /\ replRemoves < MaxReplRemoves
  /\ replRemoves' = replRemoves + 1
  /\ primary' = primary \ {o} /\ stored' = stored \ {o}
  /\ gone' = IF UnderWay(o) THEN gone ELSE gone \cup {o}
  /\ client' = [client EXCEPT ![c] = Call("remove", o)]
  /\ UNCHANGED <<policy, secondary, queue, worker, monitor, stopping, ended, skipped,
                 replPuts, replFaults>>

ReplRemoveSecond(c) ==
  /\ client[c].op = "remove"
  /\ secondary' = secondary \ {client[c].o} /\ stored' = stored \ {client[c].o}
  /\ Returns(c)
  /\ UNCHANGED <<policy, primary, queue, worker, monitor, stopping, ended, skipped,
                 gone, replCount>>

\* ReplicationMonitor::worker_loop: an object of the primary's scan ...
MonitorScans ==
  /\ monitor = {} /\ ~stopping
  /\ \E o \in primary : monitor' = {o}
  /\ UNCHANGED <<policy, primary, secondary, queue, worker, stopping, ended, client,
                 replHist, replCount>>

\* ... and verify_replication of it, later: what one store misses is copied
\* from the other.
MonitorVerifies ==
  /\ \E o \in monitor :
       \/ /\ o \in primary /\ o \notin secondary
          /\ SecondaryPuts(o) \/ SecondaryRefuses(o)
          /\ UNCHANGED <<primary, gone>>
       \/ /\ o \notin primary /\ o \in secondary
          /\ primary' = primary \cup {o} /\ gone' = gone \ {o}
          /\ UNCHANGED <<secondary, skipped, replFaults>>
       \/ /\ o \in primary <=> o \in secondary
          /\ UNCHANGED <<primary, secondary, skipped, gone, replFaults>>
  /\ monitor' = {}
  /\ UNCHANGED <<policy, queue, worker, stopping, ended, client, stored, replPuts,
                 replRemoves>>

\* The destructors: stopping_ is set, and the worker joined.
Stop ==
  /\ ~stopping
  /\ stopping' = TRUE
  /\ UNCHANGED <<policy, primary, secondary, queue, worker, monitor, ended, client,
                 replHist, replCount>>

ClientStep(c) ==
  \/ Enqueue(c) \/ EnqueueWaits(c) \/ EnqueueDropping(c) \/ EnqueueGivesUp(c)
  \/ ReplPutStreamCopies(c) \/ ReplRemoveSecond(c)

WorkerStep == WorkerTakes \/ WorkerPuts \/ WorkerEnds

ReplNext ==
  \/ \E c \in Clients :
       \/ \E o \in Objects : ReplPut(c, o) \/ ReplPutStream(c, o) \/ ReplRemove(c, o)
       \/ ClientStep(c)
  \/ WorkerStep \/ MonitorScans \/ MonitorVerifies \/ Stop

\* The worker thread and the callers run.
ReplFairness == WF_replVars(WorkerStep) /\ \A c \in Clients : WF_replVars(ClientStep(c))

ReplSpec == ReplInit /\ [][ReplNext]_replVars /\ ReplFairness

-----------------------------------------------------------------------------
(* Properties *)

\* Types, and the queue's bound.
ReplTypeOK ==
  /\ policy \in {"Block", "DropOldest"}
  /\ primary \subseteq Objects /\ secondary \subseteq Objects
  /\ queue \in Seq(Objects) /\ (MaxQueue > 0 => Len(queue) <= MaxQueue)
  /\ \A c \in Clients :
       client[c] = NoCall \/ client[c] \in
         [op : {"enqueue", "wait", "stream", "remove"}, o : Objects]
  /\ worker \subseteq Objects /\ monitor \subseteq Objects
  /\ stopping \in BOOLEAN /\ ended \in BOOLEAN

\* No acknowledged object is forgotten on its way to the secondary: it is
\* there, in the worker's hands or in the queue of a worker that has not ended,
\* unless the drop policy, a refusal of the secondary, the shutdown of a full
\* queue or a call of enqueue that came after the worker's end took it.
NothingForgotten ==
  \A o \in stored \ skipped :
    o \in secondary \/ (Queued(o) /\ ~ended) \/ o \in worker
    \/ \E c \in Clients : client[c] # NoCall /\ client[c].o = o

\* An object removed while nothing was under way for it stays unreadable, in
\* both stores once remove has returned, until somebody puts it again.
RemovedStaysGone ==
  \A o \in gone :
    /\ o \notin primary
    /\ (\A c \in Clients : client[c] = NoCall \/ client[c].o # o) => o \notin secondary

\* What holds of the replication in every state: types, no object forgotten, and
\* no removed object back.
ReplInvariant == ReplTypeOK /\ NothingForgotten /\ RemovedStaysGone

\* Every caller of put gets its answer, also one that waits for room in a full
\* queue while the backend is being destroyed.
PutReturns ==
  \A c \in Clients : (client[c].op \in {"enqueue", "wait"}) ~> (client[c] = NoCall)

\* The queue is emptied, before and after the destructor has begun: whatever was
\* acknowledged reaches the secondary or was skipped in one of the ways above.
QueueDrains ==
  \A o \in Objects : (o \in stored) ~> (o \in secondary \cup skipped \/ o \notin stored)

\* Every wait of the replication ends: that of a caller and that of an object.
ReplicationEnds == PutReturns /\ QueueDrains
=============================================================================
