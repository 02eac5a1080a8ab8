---------------------------- MODULE ToolExecution ---------------------------
(***************************************************************************)
(* executeToolEnvelope of packages/ai/src/tools/executor.ts for the calls  *)
(* of one trace, with the depth guard of tools/sandbox.ts and the file of  *)
(* tools/replay.ts that keeps the results of deterministic tools.  A       *)
(* handler may start further calls of the trace, so a call may begin at    *)
(* any time.                                                               *)
(***************************************************************************)
EXTENDS Integers, Sequences, FiniteSets

CONSTANTS
  ToolCalls,     \* calls of the trace that may be under way at one time
  Hashes,        \* execution hashes of deterministic calls
  Results,
  NoHash,        \* a call of a tool that is not deterministic
  Torn,          \* a line of the file that does not parse
  MaxDepth, MaxChain,             \* MAX_DEPTH and MAX_CHAIN_LENGTH
  MaxToolCrashes, MaxRecords      \* bounds: restarts, lines of the file

ASSUME ToolAssumption == /\ MaxDepth \in Nat \ {0} /\ MaxChain \in Nat
                         /\ IsFiniteSet(ToolCalls)
                         /\ NoHash \notin Hashes /\ NoHash \notin Results
                         /\ Torn \notin [hash : Hashes, result : Results]

VARIABLES
  depth, chain,  \* _depths and _chains of the trace
  invocation,    \* what each call is doing
  orphans,       \* handlers that run on after their timeout
  records,       \* the lines of the replay file
  cut,           \* the file does not end with a newline
  toolCrashes,
  refusedCalls,  \* history: calls checkDepth threw on
  served         \* history: the result first served from the file, per hash

toolVars == <<depth, chain, invocation, orphans, records, cut, toolCrashes,
              refusedCalls, served>>

Unused == [at |-> "idle", hash |-> NoHash, result |-> NoHash]
Active == {c \in ToolCalls : invocation[c].at # "idle"}
Step(c, p) == invocation' = [invocation EXCEPT ![c].at = p]

\* The finally block of the call: releaseDepth.
Leaves(c) ==
  /\ invocation' = [invocation EXCEPT ![c] = Unused]
  /\ depth' = IF depth <= 1 THEN 0 ELSE depth - 1

\* Mutant: the newest record of the hash is taken.
FoundLast(h) == {records[i] : i \in {j \in 1..Len(records) :
  /\ records[j] # Torn /\ records[j].hash = h
  /\ \A k \in 1..Len(records) : k > j /\ records[k] # Torn => records[k].hash # h}}

\* FileReplaySink.get: the lines in order up to the first that does not parse,
\* which ends the search; the first record of the hash.
Found(h) == {records[i] : i \in {j \in 1..Len(records) :
  /\ records[j] # Torn /\ records[j].hash = h
  /\ \A k \in 1..(j - 1) : records[k] # Torn /\ records[k].hash # h}}

\* FileReplaySink.set: the line goes behind what a cut-off one left.
WithRecord(r) == IF cut THEN [records EXCEPT ![Len(records)] = Torn]
                        ELSE Append(records, r)

-----------------------------------------------------------------------------
ToolInit ==
  /\ depth = 0 /\ chain = 0
  /\ invocation = [c \in ToolCalls |-> Unused]
  /\ orphans = 0
  /\ records = <<>> /\ cut = FALSE
  /\ toolCrashes = 0 /\ refusedCalls = 0
  /\ served = [h \in Hashes |-> NoHash]

\* checkDepth lets the call through.  The chain is counted up to its bound.
BeginCall(c, h) ==
  /\ invocation[c] = Unused
  /\ depth + 1 <= MaxDepth /\ chain + 1 <= MaxChain
  /\ depth' = depth + 1 /\ chain' = chain + 1
  /\ invocation' = [invocation EXCEPT ![c] = [@ EXCEPT !.at = "policy", !.hash = h]]
  /\ UNCHANGED <<orphans, records, cut, toolCrashes, refusedCalls, served>>

\* checkDepth throws, after it has counted the call and before the try block:
\* the depth is not released.
RefuseCall ==
  /\ depth + 1 > MaxDepth \/ chain + 1 > MaxChain
  /\ depth <= MaxDepth + 1  \* bound on the counters
  /\ depth' = depth + 1
  /\ chain' = IF chain > MaxChain THEN chain ELSE chain + 1
  /\ refusedCalls' = refusedCalls + 1
  /\ UNCHANGED <<invocation, orphans, records, cut, toolCrashes, served>>

\* The tool is unknown, the policy or the budget denies, the input is invalid.
Deny(c) ==
  /\ invocation[c].at = "policy"
  /\ Leaves(c)
  /\ UNCHANGED <<chain, orphans, records, cut, toolCrashes, refusedCalls, served>>

Allow(c) ==
  /\ invocation[c].at = "policy"
  /\ Step(c, IF invocation[c].hash = NoHash THEN "running" ELSE "lookup")
  /\ UNCHANGED <<depth, chain, orphans, records, cut, toolCrashes, refusedCalls, served>>

\* checkReplayCache finds a record.
Hit(c) ==
  /\ invocation[c].at = "lookup"
  /\ \E r \in Found(invocation[c].hash) :
       served' = IF served[r.hash] = NoHash THEN [served EXCEPT ![r.hash] = r.result]
                                            ELSE served
  /\ Leaves(c)
  /\ UNCHANGED <<chain, orphans, records, cut, toolCrashes, refusedCalls>>

Miss(c) ==
  /\ invocation[c].at = "lookup" /\ Found(invocation[c].hash) = {}
  /\ Step(c, "running")
  /\ UNCHANGED <<depth, chain, orphans, records, cut, toolCrashes, refusedCalls, served>>

\* The handler returns in time; only deterministic results are stored.
HandlerReturns(c, r) ==
  /\ invocation[c].at = "running"
  /\ IF invocation[c].hash = NoHash
     THEN Leaves(c)
     ELSE /\ invocation' = [invocation EXCEPT ![c] = [@ EXCEPT !.at = "store", !.result = r]]
          /\ UNCHANGED depth
  /\ UNCHANGED <<chain, orphans, records, cut, toolCrashes, refusedCalls, served>>

\* The handler throws, or its output is invalid.
HandlerThrows(c) ==
  /\ invocation[c].at = "running"
  /\ Leaves(c)
  /\ UNCHANGED <<chain, orphans, records, cut, toolCrashes, refusedCalls, served>>

\* _withTimeout rejects; the handler is not stopped.
TimesOut(c) ==
  /\ invocation[c].at = "running" /\ orphans < Cardinality(ToolCalls)
  /\ Leaves(c)
  /\ orphans' = orphans + 1
  /\ UNCHANGED <<chain, records, cut, toolCrashes, refusedCalls, served>>

\* It ends later: its result is dropped.
OrphanEnds ==
  /\ orphans > 0
  /\ orphans' = orphans - 1
  /\ UNCHANGED <<depth, chain, invocation, records, cut, toolCrashes, refusedCalls, served>>

RecordOf(c) == [hash |-> invocation[c].hash, result |-> invocation[c].result]

\* storeReplayRecord: a failing write is not an error.
Store(c) ==
  /\ invocation[c].at = "store" /\ Len(records) < MaxRecords
  /\ records' = WithRecord(RecordOf(c))
  /\ cut' = FALSE
  /\ Leaves(c)
  /\ UNCHANGED <<chain, orphans, toolCrashes, refusedCalls, served>>

\* Part of the line was written, or all of it but the newline.
CutsOff(c) ==
  /\ invocation[c].at = "store" /\ Len(records) < MaxRecords
  /\ \E line \in {Torn, RecordOf(c)} : records' = WithRecord(line)
  /\ cut' = TRUE

StoreFails(c) ==
  /\ invocation[c].at = "store"
  /\ UNCHANGED <<records, cut>> \/ CutsOff(c)
  /\ Leaves(c)
  /\ UNCHANGED <<chain, orphans, toolCrashes, refusedCalls, served>>

\* The process stops, in a write or not.
ToolCrash ==
  /\ toolCrashes < MaxToolCrashes
  /\ toolCrashes' = toolCrashes + 1
  /\ depth' = 0 /\ chain' = 0 /\ orphans' = 0 /\ refusedCalls' = 0
  /\ invocation' = [c \in ToolCalls |-> Unused]
  /\ UNCHANGED <<records, cut>> \/ \E c \in ToolCalls : CutsOff(c)
  /\ UNCHANGED served

ToolNext ==
  \/ \E c \in ToolCalls :
       \/ \E h \in Hashes \cup {NoHash} : BeginCall(c, h)
       \/ Deny(c) \/ Allow(c) \/ Hit(c) \/ Miss(c)
       \/ \E r \in Results : HandlerReturns(c, r)
       \/ HandlerThrows(c) \/ TimesOut(c) \/ Store(c) \/ StoreFails(c)
  \/ RefuseCall \/ OrphanEnds \/ ToolCrash

ToolSpec == ToolInit /\ [][ToolNext]_toolVars

-----------------------------------------------------------------------------
\* The type invariant, with what the depth counts: the calls under way and
\* every call that was refused since the process started.
ToolTypeOK ==
  /\ depth = Cardinality(Active) + refusedCalls
  /\ chain \in 0..(MaxChain + 1)
  /\ orphans \in Nat
  /\ \A i \in 1..Len(records) :
       records[i] = Torn \/ records[i] \in [hash : Hashes, result : Results]

\* "No tool chain may exceed MAX_DEPTH calls from the same trace": whatever
\* times out or is refused, at most MaxDepth calls are between the guard and
\* the finally block.
DepthBounded == Cardinality(Active) <= MaxDepth

\* Replay is stable: two calls of the same hash that are both answered from
\* the file get the same result, although calls that missed at the same time
\* store one record each, and across crashes and torn lines.
ReplayStable ==
  \A h \in Hashes : \A r \in Found(h) : served[h] \in {NoHash, r.result}

\* What holds of the tool calls of a trace in every state: types, bounded depth,
\* and one answer for every hash.
ToolInvariant == ToolTypeOK /\ DepthBounded /\ ReplayStable

\* "Depth is always decremented in `finally` blocks - no leaks": when no call
\* of the trace is under way its depth is zero.
DepthReleased == Active = {} => depth = 0
=============================================================================
