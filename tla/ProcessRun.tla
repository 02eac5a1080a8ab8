----------------------------- MODULE ProcessRun ------------------------------
(***************************************************************************)
(* One command carried out by the kernel: execute (src/src/runtime.cpp)    *)
(* and run_process (src/src/sandbox_posix.cpp), with the child it forks,   *)
(* a descendant the child may leave behind, the two pipes between them and *)
(* the file the caller wants hashed.                                       *)
(*                                                                         *)
(* A read takes one unit (the code's 256-byte buffer), a pipe holds        *)
(* PipeSize of them and OutputLimit is max_output_bytes.  What a process   *)
(* writes is counted up to OutputLimit + 1, so a writer that never stops   *)
(* is in the model.  A descendant is of the child's session ("grouped"),   *)
(* which a timeout kills, or made a session of its own ("detached").       *)
(***************************************************************************)
EXTENDS Integers

CONSTANTS PipeSize, OutputLimit, Timeout, MaxFile

ASSUME ProcessAssumption == /\ PipeSize \in Nat \ {0}
                            /\ OutputLimit \in Nat \ {0}
                            /\ Timeout \in Nat \ {0}
                            /\ MaxFile \in Nat

Streams == {"out", "err"}

VARIABLES runPc,      \* where execute is
          child,      \* "none", "alive", "zero" or "nonzero" (exited), "signalled" or "killed"
          descendant, \* "none", "grouped", "detached" or "gone"
          pipe,       \* the units in each pipe
          wrote,      \* the units ever written to each, up to OutputLimit + 1
          taken,      \* the units in stdout_text and stderr_text
          truncated,  \* stdout_truncated and stderr_truncated
          elapsed,    \* time since the fork, up to the deadline
          timedOut,   \* result.timed_out
          file,       \* the version of the declared output file
          hashed,     \* the version whose digest is in the result
          verdict     \* "pending", or how execute ended

procVars == <<runPc, child, descendant, pipe, wrote, taken, truncated, elapsed,
              timedOut, file, hashed, verdict>>

childVars == <<child, descendant, pipe, wrote, file>>

NoHash == -1

ProcTypeOK ==
    /\ runPc \in {"request", "read_out", "read_err", "wait", "deadline",
                  "drain_out", "drain_err", "collect", "returned"}
    /\ child \in {"none", "alive", "zero", "nonzero", "signalled", "killed"}
    /\ descendant \in {"none", "grouped", "detached", "gone"}
    /\ pipe \in [Streams -> 0..PipeSize]
    /\ wrote \in [Streams -> 0..(OutputLimit + 1)]
    /\ taken \in [Streams -> 0..OutputLimit]
    /\ truncated \in [Streams -> BOOLEAN]
    /\ elapsed \in 0..Timeout
    /\ timedOut \in BOOLEAN
    /\ file \in 0..MaxFile
    /\ hashed \in NoHash..MaxFile
    /\ verdict \in {"pending", "ok", "refused", "spawn_failed", "failed", "timeout"}

ProcInit ==
    /\ runPc = "request"
    /\ child = "none"
    /\ descendant = "none"
    /\ pipe = [s \in Streams |-> 0]
    /\ wrote = [s \in Streams |-> 0]
    /\ taken = [s \in Streams |-> 0]
    /\ truncated = [s \in Streams |-> FALSE]
    /\ elapsed = 0
    /\ timedOut = FALSE
    /\ file = 0
    /\ hashed = NoHash
    /\ verdict = "pending"

-----------------------------------------------------------------------------
(* execute, phases 2 to 4: no digest, a working directory outside the
   workspace, or too many outputs.  (A hash that is unavailable later ends
   the run in the same way.) *)
RefuseRequest ==
    /\ runPc = "request"
    /\ runPc' = "returned"
    /\ verdict' = "refused"
    /\ UNCHANGED <<childVars, taken, truncated, elapsed, timedOut, hashed>>

(* pipe() or fork() fails: the declared outputs are hashed all the same. *)
SpawnFails ==
    /\ runPc = "request"
    /\ runPc' = "collect"
    /\ verdict' = "spawn_failed"
    /\ UNCHANGED <<childVars, taken, truncated, elapsed, timedOut, hashed>>

Spawn ==
    /\ runPc = "request"
    /\ runPc' = "read_out"
    /\ child' = "alive"
    /\ UNCHANGED <<descendant, pipe, wrote, taken, truncated, elapsed, timedOut,
                   file, hashed, verdict>>

-----------------------------------------------------------------------------

(* append_limited for one unit read. *)
AppendLimited(s) ==
    LET fits == taken[s] < OutputLimit
        now == IF fits THEN taken[s] + 1 ELSE taken[s] IN
    /\ taken' = [taken EXCEPT ![s] = now]
    /\ truncated' = [truncated EXCEPT ![s] = @ \/ ~ fits \/ now >= OutputLimit]

ReadUnit(s) == IF pipe[s] > 0
               THEN /\ pipe' = [pipe EXCEPT ![s] = @ - 1]
                    /\ AppendLimited(s)
               ELSE UNCHANGED <<pipe, taken, truncated>>

(* The loop: one non-blocking read of each pipe ... *)
PollPipe(from, s, to) ==
    /\ runPc = from
    /\ ReadUnit(s)
    /\ runPc' = to
    /\ UNCHANGED <<child, descendant, wrote, elapsed, timedOut, file, hashed, verdict>>

(* Mutant: a child that has ended is not waited for any further output. *)
PollChildOnly ==
    /\ runPc = "wait"
    /\ runPc' = IF child = "alive" THEN "deadline" ELSE "collect"
    /\ UNCHANGED <<childVars, taken, truncated, elapsed, timedOut, hashed, verdict>>

(* ... then waitpid without blocking ... *)
PollChild ==
    /\ runPc = "wait"
    /\ runPc' = IF child = "alive" THEN "deadline" ELSE "drain_out"
    /\ UNCHANGED <<childVars, taken, truncated, elapsed, timedOut, hashed, verdict>>

(* ... then the deadline, and a pause of 2 ms. *)
NotYet ==
    /\ runPc = "deadline"
    /\ elapsed < Timeout
    /\ runPc' = "read_out"
    /\ UNCHANGED <<childVars, taken, truncated, elapsed, timedOut, hashed, verdict>>

(* Mutant: the deadline is looked at only when there is nothing to read. *)
OverdueWhenQuiet ==
    /\ runPc = "deadline"
    /\ elapsed = Timeout
    /\ runPc' = IF \E s \in Streams : pipe[s] > 0 THEN "read_out" ELSE "drain_out"
    /\ timedOut' = (runPc' = "drain_out")
    /\ child' = IF timedOut' /\ child = "alive" THEN "killed" ELSE child
    /\ descendant' = IF timedOut' /\ descendant = "grouped" THEN "gone" ELSE descendant
    /\ UNCHANGED <<pipe, wrote, taken, truncated, elapsed, file, hashed, verdict>>

(* The session is killed, the child too, and the child is waited for.  A
   child that ended since waitpid keeps its own end, but the result says it
   timed out. *)
Overdue ==
    /\ runPc = "deadline"
    /\ elapsed = Timeout
    /\ child' = IF child = "alive" THEN "killed" ELSE child
    /\ descendant' = IF descendant = "grouped" THEN "gone" ELSE descendant
    /\ timedOut' = TRUE
    /\ runPc' = "drain_out"
    /\ UNCHANGED <<pipe, wrote, taken, truncated, elapsed, file, hashed, verdict>>

(* Both pipes are read until a read returns nothing, whoever still writes. *)
Drain(from, s, to) ==
    /\ runPc = from
    /\ ReadUnit(s)
    /\ runPc' = IF pipe[s] > 0 THEN from ELSE to
    /\ UNCHANGED <<child, descendant, wrote, elapsed, timedOut, file, hashed, verdict>>

(* execute, phases 9 and 10: the declared output is hashed as it is now, and
   the result is judged: exit code 0 and no error code. *)
Verdict == IF verdict = "spawn_failed" THEN "spawn_failed"
           ELSE IF timedOut THEN "timeout"
           ELSE IF child = "zero" THEN "ok" ELSE "failed"

Collect ==
    /\ runPc = "collect"
    /\ hashed' = file
    /\ verdict' = Verdict
    /\ runPc' = "returned"
    /\ UNCHANGED <<childVars, taken, truncated, elapsed, timedOut>>

RunStep == \/ RefuseRequest
           \/ SpawnFails
           \/ Spawn
           \/ PollPipe("read_out", "out", "read_err")
           \/ PollPipe("read_err", "err", "wait")
           \/ PollChild
           \/ NotYet
           \/ Overdue
           \/ Drain("drain_out", "out", "drain_err")
           \/ Drain("drain_err", "err", "collect")
           \/ Collect

-----------------------------------------------------------------------------
(* The processes under the command. *)
kernelVars == <<runPc, taken, truncated, elapsed, timedOut, hashed, verdict>>

Writers == child = "alive" \/ descendant \in {"grouped", "detached"}

WriteUnit(s) ==
    /\ Writers
    /\ pipe[s] < PipeSize
    /\ pipe' = [pipe EXCEPT ![s] = @ + 1]
    /\ wrote' = [wrote EXCEPT ![s] = IF @ > OutputLimit THEN @ ELSE @ + 1]
    /\ UNCHANGED <<kernelVars, child, descendant, file>>

WriteFile ==
    /\ Writers
    /\ file < MaxFile
    /\ file' = file + 1
    /\ UNCHANGED <<kernelVars, child, descendant, pipe, wrote>>

LeaveDescendant(kind) ==
    /\ child = "alive"
    /\ descendant = "none"
    /\ descendant' = kind
    /\ UNCHANGED <<kernelVars, child, pipe, wrote, file>>

ChildEnds(how) ==
    /\ child = "alive"
    /\ child' = how
    /\ UNCHANGED <<kernelVars, descendant, pipe, wrote, file>>

DescendantEnds ==
    /\ descendant \in {"grouped", "detached"}
    /\ descendant' = "gone"
    /\ UNCHANGED <<kernelVars, child, pipe, wrote, file>>

TimePasses ==
    /\ child # "none"
    /\ elapsed < Timeout
    /\ elapsed' = elapsed + 1
    /\ UNCHANGED <<runPc, child, descendant, pipe, wrote, taken, truncated,
                   timedOut, file, hashed, verdict>>

ProcNext ==
    \/ RunStep
    \/ \E s \in Streams : WriteUnit(s)
    \/ WriteFile
    \/ \E kind \in {"grouped", "detached"} : LeaveDescendant(kind)
    \/ \E how \in {"zero", "nonzero", "signalled"} : ChildEnds(how)
    \/ DescendantEnds
    \/ TimePasses

(* The kernel's thread runs and time passes; the processes owe nothing. *)
ProcSpec == ProcInit /\ [][ProcNext]_procVars
            /\ WF_procVars(RunStep) /\ WF_procVars(TimePasses)

-----------------------------------------------------------------------------
Lone == descendant = "none"

(* A result that is not marked truncated holds everything a command without
   descendants wrote, however its writes, its end and the polls interleave. *)
NothingLost ==
    runPc \in {"collect", "returned"} /\ Lone =>
        \A s \in Streams : ~ truncated[s] => taken[s] = wrote[s]

(* A run that is reported ok ended by itself with exit code 0, and the digest
   in its result is of the file it leaves, unless a descendant still writes. *)
OkIsFinal ==
    verdict = "ok" => /\ child = "zero"
                      /\ Lone => hashed = file

\* What holds of a run in every state: types, no output lost, and a verdict of
\* a process that is over.
ProcInvariant == ProcTypeOK /\ NothingLost /\ OkIsFinal

(* Once a run has timed out, nothing of the command's session writes output
   or files any more: only a descendant with a session of its own can. *)
TimeoutStopsSession ==
    timedOut /\ descendant # "detached" => UNCHANGED <<child, wrote, file>>

(* execute returns within its timeout however much the command writes and
   even if it never ends, as long as it leaves no descendant. *)
LoneReturns == []Lone => (runPc # "request" ~> runPc = "returned")

\* How a run comes to its end: on time, and with nothing of its session left
\* behind by a timeout.
RunEnds == [][TimeoutStopsSession]_procVars /\ LoneReturns

=============================================================================
