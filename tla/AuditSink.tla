------------------------------ MODULE AuditSink ------------------------------
(***************************************************************************)
(* DatabaseAuditSink of packages/ai/src/telemetry/auditSink.ts: records    *)
(* are buffered, flushed in batches by a full buffer or a timer, and       *)
(* posted with retries.  A post may fail, or be delivered with its answer     *)
(* lost; several batches may be under way at once; the process may end.    *)
(*                                                                         *)
(* Records are numbered in the order they are written.                     *)
(***************************************************************************)
EXTENDS Integers, Sequences, FiniteSets, SequencesExt

CONSTANTS BatchSize, MaxPostRetries, MaxWritten, MaxLostAnswers, MaxFailedPosts, MaxExits

ASSUME AuditAssumption == /\ BatchSize \in Nat \ {0}
                          /\ MaxPostRetries \in Nat
                          /\ MaxWritten \in Nat
                          /\ {MaxLostAnswers, MaxFailedPosts, MaxExits} \subseteq Nat

VARIABLES unsent,       \* _buffer
          posts,        \* the batches under way: [batch, attempt, phase]
          flushTimer,   \* _flushTimer is set
          delivered,    \* how often the endpoint stored each record
          given,        \* the records given up after the last retry
          forgotten,    \* the records that died with a process
          written,      \* the number of records written
          lostAnswers, failedPosts, exits

auditVars == <<unsent, posts, flushTimer, delivered, given, forgotten, written,
               lostAnswers, failedPosts, exits>>

Records == 1..MaxWritten

Post == [batch : Seq(Records), attempt : 0..MaxPostRetries, phase : {"posting", "waiting"}]

AuditTypeOK ==
    /\ unsent \in Seq(Records)
    /\ Len(unsent) < BatchSize
    /\ posts \subseteq Post
    /\ flushTimer \in BOOLEAN
    /\ delivered \in [Records -> 0..(1 + MaxLostAnswers)]
    /\ given \subseteq Records
    /\ forgotten \subseteq Records
    /\ written \in 0..MaxWritten
    /\ lostAnswers \in 0..MaxLostAnswers
    /\ failedPosts \in 0..MaxFailedPosts
    /\ exits \in 0..MaxExits

AuditInit ==
    /\ unsent = <<>>
    /\ posts = {}
    /\ flushTimer = TRUE
    /\ delivered = [r \in Records |-> 0]
    /\ given = {}
    /\ forgotten = {}
    /\ written = 0
    /\ lostAnswers = 0
    /\ failedPosts = 0
    /\ exits = 0

NewPost(batch) == [batch |-> batch, attempt |-> 0, phase |-> "posting"]

(* flush of a buffer that holds the given records: the timer is cleared and,
   where there is something to send, set again only when the sending ends. *)
FlushOf(records) ==
    IF records = <<>>
    THEN /\ flushTimer' = TRUE
         /\ UNCHANGED <<unsent, posts>>
    ELSE /\ flushTimer' = FALSE
         /\ unsent' = <<>>
         /\ posts' = posts \cup {NewPost(records)}

WriteRecord ==
    /\ written < MaxWritten
    /\ written' = written + 1
    /\ LET records == Append(unsent, written + 1) IN
         IF Len(records) >= BatchSize
         THEN FlushOf(records)
         ELSE /\ unsent' = records
              /\ UNCHANGED <<posts, flushTimer>>
    /\ UNCHANGED <<delivered, given, forgotten, lostAnswers, failedPosts, exits>>

(* Mutant: a partial batch stays in the buffer. *)
TimerFiresFull ==
    /\ flushTimer
    /\ Len(unsent) >= BatchSize
    /\ FlushOf(unsent)
    /\ UNCHANGED <<delivered, given, forgotten, written, lostAnswers, failedPosts, exits>>

TimerFires ==
    /\ flushTimer
    /\ unsent # <<>>
    /\ FlushOf(unsent)
    /\ UNCHANGED <<delivered, given, forgotten, written, lostAnswers, failedPosts, exits>>

StoredOnceMore(batch) ==
    [r \in Records |-> IF r \in ToSet(batch) THEN delivered[r] + 1 ELSE delivered[r]]

Answered(p) ==
    /\ p.phase = "posting"
    /\ delivered' = StoredOnceMore(p.batch)
    /\ posts' = posts \ {p}
    /\ flushTimer' = TRUE
    /\ UNCHANGED <<unsent, given, forgotten, written, lostAnswers, failedPosts, exits>>

(* Mutant: giving a batch up leaves the timer unset. *)
AfterFailureUntimed(p) ==
    IF p.attempt = MaxPostRetries
    THEN /\ posts' = posts \ {p}
         /\ given' = given \cup ToSet(p.batch)
         /\ UNCHANGED flushTimer
    ELSE /\ posts' = (posts \ {p}) \cup {[p EXCEPT !.phase = "waiting"]}
         /\ UNCHANGED <<given, flushTimer>>

(* The catch of _sendWithRetry: back off, or drop the batch with a warning. *)
AfterFailure(p) ==
    IF p.attempt = MaxPostRetries
    THEN /\ posts' = posts \ {p}
         /\ given' = given \cup ToSet(p.batch)
         /\ flushTimer' = TRUE
    ELSE /\ posts' = (posts \ {p}) \cup {[p EXCEPT !.phase = "waiting"]}
         /\ UNCHANGED <<given, flushTimer>>

PostFails(p) ==
    /\ p.phase = "posting"
    /\ failedPosts < MaxFailedPosts
    /\ failedPosts' = failedPosts + 1
    /\ AfterFailure(p)
    /\ UNCHANGED <<unsent, delivered, forgotten, written, lostAnswers, exits>>

AnswerLost(p) ==
    /\ p.phase = "posting"
    /\ lostAnswers < MaxLostAnswers
    /\ lostAnswers' = lostAnswers + 1
    /\ delivered' = StoredOnceMore(p.batch)
    /\ AfterFailure(p)
    /\ UNCHANGED <<unsent, forgotten, written, failedPosts, exits>>

BackoffOver(p) ==
    /\ p.phase = "waiting"
    /\ posts' = (posts \ {p}) \cup {[p EXCEPT !.phase = "posting", !.attempt = @ + 1]}
    /\ UNCHANGED <<unsent, flushTimer, delivered, given, forgotten, written,
                   lostAnswers, failedPosts, exits>>

(* The timer is unreferenced and nothing flushes at the end of a process. *)
ProcessExits ==
    /\ exits < MaxExits
    /\ exits' = exits + 1
    /\ forgotten' = forgotten \cup ToSet(unsent) \cup UNION {ToSet(p.batch) : p \in posts}
    /\ unsent' = <<>>
    /\ posts' = {}
    /\ flushTimer' = TRUE
    /\ UNCHANGED <<delivered, given, written, lostAnswers, failedPosts>>

Sending == \E p \in posts : Answered(p) \/ PostFails(p) \/ AnswerLost(p) \/ BackoffOver(p)

AuditNext == WriteRecord \/ TimerFires \/ Sending \/ ProcessExits

(* A set timer fires and a fetch is answered or fails, while the process
   lives. *)
AuditSpec == AuditInit /\ [][AuditNext]_auditVars
             /\ WF_auditVars(TimerFires) /\ WF_auditVars(Sending)

-----------------------------------------------------------------------------
(* A record that waits in the buffer is never forgotten by the sink: a timer
   is set, or a batch is under way whose end sets it, whatever the order in
   which flushes and answers overlap. *)
BufferIsWatched == unsent # <<>> => flushTimer \/ posts # {}

(* A record reaches the endpoint twice only where an answer was lost, and is
   dropped only after all the attempts. *)
DroppedAfterAllAttempts ==
    /\ \A r \in Records : delivered[r] > 1 => lostAnswers > 0
    /\ given # {} => failedPosts + lostAnswers > MaxPostRetries

\* What holds of the sink in every state: types, a timer behind every buffer, and
\* no batch dropped before its last attempt.
AuditInvariant == AuditTypeOK /\ BufferIsWatched /\ DroppedAfterAllAttempts

(* Every record written is settled: stored, given up with a warning, or lost
   with its process. *)
RecordsSettle ==
    \A r \in Records :
        (written >= r) ~> (delivered[r] > 0 \/ r \in given \cup forgotten)

=============================================================================
