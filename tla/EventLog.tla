------------------------------ MODULE EventLog ------------------------------
(***************************************************************************)
(* The kernel's event log (src/src/event_log.cpp): one NDJSON file whose   *)
(* records carry the digest of their predecessor, a process that appends   *)
(* to it, and recovery from the file when a process opens it.              *)
(*                                                                         *)
(* A digest is collision free, so a record stands for its own digest and   *)
(* prev holds the preceding record itself; kGenesisPrev stands for a       *)
(* record number 0.  A line is the record read_all makes of it: the one it *)
(* holds, or Garbage when jsonlite::parse rejects it (a truncated record,  *)
(* or two records on one line) and every field gets its default.           *)
(***************************************************************************)
EXTENDS Naturals, Sequences

CONSTANTS
  Payloads,      \* what the caller puts into a record
  Zeros,         \* the text of kGenesisPrev
  Empty,         \* the default of a field's text
  MaxAppends,    \* bound: calls of append
  MaxCrashes     \* bound: crashes of the process

ASSUME EventLogAssumption ==
  /\ MaxAppends \in Nat /\ MaxCrashes \in Nat
  /\ Zeros # Empty

VARIABLES
  lines,     \* the file, line by line
  openLine,  \* the last line has no newline yet
  logUp,     \* a process has the log open
  seq,       \* seq_
  logTime,   \* logical_time_
  head,      \* last_digest_
  acked,     \* history: records whose append returned their number
  appends,   \* history: calls of append
  crashes,   \* history: crashes
  torn,      \* history: a crash has cut a write short
  failed     \* history: a write has stored less than its line

logVars == <<lines, openLine, logUp, seq, logTime, head, acked, appends,
             crashes, torn, failed>>

Unnumbered(text) == [seq |-> 0, ts |-> 0, prev |-> text, data |-> text]

GenesisPrev == Unnumbered(Zeros)

Garbage == Unnumbered(Empty)

-----------------------------------------------------------------------------
(* What the readers of the file see. *)

Parsed == {i \in 1..Len(lines) : lines[i] # Garbage}

\* The record the constructor's loop ends on: it takes a line over when its
\* number exceeds every earlier one.
Recovered ==
  {i \in Parsed : \A j \in Parsed : \/ lines[j].seq < lines[i].seq
                                    \/ lines[j].seq = lines[i].seq /\ i <= j}

\* verify: each line's prev is the digest of the line before it.  A line that
\* does not parse has the empty prev and is the predecessor of no record.
LinkOK(i) ==
  /\ lines[i] # Garbage
  /\ lines[i].prev = IF i = 1 THEN GenesisPrev ELSE lines[i - 1]

Verify == \A i \in 1..Len(lines) : LinkOK(i)

-----------------------------------------------------------------------------
LogInit ==
  /\ lines = <<>> /\ openLine = FALSE
  /\ logUp = FALSE /\ seq = 0 /\ logTime = 0 /\ head = GenesisPrev
  /\ acked = {} /\ appends = 0 /\ crashes = 0 /\ torn = FALSE /\ failed = FALSE

\* EventLog::EventLog
LogOpen ==
  /\ ~logUp
  /\ logUp' = TRUE
  /\ \/ /\ Recovered = {}
        /\ seq' = 0 /\ logTime' = 0 /\ head' = GenesisPrev
     \/ \E i \in Recovered :
          /\ seq' = lines[i].seq /\ logTime' = lines[i].ts /\ head' = lines[i]
  /\ UNCHANGED <<lines, openLine, acked, appends, crashes, torn, failed>>

\* Mutant: append links a record to the file's last line instead of the head it holds.
NewRecordLinksFile(d) ==
  [seq |-> seq + 1, ts |-> logTime + 1, data |-> d,
   prev |-> IF lines = <<>> THEN GenesisPrev ELSE lines[Len(lines)]]

\* The record append builds before it writes.
NewRecord(d) == [seq |-> seq + 1, ts |-> logTime + 1, prev |-> head, data |-> d]

\* The file after `text` is written at its end: on an open line the new text
\* joins what is there and the line no longer parses.
LinesWith(text) == IF openLine THEN [lines EXCEPT ![Len(lines)] = Garbage]
                               ELSE Append(lines, text)

\* append, up to its write: the counters and the head advance first.
Advance(r) ==
  /\ logUp /\ appends < MaxAppends
  /\ appends' = appends + 1
  /\ seq' = r.seq /\ logTime' = r.ts /\ head' = r

\* append whose line reaches the file.
AppendStored(d) ==
  LET r == NewRecord(d) IN
    /\ Advance(r)
    /\ lines' = LinesWith(r) /\ openLine' = FALSE
    /\ acked' = acked \cup {r}
    /\ UNCHANGED <<logUp, crashes, torn, failed>>

\* What a write that stops early leaves in the file: nothing, a piece of the
\* record, or all of it without the newline.
CutShort(r) ==
  \/ UNCHANGED <<lines, openLine>>
  \/ /\ lines' = LinesWith(Garbage) /\ openLine' = TRUE
  \/ /\ lines' = LinesWith(r) /\ openLine' = TRUE

\* append whose line does not reach the file whole.  fwrite reports it only
\* when the line exceeds the stream's buffer; otherwise the bytes are lost in
\* fflush, whose result nobody looks at, and append returns the number.
AppendFailed(d) ==
  LET r == NewRecord(d) IN
    /\ Advance(r)
    /\ CutShort(r)
    /\ failed' = TRUE
    /\ \/ acked' = acked
       \/ acked' = acked \cup {r}
    /\ UNCHANGED <<logUp, crashes, torn>>

\* The process ends with no append under way; closing loses nothing.
LogClose ==
  /\ logUp
  /\ logUp' = FALSE
  /\ UNCHANGED <<lines, openLine, seq, logTime, head, acked, appends, crashes,
                 torn, failed>>

\* The process dies inside append.
CrashInAppend(d) ==
  LET r == NewRecord(d) IN
    /\ crashes < MaxCrashes
    /\ Advance(r)
    /\ CutShort(r)
    /\ crashes' = crashes + 1 /\ torn' = (torn \/ openLine')
    /\ logUp' = FALSE
    /\ UNCHANGED <<acked, failed>>

LogNext ==
  \/ LogOpen \/ LogClose
  \/ \E d \in Payloads : AppendStored(d) \/ AppendFailed(d) \/ CrashInAppend(d)

LogSpec == LogInit /\ [][LogNext]_logVars

-----------------------------------------------------------------------------
(* Properties *)

\* The links of a file as far as the constructor and append make them.
IsRecord(r) == /\ DOMAIN r = {"seq", "ts", "prev", "data"}
               /\ r.seq \in 1..MaxAppends /\ r.ts \in 1..MaxAppends
               /\ r.data \in Payloads

\* Types of the log's state.
LogTypeOK ==
  /\ \A i \in 1..Len(lines) : lines[i] = Garbage \/ IsRecord(lines[i])
  /\ openLine \in BOOLEAN /\ logUp \in BOOLEAN
  /\ seq \in 0..MaxAppends /\ logTime \in 0..MaxAppends
  /\ head = GenesisPrev \/ IsRecord(head)
  /\ \A r \in acked : IsRecord(r)
  /\ appends \in 0..MaxAppends /\ crashes \in 0..MaxCrashes
  /\ torn \in BOOLEAN /\ failed \in BOOLEAN

\* verify rejects no log that was written without a fault: as long as no write
\* stopped early, in a living process or in a crash, the chain is whole across
\* any number of processes that append to the file, and every record whose
\* append returned its number is in it.
CleanLogVerifies ==
  ~torn /\ ~failed => /\ Verify
                      /\ \A r \in acked : \E i \in 1..Len(lines) : lines[i] = r

\* A log that verify accepts has no hole: its records are numbered 1, 2, 3...
\* although numbers are used up by appends that never reached the file.
VerifiedHasNoHole == Verify => \A i \in 1..Len(lines) : lines[i].seq = i

\* The numbers in the file increase from line to line, whatever was lost: no
\* process reuses the number of a record that can be read, so read(seq) finds
\* at most one.
NumbersIncrease ==
  \A i, j \in Parsed : i < j => lines[i].seq < lines[j].seq

\* What holds of the log in every state: types, verification of what was written
\* without a fault, no hole in what verifies, and increasing numbers.
LogInvariant == /\ LogTypeOK /\ CleanLogVerifies
                /\ VerifiedHasNoHole /\ NumbersIncrease

=============================================================================
