---------------------------- MODULE KernelProofs ----------------------------
(***************************************************************************)
(* Proofs about the kernel, and about the policy evaluators it shares with *)
(* the two layers above it: EventLog, CasStore, CasReplication,            *)
(* PolicyLinter, PolicyEngines, PlanExecution and ProcessRun, each in a    *)
(* part of its own.                                                        *)
(***************************************************************************)
EXTENDS EventLog, CasStore, CasReplication, PolicyLinter, PolicyEngines,
        PlanExecution, ProcessRun, FiniteSetTheorems, WellFoundedInduction,
        TLAPS

-----------------------------------------------------------------------------
\* EventLog

-----------------------------------------------------------------------------
(* The event log *)

\* Record r comes after the record it names.
Linked(r) == IsRecord(r) /\ r.seq = r.prev.seq + 1

\* A record that is somewhere: numbered after its predecessor, and with the
\* numbers of an append that was called.
IsWritten(r) == Linked(r) /\ r.seq <= appends /\ r.ts <= appends

\* The file is a sequence of lines.
LogIsSeq == \E S : lines \in Seq(S)

\* What is in the file, in memory and acknowledged was made by append.
LinesWritten == \A i \in 1..Len(lines) : lines[i] = Garbage \/ IsWritten(lines[i])

LogRecords ==
  /\ LinesWritten
  /\ head = GenesisPrev \/ IsWritten(head)
  /\ head.seq = seq /\ head.ts = logTime
  /\ \A r \in acked : IsWritten(r)

\* A process knows the largest number in the file.
LogCounts == logUp => \A i \in Parsed : lines[i].seq <= seq

\* Every prefix of the file that holds a record has a last one.
LastOfPrefix ==
  \A n \in 0..Len(lines) : (\E j \in Parsed : j <= n) =>
    \E i \in Parsed : i <= n /\ \A j \in Parsed : j <= n => j <= i

\* Every prefix of the file whose links are right is numbered from 1.
PrefixNumbered ==
  \A n \in 0..Len(lines) : (\A i \in 1..n : LinkOK(i)) => \A i \in 1..n : lines[i].seq = i

\* Without a fault there is no open line, and a process goes on after the last.
CleanHead ==
  ~torn /\ ~failed =>
    /\ ~openLine
    /\ logUp => head = IF Len(lines) = 0 THEN GenesisPrev ELSE lines[Len(lines)]

LogTypes ==
  /\ openLine \in BOOLEAN /\ logUp \in BOOLEAN /\ torn \in BOOLEAN /\ failed \in BOOLEAN
  /\ appends \in 0..MaxAppends /\ crashes \in 0..MaxCrashes
  /\ openLine => Len(lines) > 0

\* The inductive invariant.
LogInd == /\ LogTypes /\ LogIsSeq /\ LogRecords /\ LogCounts /\ LastOfPrefix
          /\ PrefixNumbered /\ CleanHead /\ NumbersIncrease /\ CleanLogVerifies

-----------------------------------------------------------------------------
LEMMA LogStarts == LogInit => LogInd
  <1> SUFFICES ASSUME LogInit PROVE LogInd
    OBVIOUS
  <1>1. lines = <<>> /\ Len(lines) = 0 /\ lines \in Seq({})
    BY DEF LogInit
  <1>2. Parsed = {}
    BY <1>1 DEF Parsed
  <1>3. LogTypes /\ LogCounts
    <2>1. ~openLine /\ ~logUp /\ ~torn /\ ~failed /\ appends = 0 /\ crashes = 0
      BY DEF LogInit
    <2>2. {openLine, logUp, torn, failed} \subseteq BOOLEAN
      BY DEF LogInit
    <2>3. appends \in 0..MaxAppends /\ crashes \in 0..MaxCrashes
      BY <2>1, EventLogAssumption
    <2> QED
      BY <2>1, <2>2, <2>3 DEF LogTypes, LogCounts
  <1>6. LastOfPrefix /\ NumbersIncrease
    BY <1>2 DEF LastOfPrefix, NumbersIncrease
  <1>4. LogRecords /\ CleanHead /\ CleanLogVerifies
    BY <1>1 DEF LogInit, LogRecords, LinesWritten, CleanHead, CleanLogVerifies, Verify, GenesisPrev, Unnumbered
  <1>5. PrefixNumbered /\ LogIsSeq
    BY <1>1 DEF PrefixNumbered, LogIsSeq
  <1> QED
    BY <1>3, <1>4, <1>5, <1>6 DEF LogInd

\* A record is not what is read from a line that does not parse.
LEMMA RecordIsNotGarbage ==
  ASSUME NEW r, IsRecord(r)
  PROVE  r # Garbage
  BY EventLogAssumption DEF IsRecord, Garbage, Unnumbered

\* A line written at the end of the file.
LEMMA LineAppended ==
  ASSUME LogIsSeq, NEW x, lines' = Append(lines, x)
  PROVE  /\ LogIsSeq' /\ Len(lines) \in Nat /\ Len(lines') = Len(lines) + 1
         /\ \A i \in 1..Len(lines) : lines'[i] = lines[i]
         /\ lines'[Len(lines) + 1] = x
  <1>1. PICK S : lines \in Seq(S)
    BY DEF LogIsSeq
  <1>2. lines \in Seq(S \cup {x})
    BY <1>1
  <1>3. Append(lines, x) \in Seq(S \cup {x})
    BY <1>2
  <1> QED
    BY <1>2, <1>3 DEF LogIsSeq

\* Text that joins an open line.
LEMMA LineSpoilt ==
  ASSUME LogIsSeq, Len(lines) > 0, lines' = [lines EXCEPT ![Len(lines)] = Garbage]
  PROVE  /\ LogIsSeq' /\ Len(lines) \in Nat /\ Len(lines') = Len(lines)
         /\ \A i \in 1..Len(lines) - 1 : lines'[i] = lines[i]
         /\ lines'[Len(lines)] = Garbage
  <1>1. PICK S : lines \in Seq(S)
    BY DEF LogIsSeq
  <1>2. lines \in Seq(S \cup {Garbage}) /\ Len(lines) \in 1..Len(lines)
    BY <1>1
  <1>3. lines' \in Seq(S \cup {Garbage}) /\ Len(lines') = Len(lines)
    BY <1>2
  <1>4. DOMAIN lines = 1..Len(lines) /\ Len(lines) \in Nat
    BY <1>1
  <1>5. lines'[Len(lines)] = Garbage
    BY <1>2, <1>4
  <1>6. ASSUME NEW i \in 1..Len(lines) - 1
        PROVE  lines'[i] = lines[i]
    <2>1. PICK n \in Nat : n = Len(lines)
      BY <1>4
    <2>2. i \in 1..n /\ i # n
      BY <2>1
    <2> QED
      BY <1>4, <2>1, <2>2
  <1> QED
    BY <1>3, <1>4, <1>5, <1>6 DEF LogIsSeq

\* What a write of `text` does to the file.
Extended(text) ==
  /\ LogIsSeq' /\ Len(lines) \in Nat
  /\ \/ /\ ~openLine /\ Len(lines') = Len(lines) + 1
        /\ \A i \in 1..Len(lines) : lines'[i] = lines[i]
        /\ lines'[Len(lines) + 1] = text
     \/ /\ openLine /\ Len(lines) > 0 /\ Len(lines') = Len(lines)
        /\ \A i \in 1..Len(lines) - 1 : lines'[i] = lines[i]
        /\ lines'[Len(lines)] = Garbage

LEMMA LinesExtended ==
  ASSUME LogInd, NEW text, lines' = LinesWith(text)
  PROVE  Extended(text)
  BY LineAppended, LineSpoilt DEF LogInd, LogTypes, LinesWith, Extended

\* The record that append makes.
LEMMA RecordMade ==
  ASSUME LogInd, NEW d \in Payloads, NEW r, r = NewRecord(d), Advance(r)
  PROVE  /\ logUp /\ appends \in Nat /\ appends' = appends + 1 /\ appends' \in 0..MaxAppends
         /\ seq \in Nat /\ r.seq = seq + 1 /\ r.prev = head
         /\ seq' = r.seq /\ logTime' = r.ts /\ head' = r
         /\ IsRecord(r) /\ IsWritten(r)' /\ r # Garbage
         /\ \A q : IsWritten(q) => IsWritten(q)'
  <1>1. /\ logUp /\ appends \in Nat /\ appends' = appends + 1 /\ appends' \in 0..MaxAppends
        /\ seq' = r.seq /\ logTime' = r.ts /\ head' = r
    BY EventLogAssumption DEF Advance, LogInd, LogTypes
  <1>2. /\ seq \in Nat /\ logTime \in Nat /\ seq <= appends /\ logTime <= appends
        /\ head.seq = seq
    <2>1. CASE head = GenesisPrev
      BY <1>1, <2>1 DEF LogInd, LogRecords, GenesisPrev, Unnumbered
    <2>2. CASE IsWritten(head)
      BY <1>1, <2>2, EventLogAssumption DEF LogInd, LogRecords, IsWritten, Linked, IsRecord
    <2> QED
      BY <2>1, <2>2 DEF LogInd, LogRecords
  <1>3. /\ r.seq = seq + 1 /\ r.ts = logTime + 1 /\ r.prev = head /\ r.data = d
        /\ DOMAIN r = {"seq", "ts", "prev", "data"}
    BY DEF NewRecord
  <1>4. IsRecord(r)
    BY <1>1, <1>2, <1>3, EventLogAssumption DEF IsRecord
  <1>5. IsWritten(r)'
    BY <1>1, <1>2, <1>3, <1>4 DEF IsWritten, Linked
  <1>6. ASSUME NEW q, IsWritten(q)
        PROVE  IsWritten(q)'
    BY <1>1, <1>6, EventLogAssumption DEF IsWritten, Linked, IsRecord
  <1> QED
    BY <1>1, <1>2, <1>3, <1>4, <1>5, <1>6, RecordIsNotGarbage

\* A write of a record, or of a piece of one, keeps what is said of the lines.
LEMMA WriteKeeps ==
  ASSUME LogInd, NEW d \in Payloads, NEW r, r = NewRecord(d), Advance(r),
         NEW text \in {r, Garbage}, Extended(text), NEW n, n = Len(lines)
  PROVE  /\ LinesWritten' /\ \A i \in Parsed' : lines'[i].seq <= seq'
         /\ NumbersIncrease' /\ LastOfPrefix' /\ PrefixNumbered'
  <1>1. /\ logUp /\ seq \in Nat /\ r.seq = seq + 1 /\ seq' = r.seq /\ IsWritten(r)' /\ r # Garbage
        /\ \A q : IsWritten(q) => IsWritten(q)'
    BY RecordMade
  <1>2. /\ \A i \in 1..n : lines[i] = Garbage \/ IsWritten(lines[i])
        /\ \A i \in Parsed : lines[i].seq <= seq
        /\ \A i, j \in Parsed : i < j => lines[i].seq < lines[j].seq
        /\ \A i \in Parsed : lines[i].seq \in Nat
    <2>1. /\ \A i \in 1..n : lines[i] = Garbage \/ IsWritten(lines[i])
          /\ \A i \in Parsed : lines[i].seq <= seq
          /\ \A i, j \in Parsed : i < j => lines[i].seq < lines[j].seq
      BY <1>1 DEF LogInd, LogRecords, LinesWritten, LogCounts, NumbersIncrease
    <2>2. \A i \in Parsed : lines[i].seq \in Nat
      BY <2>1, EventLogAssumption DEF Parsed, IsWritten, Linked, IsRecord
    <2> QED
      BY <2>1, <2>2
  <1>3. CASE /\ ~openLine /\ Len(lines') = n + 1 /\ n \in Nat
             /\ \A i \in 1..n : lines'[i] = lines[i]
             /\ lines'[n + 1] = text
    <2>1. /\ \A i \in 1..n : i \in Parsed' <=> i \in Parsed
          /\ n + 1 \in Parsed' <=> text = r
          /\ Parsed' \subseteq 1..n + 1 /\ Parsed \subseteq 1..n
      BY <1>1, <1>3 DEF Parsed
    <2>2. LinesWritten'
      <3> SUFFICES ASSUME NEW i \in 1..n + 1
                   PROVE  (lines[i] = Garbage \/ IsWritten(lines[i]))'
        BY <1>3 DEF LinesWritten
      <3>1. CASE i \in 1..n
        <4>1. PICK q : q = lines[i]
          OBVIOUS
        <4>2. q = Garbage \/ IsWritten(q)'
          BY <1>1, <1>2, <3>1, <4>1
        <4> QED
          BY <1>3, <3>1, <4>1, <4>2
      <3>2. CASE i = n + 1
        BY <1>1, <1>3, <3>2
      <3> QED
        BY <1>3, <3>1, <3>2
    <2>3. \A i \in Parsed' : lines'[i].seq <= seq'
      BY <1>1, <1>2, <1>3, <2>1
    <2>4. NumbersIncrease'
      BY <1>1, <1>2, <1>3, <2>1 DEF NumbersIncrease
    <2>5. LastOfPrefix'
      <3> SUFFICES ASSUME NEW m \in 0..n + 1, \E j \in Parsed' : j <= m
                   PROVE  \E i \in Parsed' : i <= m /\ \A j \in Parsed' : j <= m => j <= i
        BY <1>3 DEF LastOfPrefix
      <3>1. CASE m = n + 1 /\ text = r
        BY <1>3, <2>1, <3>1
      <3>2. CASE m <= n
        BY <1>3, <2>1, <3>2 DEF LogInd, LastOfPrefix
      <3>3. CASE m = n + 1 /\ text # r
        <4>1. \E j \in Parsed : j <= n
          BY <1>3, <2>1, <3>3
        <4>2. PICK i \in Parsed : i <= n /\ \A j \in Parsed : j <= n => j <= i
          BY <1>3, <4>1 DEF LogInd, LastOfPrefix
        <4>3. i \in Parsed' /\ i <= m
          BY <1>3, <2>1, <3>3, <4>2
        <4>4. ASSUME NEW j \in Parsed'
              PROVE  j <= i
          BY <1>3, <2>1, <3>3, <4>2
        <4> QED
          BY <4>3, <4>4
      <3> QED
        BY <1>3, <3>1, <3>2, <3>3
    <2>6. PrefixNumbered'
      <3> SUFFICES ASSUME NEW m \in 0..n + 1, \A i \in 1..m : LinkOK(i)'
                   PROVE  \A i \in 1..m : lines'[i].seq = i
        BY <1>3 DEF PrefixNumbered
      <3>1. \A i \in 1..n : LinkOK(i)' <=> LinkOK(i)
        BY <1>3 DEF LinkOK
      <3>2. CASE m <= n
        BY <1>3, <3>1, <3>2 DEF LogInd, PrefixNumbered
      <3>3. CASE m = n + 1
        <4>1. \A i \in 1..n : lines[i].seq = i
          BY <1>3, <3>1, <3>3 DEF LogInd, PrefixNumbered
        <4>2. LinkOK(n + 1)' /\ text = r
          BY <1>3, <3>3 DEF LinkOK
        <4>3. r.seq = r.prev.seq + 1
          BY <1>1 DEF IsWritten, Linked
        <4>4. r.seq = n + 1
          <5>1. CASE n = 0
            BY <1>3, <4>2, <4>3, <5>1 DEF LinkOK, GenesisPrev, Unnumbered
          <5>2. CASE n > 0
            BY <1>3, <4>1, <4>2, <4>3, <5>2 DEF LinkOK
          <5> QED
            BY <1>3, <5>1, <5>2
        <4> QED
          BY <1>3, <3>3, <4>1, <4>2, <4>4
      <3> QED
        BY <1>3, <3>2, <3>3
    <2> QED
      BY <1>3, <2>2, <2>3, <2>4, <2>5, <2>6
  <1>4. CASE /\ openLine /\ n > 0 /\ Len(lines') = n /\ n \in Nat
             /\ \A i \in 1..n - 1 : lines'[i] = lines[i]
             /\ lines'[n] = Garbage
    <2>1. /\ \A i \in 1..n - 1 : i \in Parsed' <=> i \in Parsed
          /\ Parsed' \subseteq 1..n - 1
      BY <1>4 DEF Parsed
    <2>2. LinesWritten'
      <3> SUFFICES ASSUME NEW i \in 1..n
                   PROVE  (lines[i] = Garbage \/ IsWritten(lines[i]))'
        BY <1>4 DEF LinesWritten
      <3>1. PICK q : q = lines[i]
        OBVIOUS
      <3>2. q = Garbage \/ IsWritten(q)'
        BY <1>1, <1>2, <3>1
      <3> QED
        BY <1>4, <3>1, <3>2
    <2>3. \A i \in Parsed' : lines'[i].seq <= seq'
      BY <1>1, <1>2, <1>4, <2>1
    <2>4. NumbersIncrease'
      BY <1>2, <1>4, <2>1 DEF NumbersIncrease
    <2>5. LastOfPrefix'
      <3> SUFFICES ASSUME NEW m \in 0..n, \E j \in Parsed' : j <= m
                   PROVE  \E i \in Parsed' : i <= m /\ \A j \in Parsed' : j <= m => j <= i
        BY <1>4 DEF LastOfPrefix
      <3> DEFINE k == IF m = n THEN n - 1 ELSE m
      <3>1. k \in 0..n /\ k <= m /\ \A j \in 1..n - 1 : j <= m <=> j <= k
        BY <1>4
      <3>2. \E j \in Parsed : j <= k
        BY <2>1, <3>1
      <3>3. PICK i \in Parsed : i <= k /\ \A j \in Parsed : j <= k => j <= i
        BY <3>1, <3>2 DEF LogInd, LastOfPrefix
      <3>4. i \in 1..n - 1
        BY <1>4, <3>3 DEF Parsed
      <3> QED
        BY <2>1, <3>1, <3>3, <3>4
    <2>6. PrefixNumbered'
      <3> SUFFICES ASSUME NEW m \in 0..n, \A i \in 1..m : LinkOK(i)'
                   PROVE  \A i \in 1..m : lines'[i].seq = i
        BY <1>4 DEF PrefixNumbered
      <3>1. ~LinkOK(n)'
        BY <1>4 DEF LinkOK
      <3>2. m <= n - 1
        BY <1>4, <3>1
      <3>3. \A i \in 1..n - 1 : LinkOK(i)' <=> LinkOK(i)
        BY <1>4 DEF LinkOK
      <3> QED
        BY <1>4, <3>2, <3>3 DEF LogInd, PrefixNumbered
    <2> QED
      BY <1>4, <2>2, <2>3, <2>4, <2>5, <2>6
  <1> QED
    BY <1>3, <1>4 DEF Extended

\* What holds of the log with or without faults.
LogCore == /\ LogTypes /\ LogIsSeq /\ LogRecords /\ LogCounts /\ LastOfPrefix
           /\ PrefixNumbered /\ NumbersIncrease

\* An append keeps it, whatever becomes of its write.
LEMMA AppendKeepsCore ==
  ASSUME LogInd, NEW d \in Payloads, NEW r, r = NewRecord(d), Advance(r),
         \/ UNCHANGED <<lines, openLine>>
         \/ \E text \in {r, Garbage} : Extended(text) /\ openLine' \in BOOLEAN,
         acked' = acked \/ acked' = acked \cup {r},
         logUp' \in BOOLEAN, torn' \in BOOLEAN, failed' \in BOOLEAN,
         crashes' \in 0..MaxCrashes
  PROVE  LogCore'
  <1>1. /\ logUp /\ appends' \in 0..MaxAppends /\ seq \in Nat /\ r.seq = seq + 1
        /\ seq' = r.seq /\ logTime' = r.ts /\ head' = r /\ IsWritten(r)'
        /\ \A q : IsWritten(q) => IsWritten(q)'
    BY RecordMade
  <1>2. (\A q \in acked : IsWritten(q))'
    BY <1>1 DEF LogInd, LogRecords
  <1>3. CASE UNCHANGED <<lines, openLine>>
    <2>1. LinesWritten'
      <3> SUFFICES ASSUME NEW i \in 1..Len(lines), lines[i] # Garbage
                   PROVE  IsWritten(lines[i])'
        BY <1>3 DEF LinesWritten
      <3>1. PICK q : q = lines[i]
        OBVIOUS
      <3>2. IsWritten(q)'
        BY <1>1, <3>1 DEF LogInd, LogRecords, LinesWritten
      <3> QED
        BY <1>3, <3>1, <3>2
    <2>2. Parsed' = Parsed /\ \A i : LinkOK(i)' <=> LinkOK(i)
      BY <1>3 DEF Parsed, LinkOK
    <2>3. \A i \in Parsed : lines[i].seq \in Nat
      BY EventLogAssumption DEF LogInd, LogRecords, LinesWritten, Parsed, IsWritten, Linked, IsRecord
    <2>4. LogCounts' /\ NumbersIncrease'
      BY <1>1, <1>3, <2>2, <2>3 DEF LogInd, LogCounts, NumbersIncrease
    <2>5. LastOfPrefix' /\ PrefixNumbered' /\ LogIsSeq'
      BY <1>3, <2>2 DEF LogInd, LastOfPrefix, PrefixNumbered, LogIsSeq
    <2>6. LogTypes'
      BY <1>1, <1>3 DEF LogInd, LogTypes
    <2> QED
      BY <1>1, <1>2, <2>1, <2>4, <2>5, <2>6 DEF LogCore, LogRecords
  <1>4. ASSUME NEW text \in {r, Garbage}, Extended(text), openLine' \in BOOLEAN
        PROVE  LogCore'
    <2>1. /\ LinesWritten' /\ \A i \in Parsed' : lines'[i].seq <= seq'
          /\ NumbersIncrease' /\ LastOfPrefix' /\ PrefixNumbered'
      BY <1>4, WriteKeeps
    <2>2. LogIsSeq' /\ Len(lines') > 0
      BY <1>4 DEF Extended
    <2>3. LogTypes'
      BY <1>1, <1>4, <2>2 DEF LogTypes
    <2> QED
      BY <1>1, <1>2, <2>1, <2>2, <2>3 DEF LogCore, LogRecords, LogCounts
  <1> QED
    BY <1>3, <1>4

LEMMA AppendStoredKeeps ==
  ASSUME LogInd, NEW d \in Payloads, AppendStored(d)
  PROVE  LogInd'
  <1>1. PICK r : r = NewRecord(d)
    OBVIOUS
  <1>2. /\ Advance(r) /\ lines' = LinesWith(r) /\ ~openLine' /\ openLine' \in BOOLEAN
        /\ acked' = acked \cup {r} /\ UNCHANGED <<logUp, crashes, torn, failed>>
    BY <1>1 DEF AppendStored
  <1>3. Extended(r)
    BY <1>2, LinesExtended
  <1>4. LogCore'
    BY <1>1, <1>2, <1>3, AppendKeepsCore DEF LogInd, LogTypes
  <1>5. /\ logUp /\ r.prev = head /\ head' = r /\ r # Garbage
    BY <1>1, <1>2, RecordMade
  <1>6. ASSUME ~torn', ~failed'
        PROVE  CleanHead' /\ CleanLogVerifies'
    <2>1. PICK n \in Nat : n = Len(lines)
      BY <1>3 DEF Extended
    <2>2. /\ ~openLine /\ head = (IF n = 0 THEN GenesisPrev ELSE lines[n])
          /\ \A i \in 1..n : LinkOK(i)
          /\ \A q \in acked : \E i \in 1..n : lines[i] = q
      BY <1>2, <1>5, <1>6, <2>1 DEF LogInd, CleanHead, CleanLogVerifies, Verify
    <2>3. /\ Len(lines') = n + 1 /\ lines'[n + 1] = r
          /\ \A i \in 1..n : lines'[i] = lines[i]
      BY <1>3, <2>1, <2>2 DEF Extended
    <2>4. CleanHead'
      BY <1>2, <1>5, <2>3 DEF CleanHead
    <2>5. \A i \in 1..n : LinkOK(i)' <=> LinkOK(i)
      BY <2>3 DEF LinkOK
    <2>6. LinkOK(n + 1)'
      BY <1>5, <2>2, <2>3 DEF LinkOK
    <2>7. Verify'
      BY <2>2, <2>3, <2>5, <2>6 DEF Verify
    <2>8. \A q \in acked' : \E i \in 1..n + 1 : lines'[i] = q
      <3> SUFFICES ASSUME NEW q \in acked'
                   PROVE  \E i \in 1..n + 1 : lines'[i] = q
        OBVIOUS
      <3>1. CASE q = r
        BY <2>3, <3>1
      <3>2. CASE q \in acked
        BY <2>2, <2>3, <3>2
      <3> QED
        BY <1>2, <3>1, <3>2
    <2> QED
      BY <2>3, <2>4, <2>7, <2>8 DEF CleanLogVerifies
  <1> QED
    BY <1>4, <1>6 DEF LogInd, LogCore, CleanHead, CleanLogVerifies

\* What a write that stops early can do to the file.
LEMMA CutShortExtends ==
  ASSUME LogInd, NEW r, CutShort(r)
  PROVE  /\ \/ UNCHANGED <<lines, openLine>>
            \/ \E text \in {r, Garbage} : Extended(text) /\ openLine' \in BOOLEAN
         /\ ~openLine' => UNCHANGED <<lines, openLine>>
  BY LinesExtended DEF CutShort

LEMMA AppendFailedKeeps ==
  ASSUME LogInd, NEW d \in Payloads, AppendFailed(d)
  PROVE  LogInd'
  <1>1. PICK r : r = NewRecord(d)
    OBVIOUS
  <1>2. /\ Advance(r) /\ CutShort(r) /\ failed' /\ failed' \in BOOLEAN
        /\ acked' = acked \/ acked' = acked \cup {r}
        /\ UNCHANGED <<logUp, crashes, torn>>
    BY <1>1 DEF AppendFailed
  <1>3. LogCore'
    BY <1>1, <1>2, CutShortExtends, AppendKeepsCore DEF LogInd, LogTypes
  <1> QED
    BY <1>2, <1>3 DEF LogInd, LogCore, CleanHead, CleanLogVerifies

LEMMA CrashInAppendKeeps ==
  ASSUME LogInd, NEW d \in Payloads, CrashInAppend(d)
  PROVE  LogInd'
  <1>1. PICK r : r = NewRecord(d)
    OBVIOUS
  <1>2. /\ Advance(r) /\ CutShort(r) /\ crashes < MaxCrashes /\ crashes' = crashes + 1
        /\ torn' = (torn \/ openLine') /\ ~logUp' /\ logUp' \in BOOLEAN
        /\ UNCHANGED <<acked, failed>>
    BY <1>1 DEF CrashInAppend
  <1>3. /\ \/ UNCHANGED <<lines, openLine>>
           \/ \E text \in {r, Garbage} : Extended(text) /\ openLine' \in BOOLEAN
        /\ ~openLine' => UNCHANGED <<lines, openLine>>
    BY <1>2, CutShortExtends
  <1>4. crashes' \in 0..MaxCrashes
    BY <1>2, EventLogAssumption DEF LogInd, LogTypes
  <1>5. torn' \in BOOLEAN /\ failed' \in BOOLEAN
    BY <1>2, <1>3 DEF LogInd, LogTypes
  <1>6. LogCore'
    BY <1>1, <1>2, <1>3, <1>4, <1>5, AppendKeepsCore
  <1>7. ASSUME ~torn', ~failed'
        PROVE  CleanHead' /\ CleanLogVerifies'
    <2>1. ~torn /\ ~failed /\ ~openLine' /\ lines' = lines
      BY <1>2, <1>3, <1>7
    <2>2. \A i : LinkOK(i)' <=> LinkOK(i)
      BY <2>1 DEF LinkOK
    <2> QED
      BY <1>2, <2>1, <2>2 DEF LogInd, CleanHead, CleanLogVerifies, Verify
  <1> QED
    BY <1>6, <1>7 DEF LogInd, LogCore, CleanHead, CleanLogVerifies

\* The loop of the constructor finds a record whenever there is one.
LEMMA RecoversLast ==
  ASSUME LogInd, Recovered = {}
  PROVE  Parsed = {}
  <1> SUFFICES ASSUME NEW j \in Parsed
               PROVE  FALSE
    OBVIOUS
  <1>1. Len(lines) \in Nat /\ j \in 1..Len(lines)
    BY DEF LogInd, LogIsSeq, Parsed
  <1>a. PICK n \in Nat : n = Len(lines)
    BY <1>1
  <1>b. n \in 0..Len(lines) /\ j \in Parsed /\ j <= n
    BY <1>1, <1>a
  <1>c. PICK i \in Parsed : i <= n /\ \A k \in Parsed : k <= n => k <= i
    BY <1>b DEF LogInd, LastOfPrefix
  <1>2. \A k \in Parsed : k <= Len(lines) => k <= i
    BY <1>a, <1>c
  <1>3. \A k \in Parsed : k \in Nat /\ k <= Len(lines)
    BY <1>1 DEF Parsed
  <1>4. \A k \in Parsed : k = i \/ lines[k].seq < lines[i].seq
    BY <1>2, <1>3 DEF LogInd, NumbersIncrease
  <1>5. i \in Recovered
    BY <1>3, <1>4 DEF Recovered
  <1> QED
    BY <1>5

LEMMA LogOpenKeeps ==
  ASSUME LogInd, LogOpen
  PROVE  LogInd'
  <1>1. /\ logUp' /\ logUp' \in BOOLEAN
        /\ UNCHANGED <<lines, openLine, acked, appends, crashes, torn, failed>>
    BY DEF LogOpen
  <1>2. /\ Parsed' = Parsed /\ \A i : LinkOK(i)' <=> LinkOK(i)
        /\ \A r : IsWritten(r)' <=> IsWritten(r)
    BY <1>1 DEF Parsed, LinkOK, IsWritten, Linked, IsRecord
  <1>3. LogTypes' /\ LogIsSeq' /\ LastOfPrefix' /\ PrefixNumbered' /\ NumbersIncrease'
    BY <1>1, <1>2 DEF LogInd, LogTypes, LogIsSeq, LastOfPrefix, PrefixNumbered, NumbersIncrease
  <1>4. CleanLogVerifies' /\ LinesWritten' /\ (\A r \in acked : IsWritten(r))'
    BY <1>1, <1>2 DEF LogInd, CleanLogVerifies, Verify, LogRecords, LinesWritten
  <1>5. \A i \in Parsed : IsWritten(lines[i]) /\ lines[i].seq \in Nat
    BY EventLogAssumption DEF LogInd, LogRecords, LinesWritten, Parsed, IsWritten, Linked, IsRecord
  <1>6. CASE Recovered = {} /\ seq' = 0 /\ logTime' = 0 /\ head' = GenesisPrev
    <2>1. Parsed = {}
      BY <1>6, RecoversLast
    <2>2. LogRecords' /\ LogCounts'
      BY <1>1, <1>2, <1>4, <1>6, <2>1 DEF LogRecords, LogCounts, GenesisPrev, Unnumbered
    <2>3. CleanHead'
      <3> SUFFICES ASSUME ~torn, ~failed
                   PROVE  ~openLine /\ Len(lines) = 0
        BY <1>1, <1>6 DEF CleanHead
      <3>1. \A i \in 1..Len(lines) : i \in Parsed
        BY DEF LogInd, CleanLogVerifies, Verify, LinkOK, Parsed
      <3>2. Len(lines) \in Nat
        BY DEF LogInd, LogIsSeq
      <3> QED
        BY <2>1, <3>1, <3>2 DEF LogInd, CleanHead
    <2> QED
      BY <1>3, <1>4, <2>2, <2>3 DEF LogInd
  <1>7. ASSUME NEW i \in Recovered,
               seq' = lines[i].seq, logTime' = lines[i].ts, head' = lines[i]
        PROVE  LogInd'
    <2>1. i \in Parsed /\ \A j \in Parsed : \/ lines[j].seq < lines[i].seq
                                            \/ lines[j].seq = lines[i].seq /\ i <= j
      BY <1>7 DEF Recovered
    <2>2. LogCounts'
      BY <1>1, <1>2, <1>5, <1>7, <2>1 DEF LogCounts
    <2>3. LogRecords'
      BY <1>1, <1>2, <1>4, <1>5, <1>7, <2>1 DEF LogRecords
    <2>4. CleanHead'
      <3> SUFFICES ASSUME ~torn, ~failed
                   PROVE  ~openLine /\ Len(lines) # 0 /\ i = Len(lines)
        BY <1>1, <1>7 DEF CleanHead
      <3>1. \A j \in 1..Len(lines) : j \in Parsed
        BY DEF LogInd, CleanLogVerifies, Verify, LinkOK, Parsed
      <3>2. Len(lines) \in Nat /\ i \in 1..Len(lines)
        BY <2>1 DEF LogInd, LogIsSeq, Parsed
      <3>3. Len(lines) \in Parsed
        BY <3>1, <3>2
      <3>4. i < Len(lines) => lines[i].seq < lines[Len(lines)].seq
        BY <2>1, <3>3 DEF LogInd, NumbersIncrease
      <3>5. i = Len(lines)
        BY <1>5, <2>1, <3>2, <3>3, <3>4
      <3> QED
        BY <3>2, <3>5 DEF LogInd, CleanHead
    <2> QED
      BY <1>3, <1>4, <2>2, <2>3, <2>4 DEF LogInd
  <1> QED
    BY <1>6, <1>7 DEF LogOpen

LEMMA LogRestKeeps ==
  ASSUME LogInd, LogClose \/ UNCHANGED logVars
  PROVE  LogInd'
  <1>a. UNCHANGED <<lines, openLine, seq, logTime, head, acked, appends, crashes, torn, failed>>
    BY DEF LogClose, logVars
  <1>b. logUp' = FALSE \/ logUp' = logUp
    BY DEF LogClose, logVars
  <1>c. logUp \in BOOLEAN
    BY DEF LogInd, LogTypes
  <1>d. logUp' \in BOOLEAN /\ (logUp' => logUp)
    <2>1. CASE logUp' = FALSE
      BY <2>1
    <2>2. CASE logUp' = logUp
      <3>1. logUp' \in BOOLEAN
        BY <1>c, <2>2
      <3>2. ASSUME logUp' PROVE logUp
        BY <2>2, <3>2
      <3> QED
        BY <3>1, <3>2
    <2> QED
      BY <1>b, <2>1, <2>2
  <1>1. /\ UNCHANGED <<lines, openLine, seq, logTime, head, acked, appends, crashes, torn, failed>>
        /\ logUp' \in BOOLEAN /\ (logUp' => logUp)
    BY <1>a, <1>d
  <1>2. /\ Parsed' = Parsed /\ \A i : LinkOK(i)' <=> LinkOK(i)
        /\ \A r : IsWritten(r)' <=> IsWritten(r)
    BY <1>1 DEF Parsed, LinkOK, IsWritten, Linked, IsRecord
  <1>3. LogTypes' /\ LogIsSeq' /\ LastOfPrefix' /\ PrefixNumbered' /\ NumbersIncrease' /\ LogCounts'
    BY <1>1, <1>2 DEF LogInd, LogTypes, LogIsSeq, LastOfPrefix, PrefixNumbered, NumbersIncrease,
       LogCounts
  <1>4. CleanLogVerifies' /\ LogRecords' /\ CleanHead'
    BY <1>1, <1>2 DEF LogInd, CleanLogVerifies, Verify, LogRecords, LinesWritten, CleanHead
  <1> QED
    BY <1>3, <1>4 DEF LogInd

LEMMA LogInvariantFollows ==
  ASSUME LogInd
  PROVE  LogInvariant
  <1>1. Len(lines) \in Nat
    BY DEF LogInd, LogIsSeq
  <1>2. VerifiedHasNoHole
    BY <1>1 DEF LogInd, PrefixNumbered, VerifiedHasNoHole, Verify
  <1>3. \A r : IsWritten(r) => IsRecord(r)
    BY DEF IsWritten, Linked
  <1>4. /\ \A i \in 1..Len(lines) : lines[i] = Garbage \/ IsRecord(lines[i])
        /\ head = GenesisPrev \/ IsRecord(head)
        /\ \A r \in acked : IsRecord(r)
    BY <1>3 DEF LogInd, LogRecords, LinesWritten
  <1>5. seq \in 0..MaxAppends /\ logTime \in 0..MaxAppends
    BY <1>4, EventLogAssumption DEF LogInd, LogRecords, GenesisPrev, Unnumbered, IsRecord
  <1> QED
    BY <1>2, <1>4, <1>5 DEF LogInd, LogInvariant, LogTypeOK, LogTypes

\* For any number of appends, crashes, processes and writes cut short: verify
\* accepts what was written without a fault and finds every acknowledged record
\* in it, what verify accepts is numbered without a hole, and numbers increase
\* from line to line.
THEOREM LogCorrect == LogSpec => []LogInvariant
  <1>1. LogInd /\ [LogNext]_logVars => LogInd'
    BY LogOpenKeeps, LogRestKeeps, AppendStoredKeeps, AppendFailedKeeps, CrashInAppendKeeps
       DEF LogNext
  <1>2. LogInd => LogInvariant
    BY LogInvariantFollows
  <1> QED
    BY LogStarts, <1>1, <1>2, PTL DEF LogSpec

-----------------------------------------------------------------------------
\* CasStore
(***************************************************************************)
(* What the content-addressed store has acknowledged can be read, for any  *)
(* set of digests and threads, any number of operations, crashes and       *)
(* faults.                                                                 *)
(***************************************************************************)

----------------------------------------------------------------------------
(* The inductive invariant *)

PutState == [op : {"put"}, d : Digests, step : Steps, ts : 0..MaxClock, alone : BOOLEAN]
RemoveState == [op : {"remove"}, d : Digests, step : {"blob", "meta", "index"},
                todo : SUBSET Digests, again : BOOLEAN]

CasTypes ==
  /\ blob \in [Digests -> {"none", "ok", "bad"}]
  /\ sidecar \in [Digests -> BOOLEAN]
  /\ lineOf \in [Digests -> 0..MaxClock] /\ indexCut \in BOOLEAN
  /\ index \in [Digests -> 0..MaxClock] /\ indexLoaded \in BOOLEAN
  /\ casClock \in 1..MaxClock
  /\ thread \in [CasThreads -> {Idle} \cup PutState \cup RemoveState]
  /\ owed \subseteq Digests /\ rolledBack \subseteq Digests
  /\ lineLost \in BOOLEAN /\ coldCompact \in BOOLEAN

\* The time is taken before the entry is made.
Stamped ==
  \A t \in CasThreads : thread[t].op = "put" /\ thread[t].step \in {"meta", "index", "line"}
                        => thread[t].ts # 0

\* A removal that has taken something away: nothing is owed, and no put of the
\* same content is without it.
RemovalSeen ==
  \A t \in CasThreads : thread[t].op = "remove" /\ thread[t].step # "blob" =>
    /\ thread[t].d \notin owed
    /\ \A u \in CasThreads : /\ thread[u].op = "put" /\ thread[u].step # "start"
                             /\ thread[u].d = thread[t].d
                             => ~thread[u].alone

\* A put that no removal and no rollback disturbed has what it wrote so far.
AlonePlaced ==
  \A t \in CasThreads :
    thread[t].op = "put" /\ thread[t].alone /\ thread[t].d \notin rolledBack =>
      /\ thread[t].step \in {"meta", "index", "line"} => blob[thread[t].d] # "none"
      /\ thread[t].step \in {"index", "line"} => sidecar[thread[t].d]
      /\ thread[t].step = "line" => index[thread[t].d] # 0

\* A crash now would cost d its line.
Appending(d) == \E t \in CasThreads : At(t, "put", "line") /\ thread[t].d = d

\* What the index knows has a line, or a thread that is about to write it.
IndexBacked == \A d \in Digests : index[d] # 0 => lineOf[d] # 0 \/ Appending(d)

OwedPlaced == \A d \in owed \ rolledBack : /\ blob[d] # "none" /\ sidecar[d]
                                           /\ LoadedIndex[d] # 0

CasInd == /\ CasTypes /\ Stamped /\ RemovalSeen /\ AlonePlaced
          /\ ~lineLost => ~indexCut
          /\ ~lineLost /\ ~coldCompact => IndexBacked /\ OwedPlaced

----------------------------------------------------------------------------
(* What a step has to show *)

LEMMA LoadedEntry ==
  ASSUME CasTypes
  PROVE  \A d \in Digests : LoadedIndex[d] = IF ~indexLoaded /\ lineOf[d] # 0
                                             THEN lineOf[d] ELSE index[d]
  BY DEF LoadedIndex, CasTypes

\* The shapes a thread's record can have.
LEMMA ThreadShapes ==
  ASSUME CasTypes, NEW t \in CasThreads
  PROVE  /\ thread[t] = Idle \/ thread[t] \in PutState \/ thread[t] \in RemoveState
         /\ thread[t].op = "put" => thread[t] \in PutState
         /\ thread[t].op = "remove" => thread[t] \in RemoveState
  BY DEF CasTypes, Idle, PutState, RemoveState

\* A put step of u: stamped, undisturbed by a removal that has begun if it says
\* so, and with what it has written in place.
PutGood(u) ==
  /\ thread[u] \in PutState
  /\ thread[u].step \in {"meta", "index", "line"} => thread[u].ts # 0
  /\ thread[u].alone /\ thread[u].d \notin rolledBack =>
      /\ thread[u].step \in {"meta", "index", "line"} => blob[thread[u].d] # "none"
      /\ thread[u].step \in {"index", "line"} => sidecar[thread[u].d]
      /\ thread[u].step = "line" => index[thread[u].d] # 0

\* No removal of d has taken anything away yet.
Untouched(d) == \A t \in CasThreads : ~(/\ thread[t].op = "remove" /\ thread[t].step # "blob"
                                        /\ thread[t].d = d)

\* What is in place for d stays.
KeptFor(d) == /\ blob[d] # "none" => blob'[d] # "none"
              /\ sidecar[d] => sidecar'[d]
              /\ index[d] # 0 => index'[d] # 0

\* Steps that take nothing away but by a rollback.
LEMMA CasGrows ==
  ASSUME CasInd, CasTypes', rolledBack \subseteq rolledBack',
         \A d \in Digests \ rolledBack' : KeptFor(d),
         \A u \in CasThreads : \/ thread'[u] = thread[u]
                               \/ thread'[u] = Idle
                               \/ /\ PutGood(u)'
                                  /\ thread'[u].alone => Untouched(thread'[u].d),
         \A d \in owed' \ owed : Untouched(d)
  PROVE  Stamped' /\ RemovalSeen' /\ AlonePlaced'
  <1>1. Stamped'
    BY DEF CasInd, Stamped, PutGood, PutState, Idle
  <1>2. ASSUME NEW u \in CasThreads, thread'[u].op = "put"
        PROVE  /\ PutGood(u)' /\ thread'[u].d \in Digests
               /\ thread'[u].alone /\ thread'[u].step # "start" => Untouched(thread'[u].d)
    <2>1. CASE thread'[u] = thread[u]
      <3>1. thread[u] \in PutState /\ thread[u].op = "put"
        BY <1>2, <2>1, ThreadShapes DEF CasInd
      <3>2. thread[u].d \in Digests
        BY <3>1 DEF PutState
      <3>3. thread[u].step \in {"meta", "index", "line"} => thread[u].ts # 0
        BY <3>1 DEF CasInd, Stamped
      <3>4. ASSUME thread[u].alone, thread[u].d \notin rolledBack'
            PROVE  /\ thread[u].step \in {"meta", "index", "line"} => blob'[thread[u].d] # "none"
                   /\ thread[u].step \in {"index", "line"} => sidecar'[thread[u].d]
                   /\ thread[u].step = "line" => index'[thread[u].d] # 0
        <4>1. KeptFor(thread[u].d) /\ thread[u].d \notin rolledBack
          BY <3>2, <3>4
        <4> QED
          BY <3>1, <3>4, <4>1 DEF CasInd, AlonePlaced, KeptFor
      <3>5. PutGood(u)'
        BY <2>1, <3>1, <3>3, <3>4 DEF PutGood
      <3>6. thread[u].alone /\ thread[u].step # "start" => Untouched(thread[u].d)
        BY <3>1 DEF CasInd, RemovalSeen, Untouched
      <3> QED
        BY <2>1, <3>2, <3>5, <3>6
    <2>2. CASE thread'[u] # thread[u]
      BY <1>2, <2>2 DEF Idle, PutGood, PutState
    <2> QED
      BY <2>1, <2>2
  <1>3. AlonePlaced'
    BY <1>2 DEF AlonePlaced, PutGood
  <1>4. ASSUME NEW w \in CasThreads, thread'[w].op = "remove", thread'[w].step # "blob"
        PROVE  /\ thread'[w].d \notin owed'
               /\ \A u \in CasThreads : /\ thread'[u].op = "put" /\ thread'[u].step # "start"
                                        /\ thread'[u].d = thread'[w].d
                                        => ~thread'[u].alone
    <2>1. thread'[w] = thread[w]
      BY <1>4 DEF Idle, PutGood, PutState
    <2>2. ~Untouched(thread[w].d)
      BY <1>4, <2>1 DEF Untouched
    <2>3. thread[w].d \notin owed
      BY <1>4, <2>1 DEF CasInd, RemovalSeen
    <2> QED
      BY <1>2, <2>1, <2>2, <2>3
  <1>5. RemovalSeen'
    BY <1>4 DEF RemovalSeen
  <1> QED
    BY <1>1, <1>3, <1>5

\* The same steps keep what is owed.
LEMMA OwedGrows ==
  ASSUME CasInd, CasTypes', OwedPlaced, rolledBack \subseteq rolledBack',
         \A d \in Digests \ rolledBack' : KeptFor(d),
         \A d \in Digests : LoadedIndex[d] # 0 => LoadedIndex'[d] # 0,
         \A d \in owed' \ owed : d \notin rolledBack' =>
           blob'[d] # "none" /\ sidecar'[d] /\ LoadedIndex'[d] # 0
  PROVE  OwedPlaced'
  <1> SUFFICES ASSUME NEW d \in owed' \ rolledBack'
               PROVE  blob'[d] # "none" /\ sidecar'[d] /\ LoadedIndex'[d] # 0
    BY DEF OwedPlaced
  <1>1. d \in Digests
    BY DEF CasTypes
  <1>2. CASE d \in owed
    BY <1>1, <1>2 DEF OwedPlaced, KeptFor
  <1> QED
    BY <1>2

\* The index stays backed by the file and by the puts under way.
LEMMA BackedStays ==
  ASSUME IndexBacked,
         \A d \in Digests : index'[d] # 0 => index[d] # 0 \/ lineOf[d] # 0 \/ Appending(d)',
         \A d \in Digests : lineOf[d] # 0 => lineOf'[d] # 0,
         \A d \in Digests : Appending(d) => Appending(d)' \/ lineOf'[d] # 0
  PROVE  IndexBacked'
  BY DEF IndexBacked

\* Steps of a thread that removes d, or starts to.
LEMMA CasShrinks ==
  ASSUME CasInd, CasTypes', NEW t \in CasThreads, NEW d \in Digests, NEW next,
         RemovalOf(t, d, next), thread[t].op # "put",
         \/ next = Idle
         \/ next.op = "put" /\ next.step = "start"
         \/ next.op = "remove" /\ (next.step = "blob" \/ next.d = d),
         UNCHANGED <<lineOf, indexCut, rolledBack, lineLost, coldCompact>>,
         \A e \in Digests \ {d} : KeptFor(e),
         \A e \in Digests \ {d} : LoadedIndex[e] # 0 => LoadedIndex'[e] # 0,
         \A e \in Digests : index'[e] # 0 => index[e] # 0 \/ lineOf[e] # 0
  PROVE  CasInd'
  <1>1. \A u \in CasThreads : thread'[u] = IF u = t THEN next
                                ELSE IF thread[u].op = "put" /\ thread[u].d = d
                                THEN [thread[u] EXCEPT !.alone = FALSE] ELSE thread[u]
    BY DEF RemovalOf
  <1>2. owed' = owed \ {d}
    BY DEF RemovalOf
  <1>3. \A u \in CasThreads : thread[u].op = "put" => thread[u] \in PutState
    BY ThreadShapes DEF CasInd
  <1>4. ASSUME NEW u \in CasThreads, u # t, thread'[u].op = "put"
        PROVE  /\ thread[u].op = "put"
               /\ thread'[u].step = thread[u].step /\ thread'[u].d = thread[u].d
               /\ thread'[u].ts = thread[u].ts
               /\ thread'[u].alone => thread[u].alone /\ thread[u].d # d
    BY <1>1, <1>3, <1>4 DEF PutState
  <1>5. ASSUME NEW u \in CasThreads, u # t, thread'[u].op = "remove"
        PROVE  thread'[u] = thread[u]
    BY <1>1, <1>3, <1>5 DEF PutState
  <1>6. thread'[t] = next
    BY <1>1
  <1>7. next.op = "put" => next.step = "start"
    BY DEF Idle
  <1>8. next.op = "remove" => next.step = "blob" \/ next.d = d
    BY DEF Idle
  <1>9. Stamped'
    BY <1>4, <1>6, <1>7 DEF CasInd, Stamped
  <1>10. AlonePlaced'
    <2> SUFFICES ASSUME NEW u \in CasThreads, thread'[u].op = "put", thread'[u].alone,
                        thread'[u].d \notin rolledBack, thread'[u].step # "start"
                 PROVE  /\ thread'[u].step \in {"meta", "index", "line"} => blob'[thread'[u].d] # "none"
                        /\ thread'[u].step \in {"index", "line"} => sidecar'[thread'[u].d]
                        /\ thread'[u].step = "line" => index'[thread'[u].d] # 0
      BY DEF AlonePlaced
    <2>1. u # t
      BY <1>6, <1>7
    <2>2. /\ thread[u].op = "put" /\ thread[u].alone /\ thread[u].d # d
          /\ thread'[u].step = thread[u].step /\ thread'[u].d = thread[u].d
      BY <1>4, <2>1
    <2>3. thread[u].d \in Digests \ {d}
      BY <1>3, <2>2 DEF PutState
    <2>4. KeptFor(thread[u].d)
      BY <2>3
    <2> QED
      BY <2>2, <2>4 DEF CasInd, AlonePlaced, KeptFor
  <1>11. RemovalSeen'
    <2> SUFFICES ASSUME NEW w \in CasThreads, thread'[w].op = "remove", thread'[w].step # "blob"
                 PROVE  /\ thread'[w].d \notin owed'
                        /\ \A u \in CasThreads : /\ thread'[u].op = "put" /\ thread'[u].step # "start"
                                                 /\ thread'[u].d = thread'[w].d
                                                 => ~thread'[u].alone
      BY DEF RemovalSeen
    <2>1. thread'[w].d = d \/ (thread'[w] = thread[w] /\ w # t)
      BY <1>5, <1>6, <1>8
    <2>2. thread'[w].d = d \/ thread'[w].d \notin owed
      BY <2>1 DEF CasInd, RemovalSeen
    <2>3. ASSUME NEW u \in CasThreads, thread'[u].op = "put", thread'[u].step # "start",
                 thread'[u].d = thread'[w].d, thread'[u].alone
          PROVE  FALSE
      <3>1. u # t
        BY <1>6, <1>7, <2>3
      <3>2. /\ thread[u].op = "put" /\ thread[u].alone /\ thread[u].d # d
            /\ thread'[u].step = thread[u].step /\ thread'[u].d = thread[u].d
        BY <1>4, <2>3, <3>1
      <3> QED
        BY <2>1, <2>3, <3>2 DEF CasInd, RemovalSeen
    <2> QED
      BY <1>2, <2>2, <2>3
  <1>12. ASSUME ~lineLost, ~coldCompact PROVE IndexBacked'
    <2>1. IndexBacked
      BY <1>12 DEF CasInd
    <2>2. ASSUME NEW e \in Digests, Appending(e) PROVE Appending(e)'
      <3>1. PICK u \in CasThreads : thread[u].op = "put" /\ thread[u].step = "line" /\ thread[u].d = e
        BY <2>2 DEF Appending, At
      <3>2. thread'[u].op = "put" /\ thread'[u].step = "line" /\ thread'[u].d = e
        BY <1>1, <1>3, <3>1 DEF PutState
      <3> QED
        BY <3>2 DEF Appending, At
    <2> QED
      BY <2>1, <2>2, BackedStays
  <1>13. ASSUME ~lineLost, ~coldCompact PROVE OwedPlaced'
    <2>1. OwedPlaced /\ owed \subseteq Digests
      BY <1>13 DEF CasInd, CasTypes
    <2> SUFFICES ASSUME NEW e \in owed' \ rolledBack
                 PROVE  blob'[e] # "none" /\ sidecar'[e] /\ LoadedIndex'[e] # 0
      BY DEF OwedPlaced
    <2>2. e \in Digests \ {d} /\ e \in owed \ rolledBack
      BY <1>2, <2>1
    <2>3. KeptFor(e) /\ (LoadedIndex[e] # 0 => LoadedIndex'[e] # 0)
      BY <2>2
    <2> QED
      BY <2>1, <2>2, <2>3 DEF OwedPlaced, KeptFor
  <1> QED
    BY <1>9, <1>10, <1>11, <1>12, <1>13 DEF CasInd

LEMMA GrowStep ==
  ASSUME CasInd, CasTypes', rolledBack \subseteq rolledBack',
         \A d \in Digests \ rolledBack' : KeptFor(d),
         \A u \in CasThreads : \/ thread'[u] = thread[u]
                               \/ thread'[u] = Idle
                               \/ /\ PutGood(u)'
                                  /\ thread'[u].alone => Untouched(thread'[u].d),
         \A d \in owed' \ owed : Untouched(d),
         \A d \in owed' \ owed : d \notin rolledBack' =>
           blob'[d] # "none" /\ sidecar'[d] /\ LoadedIndex'[d] # 0,
         ~lineLost' => ~lineLost /\ ~indexCut',
         ~lineLost' /\ ~coldCompact' =>
           /\ ~coldCompact
           /\ \A d \in Digests : LoadedIndex[d] # 0 => LoadedIndex'[d] # 0
           /\ \A d \in Digests : index'[d] # 0 => index[d] # 0 \/ lineOf[d] # 0 \/ Appending(d)'
           /\ \A d \in Digests : lineOf[d] # 0 => lineOf'[d] # 0
           /\ \A d \in Digests : Appending(d) => Appending(d)' \/ lineOf'[d] # 0
  PROVE  CasInd'
  <1>1. Stamped' /\ RemovalSeen' /\ AlonePlaced'
    BY CasGrows
  <1>2. ASSUME ~lineLost', ~coldCompact'
        PROVE  IndexBacked' /\ OwedPlaced'
    <2>1. IndexBacked /\ OwedPlaced
      BY <1>2 DEF CasInd
    <2>2. IndexBacked'
      BY <1>2, <2>1, BackedStays
    <2>3. OwedPlaced'
      BY <1>2, <2>1, OwedGrows
    <2> QED
      BY <2>2, <2>3
  <1> QED
    BY <1>1, <1>2 DEF CasInd

\* A put of one thread goes to its next step or ends.
LEMMA OneThread ==
  ASSUME CasTypes, NEW t \in CasThreads, NEW r, thread' = [thread EXCEPT ![t] = r]
  PROVE  thread'[t] = r /\ \A u \in CasThreads \ {t} : thread'[u] = thread[u]
  BY DEF CasTypes

LEMMA AppendingStays ==
  ASSUME NEW t \in CasThreads, ~At(t, "put", "line") \/ At(t, "put", "line")',
         At(t, "put", "line") => thread'[t].d = thread[t].d,
         \A u \in CasThreads \ {t} : thread'[u] = thread[u]
  PROVE  \A d \in Digests : Appending(d) => Appending(d)'
  <1> SUFFICES ASSUME NEW d \in Digests, NEW u \in CasThreads, At(u, "put", "line"), thread[u].d = d
               PROVE  At(u, "put", "line")' /\ thread'[u].d = d
    BY DEF Appending
  <1> QED
    BY DEF At

LEMMA NotRemoving ==
  ASSUME NEW d, ~Removing(d)
  PROVE  Untouched(d)
  BY DEF Removing, Untouched

----------------------------------------------------------------------------
(* Putting *)

LEMMA BeginPutKeeps ==
  ASSUME CasInd, NEW t \in CasThreads, NEW d \in Digests, BeginPut(t, d),
         ~At(t, "put", "line"),
         UNCHANGED <<blob, sidecar, lineOf, indexCut, coldCompact, lineLost, rolledBack, casClock>>
  PROVE  CasInd'
  <1>1. CasTypes /\ \A e \in Digests : LoadedIndex[e] = IF ~indexLoaded /\ lineOf[e] # 0
                                                     THEN lineOf[e] ELSE index[e]
    BY LoadedEntry DEF CasInd
  <1>2. CASE blob[d] # "none" /\ sidecar[d]
    <2>1. /\ index' = LoadedIndex /\ indexLoaded' = TRUE
          /\ thread' = [thread EXCEPT ![t] = Idle]
      BY <1>2 DEF BeginPut, GetLoads, Load
    <2>2. owed' = owed \/ (owed' = owed \cup {d} /\ Gets(d) /\ ~Removing(d))
      BY <1>2 DEF BeginPut
    <2>3. LoadedIndex \in [Digests -> 0..MaxClock]
      BY DEF LoadedIndex, CasInd, CasTypes
    <2>4. thread' \in [CasThreads -> {Idle} \cup PutState \cup RemoveState]
      BY <1>1, <2>1 DEF CasTypes
    <2>5. CasTypes'
      BY <1>1, <2>1, <2>2, <2>3, <2>4 DEF CasTypes
    <2>6. LoadedIndex' = LoadedIndex
      BY <2>1 DEF LoadedIndex
    <2>7. \A e \in Digests : KeptFor(e)
      BY <1>1, <2>1, CasAssumption DEF KeptFor, CasTypes
    <2>8. thread'[t] = Idle /\ \A u \in CasThreads \ {t} : thread'[u] = thread[u]
      BY <1>1, <2>1, OneThread
    <2>9. \A e \in Digests : Appending(e) => Appending(e)'
      BY <2>8, AppendingStays DEF At, Idle
    <2>10. \A e \in owed' \ owed : Untouched(e)
      BY <2>2, NotRemoving
    <2>11. \A e \in owed' \ owed : blob'[e] # "none" /\ sidecar'[e] /\ LoadedIndex'[e] # 0
      BY <2>2, <2>6 DEF Gets
    <2>12. \A e \in Digests : index'[e] # 0 => index[e] # 0 \/ lineOf[e] # 0
      BY <1>1, <2>1
    <2>13. ~lineLost' => ~lineLost /\ ~indexCut'
      BY DEF CasInd
    <2> QED
      BY <2>5, <2>6, <2>7, <2>8, <2>9, <2>10, <2>11, <2>12, <2>13, GrowStep
  <1>3. CASE ~(blob[d] # "none" /\ sidecar[d])
    <2>1. /\ thread' = [thread EXCEPT ![t] = PutAt(d, "blob", 0, ~Removing(d))]
          /\ UNCHANGED <<index, indexLoaded, owed>>
      BY <1>3 DEF BeginPut, memVars
    <2>a. PICK b \in BOOLEAN : b = ~Removing(d)
      OBVIOUS
    <2>b. b => ~Removing(d)
      BY <2>a
    <2>2. PICK r : r = PutAt(d, "blob", 0, b)
      OBVIOUS
    <2>c. r \in PutState /\ r.op = "put" /\ r.step = "blob" /\ r.d = d /\ r.alone = b
      BY <2>2, CasAssumption DEF PutAt, PutState, Steps
    <2>3. /\ r \in PutState /\ r.op = "put" /\ r.step = "blob" /\ r.d = d
          /\ r.alone => ~Removing(d)
      BY <2>b, <2>c
    <2>4. thread' = [thread EXCEPT ![t] = r]
      BY <2>1, <2>2, <2>a
    <2>5. thread' \in [CasThreads -> {Idle} \cup PutState \cup RemoveState]
      BY <1>1, <2>3, <2>4 DEF CasTypes
    <2>6. CasTypes' /\ LoadedIndex' = LoadedIndex
      BY <1>1, <2>1, <2>5 DEF CasTypes, LoadedIndex
    <2>7. thread'[t] = r /\ \A u \in CasThreads \ {t} : thread'[u] = thread[u]
      BY <1>1, <2>4, OneThread
    <2>8. PutGood(t)'
      BY <2>3, <2>7 DEF PutGood
    <2>9. thread'[t].alone => Untouched(thread'[t].d)
      BY <2>3, <2>7, NotRemoving
    <2>10. \A e \in Digests : Appending(e) => Appending(e)'
      BY <2>7, AppendingStays
    <2>11. ~lineLost' => ~lineLost /\ ~indexCut'
      BY DEF CasInd
    <2>12. \A e \in Digests : KeptFor(e)
      BY <2>1 DEF KeptFor
    <2> QED
      BY <2>1, <2>6, <2>7, <2>8, <2>9, <2>10, <2>11, <2>12, GrowStep
  <1> QED
    BY <1>2, <1>3

LEMMA PutKeeps ==
  ASSUME CasInd, NEW t \in CasThreads, NEW d \in Digests, Put(t, d)
  PROVE  CasInd'
  <1>1. UNCHANGED <<blob, sidecar, lineOf, indexCut, coldCompact, lineLost, rolledBack, casClock>>
    BY DEF Put, diskVars, CasStarts
  <1>2. ~At(t, "put", "line") /\ BeginPut(t, d)
    BY DEF Put, At
  <1> QED
    BY <1>1, <1>2, BeginPutKeeps

LEMMA RepairPutKeeps ==
  ASSUME CasInd, NEW t \in CasThreads, RepairPut(t)
  PROVE  CasInd'
  <1>1. UNCHANGED <<blob, sidecar, lineOf, indexCut, coldCompact, lineLost, rolledBack, casClock>>
    BY DEF RepairPut, diskVars, CasGoesOn
  <1>2. ~At(t, "put", "line") /\ BeginPut(t, thread[t].d) /\ thread[t].op = "put"
    BY DEF RepairPut, At
  <1>3. thread[t].d \in Digests
    BY <1>2, ThreadShapes DEF CasInd, PutState
  <1>4. PICK d \in Digests : d = thread[t].d
    BY <1>3
  <1>5. BeginPut(t, d)
    BY <1>2, <1>4
  <1> QED
    BY <1>1, <1>2, <1>5, BeginPutKeeps

\* What the step of a put works on.
LEMMA PutAtStep ==
  ASSUME CasInd, NEW t \in CasThreads, thread[t].op = "put"
  PROVE  /\ CasTypes /\ thread[t] \in PutState /\ thread[t].d \in Digests
         /\ thread[t].ts \in 0..MaxClock /\ thread[t].alone \in BOOLEAN
         /\ thread[t].step \in {"meta", "index", "line"} => thread[t].ts # 0
         /\ thread[t].alone /\ thread[t].step # "start" => Untouched(thread[t].d)
         /\ thread[t].alone /\ thread[t].d \notin rolledBack =>
              /\ thread[t].step \in {"meta", "index", "line"} => blob[thread[t].d] # "none"
              /\ thread[t].step \in {"index", "line"} => sidecar[thread[t].d]
              /\ thread[t].step = "line" => index[thread[t].d] # 0
  <1>1. CasTypes /\ thread[t] \in PutState
    BY ThreadShapes DEF CasInd
  <1>2. thread[t].step \in {"meta", "index", "line"} => thread[t].ts # 0
    BY DEF CasInd, Stamped
  <1>3. thread[t].alone /\ thread[t].step # "start" => Untouched(thread[t].d)
    BY DEF CasInd, RemovalSeen, Untouched
  <1>4. thread[t].alone /\ thread[t].d \notin rolledBack =>
              /\ thread[t].step \in {"meta", "index", "line"} => blob[thread[t].d] # "none"
              /\ thread[t].step \in {"index", "line"} => sidecar[thread[t].d]
              /\ thread[t].step = "line" => index[thread[t].d] # 0
    BY DEF CasInd, AlonePlaced
  <1> QED
    BY <1>1, <1>2, <1>3, <1>4 DEF PutState

\* The next step of a put keeps digest and alone.
NextStep(r, step, ts) == [op |-> "put", d |-> r.d, step |-> step, ts |-> ts, alone |-> r.alone]

LEMMA NextStepIs ==
  ASSUME NEW r \in PutState, NEW step \in Steps, NEW ts \in 0..MaxClock
  PROVE  /\ NextStep(r, step, ts) \in PutState
         /\ [r EXCEPT !.step = step] = NextStep(r, step, r.ts)
         /\ [r EXCEPT !.step = step, !.ts = ts] = NextStep(r, step, ts)
  <1>1. r = [op |-> "put", d |-> r.d, step |-> r.step, ts |-> r.ts, alone |-> r.alone]
    BY DEF PutState
  <1>2. r.d \in Digests /\ r.alone \in BOOLEAN
    BY DEF PutState
  <1>3. NextStep(r, step, ts) \in PutState
    BY <1>2 DEF NextStep, PutState
  <1>4. [r EXCEPT !.step = step] = NextStep(r, step, r.ts)
    BY <1>1 DEF NextStep
  <1>5. [r EXCEPT !.step = step, !.ts = ts] = NextStep(r, step, ts)
    <2>1. [r EXCEPT !.step = step, !.ts = ts] = [[r EXCEPT !.step = step] EXCEPT !.ts = ts]
      OBVIOUS
    <2>2. [NextStep(r, step, r.ts) EXCEPT !.ts = ts] = NextStep(r, step, ts)
      BY DEF NextStep
    <2> QED
      BY <1>4, <2>1, <2>2
  <1> QED
    BY <1>3, <1>4, <1>5

\* A thread that puts goes from one of the first steps to the next, and the
\* blob, the sidecar or the entry of its digest appears.
LEMMA PutAdvances ==
  ASSUME CasInd, NEW t \in CasThreads, At(t, "put", "blob") \/ At(t, "put", "meta") \/ At(t, "put", "index"),
         NEW step \in {"meta", "index", "line"}, NEW ts \in 0..MaxClock,
         thread' = [thread EXCEPT ![t] = NextStep(thread[t], step, ts)],
         ts # 0,
         blob' \in [Digests -> {"none", "ok", "bad"}], sidecar' \in [Digests -> BOOLEAN],
         index' \in [Digests -> 0..MaxClock],
         \A d \in Digests : KeptFor(d),
         \A d \in Digests \ {thread[t].d} : index'[d] = index[d],
         index'[thread[t].d] = index[thread[t].d] \/ step = "line",
         UNCHANGED <<lineOf, indexCut, indexLoaded, casClock, owed, coldCompact, lineLost, rolledBack>>,
         thread[t].alone /\ thread[t].d \notin rolledBack =>
            /\ blob'[thread[t].d] # "none"
            /\ step \in {"index", "line"} => sidecar'[thread[t].d]
            /\ step = "line" => index'[thread[t].d] # 0
  PROVE  CasInd'
  <1>1. thread[t].op = "put" /\ thread[t].step # "start" /\ ~At(t, "put", "line")
    BY DEF At
  <1>2. /\ CasTypes /\ thread[t] \in PutState /\ thread[t].d \in Digests
        /\ thread[t].alone => Untouched(thread[t].d)
    BY <1>1, PutAtStep
  <1>3. PICK r : r = NextStep(thread[t], step, ts)
    OBVIOUS
  <1>4. r \in PutState
    BY <1>2, <1>3, NextStepIs DEF Steps
  <1>5. r.op = "put" /\ r.d = thread[t].d /\ r.step = step /\ r.ts = ts /\ r.alone = thread[t].alone
    BY <1>3 DEF NextStep
  <1>6. thread'[t] = r /\ \A u \in CasThreads \ {t} : thread'[u] = thread[u]
    BY <1>2, <1>3, OneThread
  <1>7. thread' \in [CasThreads -> {Idle} \cup PutState \cup RemoveState]
    BY <1>2, <1>3, <1>4 DEF CasTypes
  <1>8. CasTypes'
    BY <1>2, <1>7 DEF CasTypes
  <1>9. PutGood(t)' /\ (thread'[t].alone => Untouched(thread'[t].d))
    BY <1>2, <1>4, <1>5, <1>6 DEF PutGood
  <1>10. \A d \in Digests : Appending(d) => Appending(d)'
    BY <1>1, <1>6, AppendingStays
  <1>11. \A d \in Digests : index'[d] # 0 => index[d] # 0 \/ Appending(d)'
    BY <1>5, <1>6 DEF Appending, At
  <1>12. \A d \in Digests : LoadedIndex[d] # 0 => LoadedIndex'[d] # 0
    <2>1. \A d \in Digests : LoadedIndex[d] = IF ~indexLoaded /\ lineOf[d] # 0
                                              THEN lineOf[d] ELSE index[d]
      BY <1>2, LoadedEntry
    <2>2. \A d \in Digests : LoadedIndex'[d] = IF ~indexLoaded /\ lineOf[d] # 0
                                               THEN lineOf[d] ELSE index'[d]
      BY <1>8 DEF LoadedIndex, CasTypes
    <2> QED
      BY <2>1, <2>2 DEF KeptFor
  <1>13. ~lineLost' => ~lineLost /\ ~indexCut'
    BY DEF CasInd
  <1> QED
    BY <1>6, <1>8, <1>9, <1>10, <1>11, <1>12, <1>13, GrowStep

LEMMA PutBlobKeeps ==
  ASSUME CasInd, NEW t \in CasThreads, PutBlob(t)
  PROVE  CasInd'
  <1>1. thread[t].op = "put" /\ At(t, "put", "blob")
    BY DEF PutBlob, At
  <1>2. CasTypes /\ thread[t] \in PutState /\ thread[t].d \in Digests
    BY <1>1, PutAtStep
  <1>3. casClock \in 0..MaxClock /\ casClock # 0 /\ "meta" \in Steps
    BY <1>2, CasAssumption DEF CasTypes, Steps
  <1>4. thread' = [thread EXCEPT ![t] = [thread[t] EXCEPT !.step = "meta", !.ts = casClock]]
    BY <1>2 DEF PutBlob, CasTypes
  <1>a. [thread[t] EXCEPT !.step = "meta", !.ts = casClock] = NextStep(thread[t], "meta", casClock)
    BY <1>2, <1>3, NextStepIs
  <1>5. thread' = [thread EXCEPT ![t] = NextStep(thread[t], "meta", casClock)]
    BY <1>4, <1>a
  <1>6. /\ blob' = [blob EXCEPT ![thread[t].d] = "ok"]
        /\ UNCHANGED <<sidecar, index, lineOf, indexCut, indexLoaded, casClock, owed, coldCompact,
                       lineLost, rolledBack>>
    BY DEF PutBlob, memVars, casHist, CasGoesOn
  <1>7. /\ blob' \in [Digests -> {"none", "ok", "bad"}] /\ blob'[thread[t].d] # "none"
        /\ \A d \in Digests : KeptFor(d)
    BY <1>2, <1>6 DEF CasTypes, KeptFor
  <1>8. sidecar' \in [Digests -> BOOLEAN] /\ index' \in [Digests -> 0..MaxClock]
    BY <1>2, <1>6 DEF CasTypes
  <1> QED
    BY <1>1, <1>3, <1>5, <1>6, <1>7, <1>8, PutAdvances

LEMMA PutMetaKeeps ==
  ASSUME CasInd, NEW t \in CasThreads, PutMeta(t)
  PROVE  CasInd'
  <1>1. thread[t].op = "put" /\ At(t, "put", "meta") /\ thread[t].step = "meta"
    BY DEF PutMeta, At
  <1>2. CasTypes /\ thread[t] \in PutState /\ thread[t].d \in Digests
    BY <1>1, PutAtStep
  <1>3. thread[t].ts \in 0..MaxClock /\ thread[t].ts # 0 /\ "index" \in Steps
    BY <1>1, PutAtStep DEF Steps
  <1>4. thread' = [thread EXCEPT ![t] = [thread[t] EXCEPT !.step = "index"]]
    BY <1>2 DEF PutMeta, CasTypes
  <1>a. [thread[t] EXCEPT !.step = "index"] = NextStep(thread[t], "index", thread[t].ts)
    BY <1>2, <1>3, NextStepIs
  <1>5. thread' = [thread EXCEPT ![t] = NextStep(thread[t], "index", thread[t].ts)]
    BY <1>4, <1>a
  <1>6. /\ sidecar' = [sidecar EXCEPT ![thread[t].d] = TRUE]
        /\ UNCHANGED <<blob, index, lineOf, indexCut, indexLoaded, casClock, owed, coldCompact,
                       lineLost, rolledBack>>
    BY DEF PutMeta, memVars, casHist, CasGoesOn
  <1>7. /\ sidecar' \in [Digests -> BOOLEAN] /\ sidecar'[thread[t].d]
        /\ \A d \in Digests : KeptFor(d)
    BY <1>2, <1>6 DEF CasTypes, KeptFor
  <1>8. blob' \in [Digests -> {"none", "ok", "bad"}] /\ index' \in [Digests -> 0..MaxClock]
    BY <1>2, <1>6 DEF CasTypes
  <1>9. thread[t].alone /\ thread[t].d \notin rolledBack => blob'[thread[t].d] # "none"
    BY <1>1, <1>6, PutAtStep
  <1> QED
    BY <1>1, <1>3, <1>5, <1>6, <1>7, <1>8, <1>9, PutAdvances

LEMMA PutIndexKeeps ==
  ASSUME CasInd, NEW t \in CasThreads, PutIndex(t)
  PROVE  CasInd'
  <1>1. thread[t].op = "put" /\ At(t, "put", "index") /\ thread[t].step = "index"
    BY DEF PutIndex, At
  <1>2. CasTypes /\ thread[t] \in PutState /\ thread[t].d \in Digests
    BY <1>1, PutAtStep
  <1>3. thread[t].ts \in 0..MaxClock /\ thread[t].ts # 0 /\ "line" \in Steps
    BY <1>1, PutAtStep DEF Steps
  <1>4. thread' = [thread EXCEPT ![t] = [thread[t] EXCEPT !.step = "line"]]
    BY <1>2 DEF PutIndex, CasTypes
  <1>a. [thread[t] EXCEPT !.step = "line"] = NextStep(thread[t], "line", thread[t].ts)
    BY <1>2, <1>3, NextStepIs
  <1>5. thread' = [thread EXCEPT ![t] = NextStep(thread[t], "line", thread[t].ts)]
    BY <1>4, <1>a
  <1>6. /\ index' = [index EXCEPT ![thread[t].d] = thread[t].ts]
        /\ UNCHANGED <<blob, sidecar, lineOf, indexCut, indexLoaded, casClock, owed, coldCompact,
                       lineLost, rolledBack>>
    BY DEF PutIndex, diskVars, casHist, CasGoesOn
  <1>7. /\ index' \in [Digests -> 0..MaxClock] /\ index'[thread[t].d] # 0
        /\ \A d \in Digests \ {thread[t].d} : index'[d] = index[d]
        /\ \A d \in Digests : KeptFor(d)
    BY <1>2, <1>3, <1>6 DEF CasTypes, KeptFor
  <1>8. blob' \in [Digests -> {"none", "ok", "bad"}] /\ sidecar' \in [Digests -> BOOLEAN]
    BY <1>2, <1>6 DEF CasTypes
  <1>9. thread[t].alone /\ thread[t].d \notin rolledBack =>
          blob'[thread[t].d] # "none" /\ sidecar'[thread[t].d]
    BY <1>1, <1>6, PutAtStep
  <1> QED
    BY <1>1, <1>3, <1>5, <1>6, <1>7, <1>8, <1>9, PutAdvances

LEMMA PutFailsKeeps ==
  ASSUME CasInd, NEW t \in CasThreads, PutBlobFails(t) \/ PutMetaFails(t)
  PROVE  CasInd'
  <1>1. thread[t].op = "put" /\ thread[t].step # "line"
    BY DEF PutBlobFails, PutMetaFails, At
  <1>2. CasTypes /\ thread[t].d \in Digests
    BY <1>1, PutAtStep
  <1>3. /\ thread' = [thread EXCEPT ![t] = Idle]
        /\ UNCHANGED <<index, lineOf, indexCut, indexLoaded, casClock, owed, coldCompact, lineLost>>
    BY DEF PutBlobFails, PutMetaFails, memVars, casHist, CasGoesOn
  <1>4. /\ blob' \in [Digests -> {"none", "ok", "bad"}] /\ sidecar' \in [Digests -> BOOLEAN]
        /\ rolledBack \subseteq rolledBack' /\ rolledBack' \subseteq Digests
        /\ \A d \in Digests \ rolledBack' : KeptFor(d)
    <2>1. CASE PutBlobFails(t)
      <3>1. sidecar' = sidecar /\ rolledBack' = rolledBack
        BY <2>1 DEF PutBlobFails, casHist
      <3>2. blob' = blob \/ blob' = [blob EXCEPT ![thread[t].d] = "ok"]
        BY <2>1 DEF PutBlobFails
      <3> QED
        BY <1>2, <1>3, <3>1, <3>2 DEF CasTypes, KeptFor
    <2>2. CASE PutMetaFails(t)
      <3>1. /\ blob' = [blob EXCEPT ![thread[t].d] = "none"]
            /\ rolledBack' = rolledBack \cup {thread[t].d}
        BY <2>2 DEF PutMetaFails
      <3>2. sidecar' = sidecar \/ sidecar' = [sidecar EXCEPT ![thread[t].d] = TRUE]
        BY <2>2 DEF PutMetaFails
      <3> QED
        BY <1>2, <1>3, <3>1, <3>2 DEF CasTypes, KeptFor
    <2> QED
      BY <2>1, <2>2
  <1>5. thread' \in [CasThreads -> {Idle} \cup PutState \cup RemoveState]
    BY <1>2, <1>3 DEF CasTypes
  <1>6. CasTypes' /\ LoadedIndex' = LoadedIndex
    BY <1>2, <1>3, <1>4, <1>5 DEF CasTypes, LoadedIndex
  <1>7. thread'[t] = Idle /\ \A u \in CasThreads \ {t} : thread'[u] = thread[u]
    BY <1>2, <1>3, OneThread
  <1>8. \A d \in Digests : Appending(d) => Appending(d)'
    BY <1>1, <1>7, AppendingStays DEF At
  <1>9. ~lineLost' => ~lineLost /\ ~indexCut'
    BY <1>3 DEF CasInd
  <1> QED
    BY <1>3, <1>4, <1>6, <1>7, <1>8, <1>9, GrowStep

\* save_index_entry, and save_index_entry that fails.
LEMMA PutLineKeeps ==
  ASSUME CasInd, NEW t \in CasThreads, PutLine(t) \/ PutLineFails(t)
  PROVE  CasInd'
  <1>1. thread[t].op = "put" /\ thread[t].step = "line"
    BY DEF PutLine, PutLineFails, At
  <1>2. /\ CasTypes /\ thread[t].d \in Digests /\ thread[t].ts \in 0..MaxClock /\ thread[t].ts # 0
        /\ thread[t].alone /\ thread[t].d \notin rolledBack =>
             blob[thread[t].d] # "none" /\ sidecar[thread[t].d] /\ index[thread[t].d] # 0
    BY <1>1, PutAtStep
  <1>3. /\ thread' = [thread EXCEPT ![t] = Idle]
        /\ UNCHANGED <<blob, sidecar, index, indexLoaded, casClock, coldCompact, rolledBack>>
    BY DEF PutLine, PutLineFails, Acknowledge, memVars, CasGoesOn
  <1>4. \/ owed' = owed
        \/ owed' = owed \cup {thread[t].d} /\ thread[t].alone /\ ~Removing(thread[t].d)
    BY DEF PutLine, PutLineFails, Acknowledge
  <1>5. /\ lineOf' \in [Digests -> 0..MaxClock] /\ indexCut' \in BOOLEAN /\ lineLost' \in BOOLEAN
        /\ \A d \in Digests : lineOf[d] # 0 => lineOf'[d] # 0
        /\ ~lineLost' => ~lineLost /\ ~indexCut' /\ lineOf'[thread[t].d] # 0
    <2>1. CASE PutLine(t)
      <3>1. lineOf' = (IF indexCut THEN lineOf ELSE [lineOf EXCEPT ![thread[t].d] = thread[t].ts])
        BY <2>1 DEF PutLine
      <3>2. indexCut' = FALSE /\ lineLost' = lineLost
        BY <2>1 DEF PutLine
      <3>3. ~lineLost => ~indexCut
        BY DEF CasInd
      <3>4. /\ lineOf' \in [Digests -> 0..MaxClock]
            /\ \A d \in Digests : lineOf[d] # 0 => lineOf'[d] # 0
            /\ ~indexCut => lineOf'[thread[t].d] # 0
        BY <1>2, <3>1 DEF CasTypes
      <3>5. lineLost' \in BOOLEAN /\ indexCut' \in BOOLEAN
        BY <1>2, <3>2 DEF CasTypes
      <3> QED
        BY <3>2, <3>3, <3>4, <3>5
    <2>2. CASE PutLineFails(t)
      <3>1. lineOf' = lineOf /\ lineLost' = TRUE /\ (indexCut' = indexCut \/ indexCut' = TRUE)
        BY <2>2 DEF PutLineFails
      <3>2. indexCut' \in BOOLEAN
        BY <1>2, <3>1 DEF CasTypes
      <3> QED
        BY <1>2, <3>1, <3>2 DEF CasTypes
    <2> QED
      BY <2>1, <2>2
  <1>6. thread' \in [CasThreads -> {Idle} \cup PutState \cup RemoveState]
    BY <1>2, <1>3 DEF CasTypes
  <1>7. CasTypes'
    BY <1>2, <1>3, <1>4, <1>5, <1>6 DEF CasTypes
  <1>8. /\ \A d \in Digests : LoadedIndex[d] = IF ~indexLoaded /\ lineOf[d] # 0
                                               THEN lineOf[d] ELSE index[d]
        /\ \A d \in Digests : LoadedIndex'[d] = IF ~indexLoaded /\ lineOf'[d] # 0
                                                THEN lineOf'[d] ELSE index[d]
    BY <1>2, <1>3, <1>7, LoadedEntry DEF LoadedIndex, CasTypes
  <1>9. thread'[t] = Idle /\ \A u \in CasThreads \ {t} : thread'[u] = thread[u]
    BY <1>2, <1>3, OneThread
  <1>10. \A d \in Digests : d # thread[t].d /\ Appending(d) => Appending(d)'
    BY <1>9 DEF Appending, At
  <1>11. \A d \in owed' \ owed : Untouched(d)
    BY <1>4, NotRemoving
  <1>12. \A d \in owed' \ owed : d \notin rolledBack' =>
           blob'[d] # "none" /\ sidecar'[d] /\ LoadedIndex'[d] # 0
    BY <1>2, <1>3, <1>4, <1>8
  <1>13. \A d \in Digests : KeptFor(d)
    BY <1>3 DEF KeptFor
  <1>14. \A d \in Digests : LoadedIndex[d] # 0 => LoadedIndex'[d] # 0
    BY <1>5, <1>8
  <1>15. ~lineLost' => \A d \in Digests : Appending(d) => Appending(d)' \/ lineOf'[d] # 0
    BY <1>5, <1>10
  <1>16. \A d \in Digests : index'[d] # 0 => index[d] # 0
    BY <1>3
  <1>17. coldCompact' = coldCompact /\ rolledBack' = rolledBack
    BY <1>3
  <1> QED
    BY <1>5, <1>7, <1>9, <1>11, <1>12, <1>13, <1>14, <1>15, <1>16, <1>17, GrowStep

----------------------------------------------------------------------------
(* Removing *)

\* The types after a removal's step.
LEMMA RemovalTypes ==
  ASSUME CasTypes, NEW t \in CasThreads, NEW d \in Digests, NEW next, RemovalOf(t, d, next),
         next \in {Idle} \cup PutState \cup RemoveState
  PROVE  /\ thread' \in [CasThreads -> {Idle} \cup PutState \cup RemoveState]
         /\ owed' \subseteq Digests
  <1>1. \A r \in PutState : [r EXCEPT !.alone = FALSE] \in PutState
    BY DEF PutState
  <1>2. \A u \in CasThreads : thread[u].op = "put" => thread[u] \in PutState
    BY ThreadShapes
  <1>3. \A u \in CasThreads : thread[u] \in {Idle} \cup PutState \cup RemoveState
    BY DEF CasTypes
  <1>4. thread' = [u \in CasThreads |->
                 IF u = t THEN next
                 ELSE IF thread[u].op = "put" /\ thread[u].d = d
                 THEN [thread[u] EXCEPT !.alone = FALSE] ELSE thread[u]]
    BY DEF RemovalOf
  <1>5. \A u \in CasThreads : thread'[u] \in {Idle} \cup PutState \cup RemoveState
    BY <1>1, <1>2, <1>3, <1>4
  <1>6. owed' \subseteq Digests
    BY DEF RemovalOf, CasTypes
  <1> QED
    BY <1>4, <1>5, <1>6

\* Remove, prune and repair begin: nothing has gone yet, the index may be loaded.
LEMMA RemovalBegins ==
  ASSUME CasInd, NEW t \in CasThreads, NEW d \in Digests, NEW todo \in SUBSET Digests,
         NEW again \in BOOLEAN, thread[t].op = "idle",
         RemovalOf(t, d, RemoveAt(d, "blob", todo, again)),
         Load \/ UNCHANGED memVars,
         UNCHANGED <<blob, sidecar, lineOf, indexCut, casClock, coldCompact, lineLost, rolledBack>>
  PROVE  CasInd'
  <1>1. CasTypes /\ \A e \in Digests : LoadedIndex[e] = IF ~indexLoaded /\ lineOf[e] # 0
                                                     THEN lineOf[e] ELSE index[e]
    BY LoadedEntry DEF CasInd
  <1>2. PICK next : next = RemoveAt(d, "blob", todo, again)
    OBVIOUS
  <1>3. next \in RemoveState /\ next.op = "remove" /\ next.step = "blob"
    BY <1>2 DEF RemoveAt, RemoveState
  <1>4. RemovalOf(t, d, next)
    BY <1>2
  <1>5. thread' \in [CasThreads -> {Idle} \cup PutState \cup RemoveState] /\ owed' \subseteq Digests
    BY <1>1, <1>3, <1>4, RemovalTypes
  <1>6. LoadedIndex \in [Digests -> 0..MaxClock]
    BY <1>1 DEF LoadedIndex, CasTypes
  <1>7. /\ index' \in [Digests -> 0..MaxClock] /\ indexLoaded' \in BOOLEAN
        /\ \A e \in Digests : LoadedIndex'[e] = LoadedIndex[e]
        /\ \A e \in Digests : index[e] # 0 => index'[e] # 0
        /\ \A e \in Digests : index'[e] # 0 => index[e] # 0 \/ lineOf[e] # 0
    <2>1. CASE Load
      <3>1. index' = LoadedIndex /\ indexLoaded' = TRUE
        BY <2>1 DEF Load
      <3>2. LoadedIndex' = LoadedIndex
        BY <3>1 DEF LoadedIndex
      <3> QED
        BY <1>1, <1>6, <3>1, <3>2
    <2>2. CASE UNCHANGED memVars
      <3>1. index' = index /\ indexLoaded' = indexLoaded
        BY <2>2 DEF memVars
      <3>2. LoadedIndex' = LoadedIndex
        BY <3>1 DEF LoadedIndex
      <3> QED
        BY <1>1, <3>1, <3>2 DEF CasTypes
    <2> QED
      BY <2>1, <2>2
  <1>8. CasTypes'
    BY <1>1, <1>5, <1>7 DEF CasTypes
  <1>9. \A e \in Digests : KeptFor(e)
    BY <1>7 DEF KeptFor
  <1> QED
    BY <1>3, <1>4, <1>7, <1>8, <1>9, CasShrinks

LEMMA RemoveKeeps ==
  ASSUME CasInd, NEW t \in CasThreads, NEW d \in Digests, Remove(t, d)
  PROVE  CasInd'
  <1>1. /\ thread[t].op = "idle" /\ RemovalOf(t, d, RemoveAt(d, "blob", {}, FALSE))
        /\ UNCHANGED memVars
        /\ UNCHANGED <<blob, sidecar, lineOf, indexCut, casClock, coldCompact, lineLost, rolledBack>>
    BY DEF Remove, CasStarts, diskVars
  <1> QED
    BY <1>1, RemovalBegins

LEMMA RepairKeeps ==
  ASSUME CasInd, NEW t \in CasThreads, NEW d \in Digests, Repair(t, d)
  PROVE  CasInd'
  <1>1. /\ thread[t].op = "idle" /\ RemovalOf(t, d, RemoveAt(d, "blob", {}, TRUE))
        /\ Load \/ UNCHANGED memVars
        /\ UNCHANGED <<blob, sidecar, lineOf, indexCut, casClock, coldCompact, lineLost, rolledBack>>
    BY DEF Repair, CasStarts, diskVars, GetLoads
  <1> QED
    BY <1>1, RemovalBegins

LEMMA PruneKeeps ==
  ASSUME CasInd, NEW t \in CasThreads, Prune(t)
  PROVE  CasInd'
  <1>1. PICK old : old = {d \in Scan : LoadedIndex[d] < casClock}
    OBVIOUS
  <1>2. /\ thread[t].op = "idle"
        /\ Load \/ UNCHANGED memVars
        /\ UNCHANGED <<blob, sidecar, lineOf, indexCut, casClock, coldCompact, lineLost, rolledBack>>
    BY DEF Prune, CasStarts, diskVars
  <1>3. PICK d \in old : RemovalOf(t, d, RemoveAt(d, "blob", old \ {d}, FALSE))
    BY <1>1 DEF Prune
  <1>4. d \in Digests /\ old \ {d} \in SUBSET Digests
    BY <1>1 DEF Scan
  <1> QED
    BY <1>2, <1>3, <1>4, RemovalBegins

\* One part of d goes, and the thread moves on.
LEMMA RemovalGoesOn ==
  ASSUME CasInd, NEW t \in CasThreads, NEW d \in Digests, NEW next,
         thread[t].op = "remove", RemovalOf(t, d, next),
         \/ next = Idle
         \/ next \in PutState /\ next.step = "start"
         \/ next \in RemoveState /\ (next.step = "blob" \/ next.d = d),
         \/ blob' = [blob EXCEPT ![d] = "none"] /\ sidecar' = sidecar /\ index' = index
         \/ blob' = blob /\ sidecar' = [sidecar EXCEPT ![d] = FALSE] /\ index' = index
         \/ blob' = blob /\ sidecar' = sidecar /\ index' = [index EXCEPT ![d] = 0],
         UNCHANGED <<lineOf, indexCut, indexLoaded, casClock, coldCompact, lineLost, rolledBack>>
  PROVE  CasInd'
  <1>1. CasTypes /\ \A e \in Digests : LoadedIndex[e] = IF ~indexLoaded /\ lineOf[e] # 0
                                                     THEN lineOf[e] ELSE index[e]
    BY LoadedEntry DEF CasInd
  <1>2. thread' \in [CasThreads -> {Idle} \cup PutState \cup RemoveState] /\ owed' \subseteq Digests
    BY <1>1, RemovalTypes
  <1>3. /\ blob' \in [Digests -> {"none", "ok", "bad"}] /\ sidecar' \in [Digests -> BOOLEAN]
        /\ index' \in [Digests -> 0..MaxClock]
        /\ \A e \in Digests \ {d} : blob'[e] = blob[e] /\ sidecar'[e] = sidecar[e] /\ index'[e] = index[e]
        /\ \A e \in Digests : index'[e] # 0 => index[e] # 0
    <2>1. CASE blob' = [blob EXCEPT ![d] = "none"] /\ sidecar' = sidecar /\ index' = index
      BY <1>1, <2>1 DEF CasTypes
    <2>2. CASE blob' = blob /\ sidecar' = [sidecar EXCEPT ![d] = FALSE] /\ index' = index
      BY <1>1, <2>2 DEF CasTypes
    <2>3. CASE blob' = blob /\ sidecar' = sidecar /\ index' = [index EXCEPT ![d] = 0]
      BY <1>1, <2>3, CasAssumption DEF CasTypes
    <2> QED
      BY <2>1, <2>2, <2>3
  <1>4. CasTypes'
    BY <1>1, <1>2, <1>3 DEF CasTypes
  <1>5. \A e \in Digests : LoadedIndex'[e] = IF ~indexLoaded /\ lineOf[e] # 0
                                             THEN lineOf[e] ELSE index'[e]
    BY <1>4 DEF LoadedIndex, CasTypes
  <1>6. \A e \in Digests \ {d} : KeptFor(e) /\ (LoadedIndex[e] # 0 => LoadedIndex'[e] # 0)
    BY <1>1, <1>3, <1>5 DEF KeptFor
  <1>7. \/ next = Idle
        \/ next.op = "put" /\ next.step = "start"
        \/ next.op = "remove" /\ (next.step = "blob" \/ next.d = d)
    BY DEF PutState, RemoveState
  <1> QED
    BY <1>3, <1>4, <1>6, <1>7, CasShrinks

LEMMA RemoveStepKeeps ==
  ASSUME CasInd, NEW t \in CasThreads, RemoveBlob(t) \/ RemoveMeta(t)
  PROVE  CasInd'
  <1>1. thread[t].op = "remove"
    BY DEF RemoveBlob, RemoveMeta, At
  <1>2. thread[t] \in RemoveState
    BY <1>1, ThreadShapes DEF CasInd
  <1>3. PICK d \in Digests : d = thread[t].d
    BY <1>2 DEF RemoveState
  <1>4. PICK step \in {"meta", "index"} : RemovalOf(t, d, [thread[t] EXCEPT !.step = step])
    BY <1>3 DEF RemoveBlob, RemoveMeta
  <1>5. PICK next : next = [thread[t] EXCEPT !.step = step]
    OBVIOUS
  <1>6. next \in RemoveState /\ next.d = d
    BY <1>2, <1>3, <1>5 DEF RemoveState
  <1>7. \/ blob' = [blob EXCEPT ![d] = "none"] /\ sidecar' = sidecar /\ index' = index
        \/ blob' = blob /\ sidecar' = [sidecar EXCEPT ![d] = FALSE] /\ index' = index
    BY <1>3 DEF RemoveBlob, RemoveMeta, memVars
  <1>8. UNCHANGED <<lineOf, indexCut, indexLoaded, casClock, coldCompact, lineLost, rolledBack>>
    BY DEF RemoveBlob, RemoveMeta, memVars, CasGoesOn
  <1> QED
    BY <1>1, <1>4, <1>5, <1>6, <1>7, <1>8, RemovalGoesOn

LEMMA RemoveIndexKeeps ==
  ASSUME CasInd, NEW t \in CasThreads, RemoveIndex(t)
  PROVE  CasInd'
  <1>1. thread[t].op = "remove"
    BY DEF RemoveIndex, At
  <1>2. thread[t] \in RemoveState
    BY <1>1, ThreadShapes DEF CasInd
  <1>3. PICK d \in Digests : d = thread[t].d
    BY <1>2 DEF RemoveState
  <1>4. PICK todo \in SUBSET Digests : todo = thread[t].todo
    BY <1>2 DEF RemoveState
  <1>5. index' = [index EXCEPT ![d] = 0]
    BY <1>3 DEF RemoveIndex
  <1>6. UNCHANGED <<blob, sidecar, lineOf, indexCut, indexLoaded, casClock, coldCompact, lineLost,
                    rolledBack>>
    BY DEF RemoveIndex, diskVars, CasGoesOn
  <1>7. \/ RemovalOf(t, d, PutAt(d, "start", 0, TRUE))
        \/ RemovalOf(t, d, Idle)
        \/ \E e \in todo : RemovalOf(t, d, RemoveAt(e, "blob", todo \ {e}, FALSE))
    BY <1>3, <1>4 DEF RemoveIndex
  <1>8. PutAt(d, "start", 0, TRUE) \in PutState /\ PutAt(d, "start", 0, TRUE).step = "start"
    BY CasAssumption DEF PutAt, PutState, Steps
  <1>9. \A e \in todo : /\ RemoveAt(e, "blob", todo \ {e}, FALSE) \in RemoveState
                        /\ RemoveAt(e, "blob", todo \ {e}, FALSE).step = "blob"
    BY DEF RemoveAt, RemoveState
  <1>10. PICK next : /\ RemovalOf(t, d, next)
                     /\ \/ next = Idle
                        \/ next \in PutState /\ next.step = "start"
                        \/ next \in RemoveState /\ next.step = "blob"
    BY <1>7, <1>8, <1>9
  <1> QED
    BY <1>1, <1>5, <1>6, <1>10, RemovalGoesOn

----------------------------------------------------------------------------
(* The rest *)

\* Steps that leave the threads and what is owed alone.
LEMMA QuietKeeps ==
  ASSUME CasInd, LoadIndex \/ CasTick \/ (\E d \in Digests : Damage(d)) \/ UNCHANGED casVars
  PROVE  CasInd'
  <1>1. CasTypes /\ \A e \in Digests : LoadedIndex[e] = IF ~indexLoaded /\ lineOf[e] # 0
                                                     THEN lineOf[e] ELSE index[e]
    BY LoadedEntry DEF CasInd
  <1>2. UNCHANGED <<sidecar, lineOf, indexCut, thread, owed, coldCompact, lineLost, rolledBack>>
    BY DEF LoadIndex, CasTick, Damage, casVars, diskVars, memVars, casHist
  <1>3. casClock' = casClock \/ (casClock < MaxClock /\ casClock' = casClock + 1)
    BY DEF LoadIndex, CasTick, Damage, casVars, CasGoesOn
  <1>4. Load \/ (index' = index /\ indexLoaded' = indexLoaded)
    BY DEF LoadIndex, CasTick, Damage, casVars, memVars
  <1>5. blob' = blob \/ \E d \in Digests : blob[d] = "ok" /\ blob' = [blob EXCEPT ![d] = "bad"]
    BY DEF LoadIndex, CasTick, Damage, casVars, diskVars
  <1>6. blob' \in [Digests -> {"none", "ok", "bad"}] /\ \A d \in Digests : blob[d] # "none" => blob'[d] # "none"
    BY <1>1, <1>5 DEF CasTypes
  <1>7. casClock' \in 1..MaxClock
    BY <1>1, <1>3, CasAssumption DEF CasTypes
  <1>8. LoadedIndex \in [Digests -> 0..MaxClock]
    BY <1>1 DEF LoadedIndex, CasTypes
  <1>9. /\ index' \in [Digests -> 0..MaxClock] /\ indexLoaded' \in BOOLEAN
        /\ \A e \in Digests : LoadedIndex'[e] = LoadedIndex[e]
        /\ \A e \in Digests : index[e] # 0 => index'[e] # 0
        /\ \A e \in Digests : index'[e] # 0 => index[e] # 0 \/ lineOf[e] # 0
    <2>1. CASE Load
      <3>1. index' = LoadedIndex /\ indexLoaded' = TRUE
        BY <2>1 DEF Load
      <3>2. LoadedIndex' = LoadedIndex
        BY <3>1 DEF LoadedIndex
      <3> QED
        BY <1>1, <1>8, <3>1, <3>2
    <2>2. CASE index' = index /\ indexLoaded' = indexLoaded
      <3>1. LoadedIndex' = LoadedIndex
        BY <1>2, <2>2 DEF LoadedIndex
      <3> QED
        BY <1>1, <2>2, <3>1 DEF CasTypes
    <2> QED
      BY <1>4, <2>1, <2>2
  <1>10. CasTypes'
    BY <1>1, <1>2, <1>6, <1>7, <1>9 DEF CasTypes
  <1>11. \A d \in Digests : KeptFor(d)
    BY <1>2, <1>6, <1>9 DEF KeptFor
  <1>12. \A d \in Digests : Appending(d) => Appending(d)'
    BY <1>2 DEF Appending, At
  <1>13. ~lineLost' => ~lineLost /\ ~indexCut'
    BY <1>2 DEF CasInd
  <1> QED
    BY <1>2, <1>9, <1>10, <1>11, <1>12, <1>13, GrowStep

LEMMA CompactKeeps ==
  ASSUME CasInd, NEW t \in CasThreads, Compact(t)
  PROVE  CasInd'
  <1>1. /\ lineOf' = index /\ indexCut' = FALSE
        /\ UNCHANGED <<blob, sidecar, index, indexLoaded, thread, owed, lineLost, rolledBack, casClock>>
    BY DEF Compact, memVars, CasStarts
  <1>2. coldCompact' = (coldCompact \/ ~indexLoaded)
    BY DEF Compact
  <1>3. CasTypes
    BY DEF CasInd
  <1>4. coldCompact' \in BOOLEAN /\ (~coldCompact' => ~coldCompact /\ indexLoaded)
    BY <1>2, <1>3 DEF CasTypes
  <1>5. CasTypes'
    BY <1>1, <1>3, <1>4 DEF CasTypes
  <1>6. \A d \in Digests : KeptFor(d)
    BY <1>1 DEF KeptFor
  <1>7. Stamped' /\ RemovalSeen' /\ AlonePlaced'
    BY <1>1, <1>5, <1>6, CasGrows
  <1>8. ASSUME ~lineLost', ~coldCompact' PROVE IndexBacked' /\ OwedPlaced'
    <2>1. OwedPlaced /\ indexLoaded
      BY <1>1, <1>4, <1>8 DEF CasInd
    <2>2. LoadedIndex' = LoadedIndex
      BY <1>1, <2>1 DEF LoadedIndex
    <2>3. OwedPlaced'
      BY <1>1, <2>1, <2>2 DEF OwedPlaced
    <2>4. IndexBacked'
      BY <1>1 DEF IndexBacked
    <2> QED
      BY <2>3, <2>4
  <1> QED
    BY <1>1, <1>5, <1>7, <1>8 DEF CasInd

LEMMA CrashKeeps ==
  ASSUME CasInd, CasCrash
  PROVE  CasInd'
  <1>1. PICK appending \in BOOLEAN : appending = \E t \in CasThreads : At(t, "put", "line")
    OBVIOUS
  <1>2. /\ thread' = [t \in CasThreads |-> Idle]
        /\ index' = [d \in Digests |-> 0] /\ indexLoaded' = FALSE
        /\ UNCHANGED <<blob, sidecar, lineOf, casClock, owed, coldCompact, rolledBack>>
    BY DEF CasCrash
  <1>3. indexCut' = indexCut \/ indexCut' = (indexCut \/ appending)
    BY <1>1 DEF CasCrash
  <1>4. lineLost' = (lineLost \/ appending)
    BY <1>1 DEF CasCrash
  <1>5. CasTypes
    BY DEF CasInd
  <1>6. indexCut' \in BOOLEAN /\ lineLost' \in BOOLEAN
    BY <1>3, <1>4, <1>5 DEF CasTypes
  <1>7. thread' \in [CasThreads -> {Idle} \cup PutState \cup RemoveState]
    BY <1>2
  <1>a. index' \in [Digests -> 0..MaxClock]
    BY <1>2, CasAssumption
  <1>b. indexLoaded' \in BOOLEAN
    BY <1>2
  <1>8. CasTypes'
    BY <1>2, <1>5, <1>6, <1>7, <1>a, <1>b DEF CasTypes
  <1>9. ~lineLost' => ~lineLost /\ \A t \in CasThreads : ~At(t, "put", "line")
    BY <1>1, <1>4
  <1>10. ~lineLost' => ~indexCut'
    BY <1>3, <1>4 DEF CasInd
  <1>11. Stamped' /\ RemovalSeen' /\ AlonePlaced'
    BY <1>2 DEF Stamped, RemovalSeen, AlonePlaced, Idle
  <1>12. ASSUME ~lineLost', ~coldCompact' PROVE IndexBacked' /\ OwedPlaced'
    <2>1. IndexBacked /\ OwedPlaced
      BY <1>2, <1>9, <1>12 DEF CasInd
    <2>2. IndexBacked'
      BY <1>2 DEF IndexBacked
    <2>3. \A d \in Digests : LoadedIndex[d] = IF ~indexLoaded /\ lineOf[d] # 0
                                              THEN lineOf[d] ELSE index[d]
      BY <1>5, LoadedEntry
    <2>4. \A d \in Digests : LoadedIndex[d] # 0 => lineOf[d] # 0
      BY <1>9, <1>12, <2>1, <2>3 DEF IndexBacked, Appending
    <2>5. \A d \in Digests : LoadedIndex'[d] = IF lineOf[d] # 0 THEN lineOf[d] ELSE 0
      BY <1>2 DEF LoadedIndex
    <2>6. owed \subseteq Digests
      BY <1>5 DEF CasTypes
    <2>7. OwedPlaced'
      BY <1>2, <2>1, <2>4, <2>5, <2>6 DEF OwedPlaced
    <2> QED
      BY <2>2, <2>7
  <1> QED
    BY <1>8, <1>10, <1>11, <1>12 DEF CasInd

LEMMA CasIndInit ==
  CasInit => CasInd
  <1> SUFFICES ASSUME CasInit PROVE CasInd
    OBVIOUS
  <1>1. thread \in [CasThreads -> {Idle} \cup PutState \cup RemoveState]
    BY DEF CasInit
  <1>2. /\ indexCut = FALSE /\ indexLoaded = FALSE /\ lineLost = FALSE /\ coldCompact = FALSE
        /\ owed = {} /\ rolledBack = {} /\ casClock \in 1..MaxClock
    BY CasAssumption DEF CasInit
  <1>3. /\ blob \in [Digests -> {"none", "ok", "bad"}] /\ sidecar \in [Digests -> BOOLEAN]
        /\ lineOf \in [Digests -> 0..MaxClock] /\ index \in [Digests -> 0..MaxClock]
    BY CasAssumption DEF CasInit
  <1>4. CasTypes
    BY <1>1, <1>2, <1>3 DEF CasTypes
  <1>5. Stamped /\ RemovalSeen /\ AlonePlaced /\ IndexBacked /\ OwedPlaced
    BY DEF CasInit, Stamped, RemovalSeen, AlonePlaced, IndexBacked, OwedPlaced, Idle
  <1> QED
    BY <1>2, <1>4, <1>5 DEF CasInd

LEMMA CasStep ==
  ASSUME CasInd, [CasNext]_casVars
  PROVE  CasInd'
  <1>1. ASSUME NEW t \in CasThreads, NEW d \in Digests, Put(t, d) \/ Remove(t, d) \/ Repair(t, d)
        PROVE  CasInd'
    BY <1>1, PutKeeps, RemoveKeeps, RepairKeeps
  <1>2. ASSUME NEW t \in CasThreads, Prune(t) \/ Compact(t)
        PROVE  CasInd'
    BY <1>2, PruneKeeps, CompactKeeps
  <1>3. ASSUME NEW t \in CasThreads, PutSteps(t) \/ PutFailures(t)
        PROVE  CasInd'
    BY <1>3, PutBlobKeeps, PutMetaKeeps, PutIndexKeeps, PutLineKeeps, RepairPutKeeps, PutFailsKeeps
       DEF PutSteps, PutFailures
  <1>4. ASSUME NEW t \in CasThreads, RemoveSteps(t)
        PROVE  CasInd'
    BY <1>4, RemoveStepKeeps, RemoveIndexKeeps DEF RemoveSteps
  <1>5. CASE LoadIndex \/ CasTick \/ (\E d \in Digests : Damage(d)) \/ UNCHANGED casVars
    BY <1>5, QuietKeeps
  <1>6. CASE CasCrash
    BY <1>6, CrashKeeps
  <1> QED
    BY <1>1, <1>2, <1>3, <1>4, <1>5, <1>6 DEF CasNext

\* The invariant gives CasInvariant.
LEMMA CasInvariantFollows ==
  ASSUME CasInd
  PROVE  CasInvariant
  <1>1. \A t \in CasThreads :
          \/ thread[t] = Idle
          \/ /\ thread[t].op = "put" /\ thread[t].step \in Steps
             /\ thread[t].d \in Digests /\ thread[t].ts \in 0..MaxClock
             /\ thread[t].step \in {"index", "line"} => thread[t].ts > 0
          \/ /\ thread[t].op = "remove" /\ thread[t].step \in {"blob", "meta", "index"}
             /\ thread[t].d \in Digests /\ thread[t].todo \subseteq Digests
    <2> TAKE t \in CasThreads
    <2>1. CASE thread[t] \in PutState
      BY <2>1, CasAssumption DEF PutState, CasInd, Stamped
    <2>2. CASE thread[t] \in RemoveState
      BY <2>2 DEF RemoveState
    <2> QED
      BY <2>1, <2>2, ThreadShapes DEF CasInd
  <1>2. CasTypeOK
    BY <1>1 DEF CasInd, CasTypes, CasTypeOK
  <1>3. AcknowledgedIsReadable
    BY DEF CasInd, CasTypes, OwedPlaced, AcknowledgedIsReadable, Gets
  <1> QED
    BY <1>2, <1>3 DEF CasInvariant

\* For any digests, threads, operations, crashes and faults: what put has
\* acknowledged get returns, as long as every index line reached the file and
\* nobody compacted before loading; and every state is of its type.
THEOREM CasCorrect ==
  CasSpec => []CasInvariant
  <1>1. CasInd /\ [CasNext]_casVars => CasInd'
    BY CasStep
  <1> QED
    BY CasIndInit, CasInvariantFollows, <1>1, PTL DEF CasSpec

-----------------------------------------------------------------------------
\* CasReplication
(***************************************************************************)
(* Proofs about CasReplication, for every set of objects and of callers    *)
(* and every length of the queue.                                          *)
(***************************************************************************)

Calls == [op : {"enqueue", "wait", "stream", "remove"}, o : Objects]

ReplTypes == /\ ReplTypeOK
             /\ client \in [Clients -> {NoCall} \cup Calls]
             /\ \A x, y \in worker : x = y  \* the worker holds one task

\* A caller that is carrying out an operation on o, and one that may still write it.
Busy(c, o) == client[c] # NoCall /\ client[c].o = o
Writing(c, o) == Busy(c, o) /\ client[c].op # "remove"

\* Nobody holds an object that is gone in order to write it: no task, no
\* thread and no caller but one that removes it.
GoneIsLetGo ==
  \A o \in gone :
    /\ o \notin primary /\ ~ Queued(o) /\ o \notin worker /\ o \notin monitor
    /\ \A c \in Clients : ~ Writing(c, o)
    /\ (\A c \in Clients : ~ Busy(c, o)) => o \notin secondary

\* Where an acknowledged object is on its way.
Kept(o) == \/ o \in secondary \/ (Queued(o) /\ ~ended) \/ o \in worker
           \/ \E c \in Clients : Busy(c, o)

NoneForgotten == \A o \in stored : o \in skipped \/ Kept(o)

ReplInd == ReplTypes /\ NoneForgotten /\ GoneIsLetGo

-----------------------------------------------------------------------------
(* Sequences. *)

InSeq(x, q) == \E i \in 1..Len(q) : q[i] = x

LEMMA AppendHas ==
  ASSUME NEW S, NEW q \in Seq(S), NEW e \in S
  PROVE  /\ Append(q, e) \in Seq(S) /\ Len(Append(q, e)) = Len(q) + 1
         /\ \A x : InSeq(x, Append(q, e)) <=> InSeq(x, q) \/ x = e
<1>1. /\ Append(q, e) \in Seq(S) /\ Len(Append(q, e)) = Len(q) + 1 /\ Len(q) \in Nat
      /\ \A i \in 1..Len(q) : Append(q, e)[i] = q[i]
      /\ Append(q, e)[Len(q) + 1] = e
  OBVIOUS
<1>2. ASSUME NEW x
      PROVE  InSeq(x, Append(q, e)) <=> InSeq(x, q) \/ x = e
  <2>1. ASSUME InSeq(x, Append(q, e))
        PROVE  InSeq(x, q) \/ x = e
    <3>1. PICK i \in 1..Len(Append(q, e)) : Append(q, e)[i] = x
      BY <2>1 DEF InSeq
    <3>2. i \in 1..Len(q) \/ i = Len(q) + 1
      BY <1>1
    <3> QED
      BY <1>1, <3>1, <3>2 DEF InSeq
  <2>2. ASSUME InSeq(x, q)
        PROVE  InSeq(x, Append(q, e))
    <3>1. PICK i \in 1..Len(q) : q[i] = x
      BY <2>2 DEF InSeq
    <3>2. i \in 1..Len(Append(q, e)) /\ Append(q, e)[i] = x
      BY <1>1, <3>1
    <3> QED
      BY <3>2 DEF InSeq
  <2>3. ASSUME x = e
        PROVE  InSeq(x, Append(q, e))
    <3>1. Len(q) + 1 \in 1..Len(Append(q, e))
      BY <1>1
    <3> QED
      BY <1>1, <2>3, <3>1 DEF InSeq
  <2> QED
    BY <2>1, <2>2, <2>3
<1> QED
  BY <1>1, <1>2

LEMMA TailHas ==
  ASSUME NEW S, NEW q \in Seq(S), q # <<>>
  PROVE  /\ Head(q) \in S /\ Tail(q) \in Seq(S) /\ Len(Tail(q)) = Len(q) - 1
         /\ \A x : InSeq(x, q) <=> x = Head(q) \/ InSeq(x, Tail(q))
<1>1. /\ Len(q) \in Nat /\ Len(q) > 0 /\ Head(q) = q[1] /\ Head(q) \in S
      /\ Tail(q) \in Seq(S) /\ Len(Tail(q)) = Len(q) - 1
      /\ \A i \in 1..Len(Tail(q)) : Tail(q)[i] = q[i + 1]
  OBVIOUS
<1>2. ASSUME NEW x
      PROVE  InSeq(x, q) <=> x = Head(q) \/ InSeq(x, Tail(q))
  <2>1. ASSUME InSeq(x, q), x # Head(q)
        PROVE  InSeq(x, Tail(q))
    <3>1. PICK i \in 1..Len(q) : q[i] = x
      BY <2>1 DEF InSeq
    <3>2. i # 1
      BY <1>1, <2>1, <3>1
    <3>3. i - 1 \in 1..Len(Tail(q)) /\ (i - 1) + 1 = i
      BY <1>1, <3>2
    <3>4. Tail(q)[i - 1] = x
      BY <1>1, <3>1, <3>3
    <3> QED
      BY <3>3, <3>4 DEF InSeq
  <2>2. ASSUME InSeq(x, Tail(q))
        PROVE  InSeq(x, q)
    <3>1. PICK i \in 1..Len(Tail(q)) : Tail(q)[i] = x
      BY <2>2 DEF InSeq
    <3>2. i + 1 \in 1..Len(q) /\ q[i + 1] = x
      BY <1>1, <3>1
    <3> QED
      BY <3>2 DEF InSeq
  <2>3. ASSUME x = Head(q)
        PROVE  InSeq(x, q)
    <3>1. 1 \in 1..Len(q) /\ q[1] = x
      BY <1>1, <2>3
    <3> QED
      BY <3>1 DEF InSeq
  <2> QED
    BY <2>1, <2>2, <2>3
<1> QED
  BY <1>1, <1>2

-----------------------------------------------------------------------------
(* The callers. *)

LEMMA CallerKnown ==
  ASSUME ReplTypes, NEW c \in Clients, client[c].op # "idle"
  PROVE  client[c] \in Calls /\ client[c] # NoCall /\ client[c].o \in Objects
<1>1. client[c] \in {NoCall} \cup Calls
  BY DEF ReplTypes
<1>2. client[c] # NoCall
  BY DEF NoCall
<1> QED
  BY <1>1, <1>2 DEF Calls

\* A step of one caller leaves what the others are busy with.
LEMMA OthersStay ==
  ASSUME ReplTypes, NEW c \in Clients, NEW r \in {NoCall} \cup Calls,
         client' = [client EXCEPT ![c] = r]
  PROVE  /\ client' \in [Clients -> {NoCall} \cup Calls] /\ client'[c] = r
         /\ \A d \in Clients : d # c => client'[d] = client[d]
  BY DEF ReplTypes

\* The types of a step, from those of the variables that it changes.
LEMMA ReplTypesStep ==
  ASSUME ReplTypes, policy' = policy,
         primary' \subseteq Objects, secondary' \subseteq Objects,
         queue' \in Seq(Objects), MaxQueue > 0 => Len(queue') <= MaxQueue,
         client' \in [Clients -> {NoCall} \cup Calls],
         worker' \subseteq Objects, monitor' \subseteq Objects, stopping' \in BOOLEAN, ended' \in BOOLEAN,
         \A x, y \in worker' : x = y
  PROVE  ReplTypes'
<1>1. policy' \in {"Block", "DropOldest"}
  BY DEF ReplTypes, ReplTypeOK
<1>2. \A c \in Clients :
         client'[c] = NoCall \/ client'[c] \in
           [op : {"enqueue", "wait", "stream", "remove"}, o : Objects]
  BY DEF Calls
<1> QED
  BY <1>1, <1>2 DEF ReplTypes, ReplTypeOK

LEMMA ReplTypesOf ==
  ASSUME ReplTypes
  PROVE  /\ primary \subseteq Objects /\ secondary \subseteq Objects
         /\ queue \in Seq(Objects) /\ (MaxQueue > 0 => Len(queue) <= MaxQueue)
         /\ client \in [Clients -> {NoCall} \cup Calls]
         /\ worker \subseteq Objects /\ monitor \subseteq Objects /\ stopping \in BOOLEAN
         /\ ended \in BOOLEAN /\ \A x, y \in worker : x = y
  BY DEF ReplTypes, ReplTypeOK

LEMMA CallIsCall ==
  ASSUME NEW op \in {"enqueue", "wait", "stream", "remove"}, NEW o \in Objects
  PROVE  /\ Call(op, o) \in Calls /\ Call(op, o) # NoCall
         /\ Call(op, o).op = op /\ Call(op, o).o = o
  BY DEF Call, Calls, NoCall

-----------------------------------------------------------------------------
LEMMA ReplInitInd == ReplInit => ReplInd
<1> SUFFICES ASSUME ReplInit
             PROVE  ReplInd
  OBVIOUS
<1>1. client \in [Clients -> {NoCall} \cup Calls]
  BY DEF ReplInit
<1>2. queue \in Seq(Objects) /\ Len(queue) = 0
  BY DEF ReplInit
<1>5. stopping = FALSE /\ ended = FALSE
  BY DEF ReplInit
<1>6. stopping \in BOOLEAN /\ ended \in BOOLEAN
  BY <1>5
<1>3. ReplTypeOK
  BY <1>1, <1>2, <1>6, ReplAssumption DEF ReplInit, ReplTypeOK, Calls
<1>4. NoneForgotten /\ GoneIsLetGo
  BY DEF ReplInit, NoneForgotten, GoneIsLetGo
<1> QED
  BY <1>1, <1>3, <1>4 DEF ReplInd, ReplTypes, ReplInit

\* A call of put or put_stream begins.
LEMMA PutBeginsInd ==
  ASSUME ReplInd, NEW c \in Clients, NEW o \in Objects, ReplPut(c, o) \/ ReplPutStream(c, o)
  PROVE  ReplInd'
<1>1. PICK op \in {"enqueue", "stream"} : client' = [client EXCEPT ![c] = Call(op, o)]
  BY DEF ReplPut, ReplPutStream
<1>2. /\ client[c] = NoCall /\ primary' = primary \cup {o} /\ gone' = gone \ {o}
      /\ UNCHANGED <<policy, secondary, queue, worker, monitor, stored, skipped>>
  BY DEF ReplPut, ReplPutStream
<1>3. UNCHANGED <<stopping, ended>>
  BY DEF ReplPut, ReplPutStream
<1>4. /\ Call(op, o) \in Calls /\ Call(op, o) # NoCall /\ Call(op, o).o = o
  BY CallIsCall
<1>5. /\ client' \in [Clients -> {NoCall} \cup Calls] /\ client'[c] = Call(op, o)
      /\ \A d \in Clients : d # c => client'[d] = client[d]
  BY <1>1, <1>4, OthersStay DEF ReplInd
<1>6. ReplTypes'
  BY <1>2, <1>3, <1>5, ReplTypesOf, ReplTypesStep DEF ReplInd
<1>7. NoneForgotten'
  <2>1. \A x : Queued(x)' <=> Queued(x)
    BY <1>2 DEF Queued
  <2>2. \A x : \A d \in Clients : Busy(d, x) => Busy(d, x)'
    BY <1>2, <1>5 DEF Busy
  <2> QED
    BY <1>2, <1>3, <2>1, <2>2 DEF ReplInd, NoneForgotten, Kept
<1>8. GoneIsLetGo'
  <2>1. \A x : Queued(x)' <=> Queued(x)
    BY <1>2 DEF Queued
  <2>2. \A x : \A d \in Clients : x # o => (Busy(d, x)' <=> Busy(d, x))
    BY <1>2, <1>4, <1>5 DEF Busy
  <2>3. \A x : \A d \in Clients : x # o => (Writing(d, x)' <=> Writing(d, x))
    BY <1>2, <1>4, <1>5 DEF Writing, Busy
  <2> QED
    BY <1>2, <2>1, <2>2, <2>3 DEF ReplInd, GoneIsLetGo
<1> QED
  BY <1>6, <1>7, <1>8 DEF ReplInd

\* remove begins: the object is gone if nothing is under way for it.
LEMMA RemoveBeginsInd ==
  ASSUME ReplInd, NEW c \in Clients, NEW o \in Objects, ReplRemove(c, o)
  PROVE  ReplInd'
<1>1. /\ client' = [client EXCEPT ![c] = Call("remove", o)]
      /\ client[c] = NoCall /\ primary' = primary \ {o} /\ stored' = stored \ {o}
      /\ gone' = (IF UnderWay(o) THEN gone ELSE gone \cup {o})
      /\ UNCHANGED <<policy, secondary, queue, worker, monitor, skipped>>
  BY DEF ReplRemove
<1>3. UNCHANGED <<stopping, ended>>
  BY DEF ReplRemove
<1>4. /\ Call("remove", o) \in Calls /\ Call("remove", o) # NoCall
      /\ Call("remove", o).o = o /\ Call("remove", o).op = "remove"
  BY CallIsCall
<1>5. /\ client' \in [Clients -> {NoCall} \cup Calls] /\ client'[c] = Call("remove", o)
      /\ \A d \in Clients : d # c => client'[d] = client[d]
  BY <1>1, <1>4, OthersStay DEF ReplInd
<1>6. ReplTypes'
  BY <1>1, <1>3, <1>5, ReplTypesOf, ReplTypesStep DEF ReplInd
<1>7. \A x : Queued(x)' <=> Queued(x)
  BY <1>1 DEF Queued
<1>8. \A x : \A d \in Clients : Busy(d, x) => Busy(d, x)'
  BY <1>1, <1>5 DEF Busy
<1>9. NoneForgotten'
  BY <1>1, <1>3, <1>7, <1>8 DEF ReplInd, NoneForgotten, Kept
<1>10. \A x : \A d \in Clients : Writing(d, x)' => Writing(d, x)
  BY <1>1, <1>4, <1>5 DEF Writing, Busy
<1>11. ASSUME NEW x \in gone'
       PROVE  /\ x \notin primary' /\ ~ Queued(x)' /\ x \notin worker' /\ x \notin monitor'
              /\ \A d \in Clients : ~ Writing(d, x)'
              /\ (\A d \in Clients : ~ Busy(d, x)') => x \notin secondary'
  <2>1. CASE x \in gone
    BY <1>1, <1>7, <1>8, <1>10, <2>1 DEF ReplInd, GoneIsLetGo
  <2>2. CASE x \notin gone
    <3>1. x = o /\ ~ UnderWay(o)
      BY <1>1, <1>11, <2>2
    <3>2. /\ ~ Queued(o) /\ o \notin worker /\ o \notin monitor
          /\ \A d \in Clients : ~ Busy(d, o)
      BY <3>1 DEF UnderWay, Busy
    <3>3. Busy(c, o)'
      BY <1>4, <1>5 DEF Busy
    <3> QED
      BY <1>1, <1>7, <1>10, <3>1, <3>2, <3>3 DEF Writing
  <2> QED
    BY <2>1, <2>2
<1>12. GoneIsLetGo'
  BY <1>11 DEF GoneIsLetGo
<1> QED
  BY <1>6, <1>9, <1>12 DEF ReplInd

\* A call on o returns: what is gone stays gone if the caller wrote o, or if
\* o has left the secondary.
LEMMA ReturnGone ==
  ASSUME ReplInd, NEW c \in Clients, Returns(c), client[c].op # "idle",
         gone' = gone, primary' = primary, worker' = worker, monitor' = monitor,
         NEW o, o = client[c].o,
         client[c].op # "remove" \/ o \notin secondary',
         \A x : Queued(x)' => Queued(x) \/ (x = o /\ client[c].op # "remove"),
         \A x : x \in secondary' => x \in secondary \/ x = o
  PROVE  GoneIsLetGo'
<1>1. client[c] \in Calls /\ client[c] # NoCall
  BY CallerKnown DEF ReplInd
<1>2. client'[c] = NoCall /\ \A d \in Clients : d # c => client'[d] = client[d]
  BY OthersStay DEF ReplInd, Returns
<1>3. ASSUME NEW x \in gone
      PROVE  /\ x \notin primary' /\ ~ Queued(x)' /\ x \notin worker' /\ x \notin monitor'
             /\ \A d \in Clients : ~ Writing(d, x)'
             /\ (\A d \in Clients : ~ Busy(d, x)') => x \notin secondary'
  <2>1. /\ x \notin primary /\ ~ Queued(x) /\ x \notin worker /\ x \notin monitor
        /\ \A d \in Clients : ~ Writing(d, x)
        /\ (\A d \in Clients : ~ Busy(d, x)) => x \notin secondary
    BY <1>3 DEF ReplInd, GoneIsLetGo
  <2>2. \A d \in Clients : Writing(d, x)' => Writing(d, x)
    BY <1>2 DEF Writing, Busy
  <2>3. Busy(c, o)
    BY <1>1 DEF Busy
  <2>4. x = o => client[c].op = "remove"
    BY <2>1, <2>3 DEF Writing
  <2>5. ASSUME \A d \in Clients : ~ Busy(d, x)', x # o
        PROVE  x \notin secondary'
    <3>1. \A d \in Clients : d # c => ~ Busy(d, x)
      BY <1>2, <2>5 DEF Busy
    <3>2. ~ Busy(c, x)
      BY <2>5 DEF Busy
    <3> QED
      BY <2>1, <2>5, <3>1, <3>2
  <2> QED
    BY <2>1, <2>2, <2>4, <2>5
<1> QED
  BY <1>3 DEF GoneIsLetGo

\* A call on o returns: the objects of other calls are where they were.
LEMMA ReturnKept ==
  ASSUME ReplInd, NEW c \in Clients, Returns(c), client[c].op # "idle",
         NEW o, o = client[c].o, worker' = worker, ended' = ended,
         stored' \subseteq stored \cup {o}, skipped \subseteq skipped',
         \A x : x \in secondary => x \in secondary' \/ x = o,
         \A x : Queued(x) => Queued(x)' \/ x \in skipped',
         o \in stored' => o \in skipped' \/ Kept(o)'
  PROVE  NoneForgotten'
<1>2. client'[c] = NoCall /\ \A d \in Clients : d # c => client'[d] = client[d]
  BY OthersStay DEF ReplInd, Returns
<1>3. ASSUME NEW x \in stored', x # o
      PROVE  x \in skipped' \/ Kept(x)'
  <2>1. x \in skipped \/ Kept(x)
    BY <1>3 DEF ReplInd, NoneForgotten
  <2>2. \A d \in Clients : Busy(d, x) => d # c
    BY <1>3 DEF Busy
  <2>3. \A d \in Clients : Busy(d, x) => Busy(d, x)'
    BY <1>2, <2>2 DEF Busy
  <2> QED
    BY <1>3, <2>1, <2>3 DEF Kept
<1> QED
  BY <1>3 DEF NoneForgotten

LEMMA ReturnTypes ==
  ASSUME ReplInd, NEW c \in Clients, Returns(c),
         policy' = policy, primary' = primary, worker' = worker, monitor' = monitor,
         stopping' = stopping, ended' = ended, secondary' \subseteq Objects,
         queue' \in Seq(Objects), MaxQueue > 0 => Len(queue') <= MaxQueue
  PROVE  ReplTypes'
<1>1. client' \in [Clients -> {NoCall} \cup Calls]
  BY OthersStay DEF ReplInd, Returns
<1> QED
  BY <1>1, ReplTypesOf, ReplTypesStep DEF ReplInd

\* enqueue with room: the object is in the queue when put returns.
LEMMA EnqueueInd ==
  ASSUME ReplInd, NEW c \in Clients, Enqueue(c)
  PROVE  ReplInd'
<1>1. client[c].op \in {"enqueue", "wait"}
  BY DEF Enqueue
<1>2. /\ ~ Full /\ queue' = Append(queue, client[c].o)
      /\ stored' = stored \cup {client[c].o} /\ Returns(c)
      /\ skipped' = skipped \cup Late(c)
      /\ UNCHANGED <<policy, primary, secondary, worker, monitor, gone>>
  BY DEF Enqueue, Stores
<1>3. UNCHANGED <<stopping, ended>>
  BY DEF Enqueue
<1>4. PICK o \in Objects : o = client[c].o
  BY <1>1, CallerKnown DEF ReplInd
<1>5. queue \in Seq(Objects) /\ secondary \subseteq Objects
  BY ReplTypesOf DEF ReplInd
<1>6. /\ queue' \in Seq(Objects) /\ Len(queue') = Len(queue) + 1
      /\ \A x : InSeq(x, queue') <=> InSeq(x, queue) \/ x = o
  BY <1>2, <1>4, <1>5, AppendHas
<1>7. \A x : Queued(x)' <=> Queued(x) \/ x = o
  BY <1>6 DEF InSeq, Queued
<1>8. MaxQueue > 0 => Len(queue') <= MaxQueue
  BY <1>2, <1>5, <1>6, ReplAssumption DEF Full
<1>9. ReplTypes'
  BY <1>2, <1>3, <1>5, <1>6, <1>8, ReturnTypes
<1>10. o \in skipped' \/ Kept(o)'
  BY <1>2, <1>3, <1>4, <1>7 DEF Kept, Late
<1>11. NoneForgotten'
  BY <1>1, <1>2, <1>3, <1>4, <1>7, <1>10, ReturnKept
<1>12. GoneIsLetGo'
  BY <1>1, <1>2, <1>4, <1>7, ReturnGone
<1> QED
  BY <1>9, <1>11, <1>12 DEF ReplInd

\* enqueue on a full queue that drops its oldest task.
LEMMA EnqueueDroppingInd ==
  ASSUME ReplInd, NEW c \in Clients, EnqueueDropping(c)
  PROVE  ReplInd'
<1>1. client[c].op = "enqueue"
  BY DEF EnqueueDropping
<1>2. /\ Full /\ queue' = Append(Tail(queue), client[c].o)
      /\ skipped' = skipped \cup {Head(queue)} \cup Late(c)
      /\ stored' = stored \cup {client[c].o} /\ Returns(c)
      /\ UNCHANGED <<policy, primary, secondary, worker, monitor, gone>>
  BY DEF EnqueueDropping, Stores
<1>3. UNCHANGED <<stopping, ended>>
  BY DEF EnqueueDropping
<1>4. PICK o \in Objects : o = client[c].o
  BY <1>1, CallerKnown DEF ReplInd
<1>5. /\ queue \in Seq(Objects) /\ secondary \subseteq Objects
      /\ MaxQueue > 0 => Len(queue) <= MaxQueue
  BY ReplTypesOf DEF ReplInd
<1>6. queue # <<>>
  BY <1>2, ReplAssumption DEF Full
<1>7. /\ Tail(queue) \in Seq(Objects) /\ Len(Tail(queue)) = Len(queue) - 1
      /\ \A x : InSeq(x, queue) <=> x = Head(queue) \/ InSeq(x, Tail(queue))
  BY <1>5, <1>6, TailHas
<1>8. /\ queue' \in Seq(Objects) /\ Len(queue') = Len(Tail(queue)) + 1
      /\ \A x : InSeq(x, queue') <=> InSeq(x, Tail(queue)) \/ x = o
  <2>1. PICK rest \in Seq(Objects) : rest = Tail(queue)
    BY <1>7
  <2>2. queue' = Append(rest, o)
    BY <1>2, <1>4, <2>1
  <2>3. /\ Append(rest, o) \in Seq(Objects) /\ Len(Append(rest, o)) = Len(rest) + 1
        /\ \A x : InSeq(x, Append(rest, o)) <=> InSeq(x, rest) \/ x = o
    BY AppendHas
  <2> QED
    BY <2>1, <2>2, <2>3
<1>9. \A x : /\ Queued(x)' => Queued(x) \/ x = o
             /\ Queued(x) => Queued(x)' \/ x = Head(queue)
             /\ x = o => Queued(x)'
  BY <1>7, <1>8 DEF InSeq, Queued
<1>10. MaxQueue > 0 => Len(queue') <= MaxQueue
  BY <1>5, <1>7, <1>8, ReplAssumption
<1>11. ReplTypes'
  BY <1>2, <1>3, <1>5, <1>8, <1>10, ReturnTypes
<1>12. o \in skipped' \/ Kept(o)'
  BY <1>2, <1>3, <1>4, <1>9 DEF Kept, Late
<1>13. NoneForgotten'
  BY <1>1, <1>2, <1>3, <1>4, <1>9, <1>12, ReturnKept
<1>14. GoneIsLetGo'
  BY <1>1, <1>2, <1>4, <1>9, ReturnGone
<1> QED
  BY <1>11, <1>13, <1>14 DEF ReplInd

LEMMA EnqueueGivesUpInd ==
  ASSUME ReplInd, NEW c \in Clients, EnqueueGivesUp(c)
  PROVE  ReplInd'
<1>1. client[c].op = "wait"
  BY DEF EnqueueGivesUp
<1>2. /\ skipped' = skipped \cup {client[c].o}
      /\ stored' = stored \cup {client[c].o} /\ Returns(c)
      /\ UNCHANGED <<policy, primary, secondary, queue, worker, monitor, gone>>
  BY DEF EnqueueGivesUp, Stores
<1>3. UNCHANGED <<stopping, ended>>
  BY DEF EnqueueGivesUp
<1>4. PICK o \in Objects : o = client[c].o
  BY <1>1, CallerKnown DEF ReplInd
<1>5. ReplTypes'
  BY <1>2, <1>3, ReturnTypes, ReplTypesOf DEF ReplInd
<1>6. \A x : Queued(x)' <=> Queued(x)
  BY <1>2 DEF Queued
<1>7. NoneForgotten'
  BY <1>1, <1>2, <1>3, <1>4, <1>6, ReturnKept
<1>8. GoneIsLetGo'
  BY <1>1, <1>2, <1>4, <1>6, ReturnGone
<1> QED
  BY <1>5, <1>7, <1>8 DEF ReplInd

\* put_stream copies to the secondary, or says nothing when it cannot.
LEMMA StreamCopiesInd ==
  ASSUME ReplInd, NEW c \in Clients, ReplPutStreamCopies(c)
  PROVE  ReplInd'
<1>1. client[c].op = "stream"
  BY DEF ReplPutStreamCopies
<1>2. PICK o \in Objects : o = client[c].o
  BY <1>1, CallerKnown DEF ReplInd
<1>3. /\ stored' = stored \cup {o} /\ Returns(c)
      /\ UNCHANGED <<policy, primary, queue, worker, monitor, gone>>
  BY <1>2 DEF ReplPutStreamCopies, Stores
<1>4. UNCHANGED <<stopping, ended>>
  BY DEF ReplPutStreamCopies
<1>5. \/ secondary' = secondary \cup {o} /\ skipped' = skipped
      \/ secondary' = secondary /\ skipped' = skipped \cup {o}
  BY <1>2 DEF ReplPutStreamCopies, SecondaryPuts, SecondaryRefuses
<1>6. secondary' \subseteq Objects
  BY <1>5, ReplTypesOf DEF ReplInd
<1>7. ReplTypes'
  BY <1>3, <1>4, <1>6, ReturnTypes, ReplTypesOf DEF ReplInd
<1>8. \A x : Queued(x)' <=> Queued(x)
  BY <1>3 DEF Queued
<1>9. o \in skipped' \/ Kept(o)'
  BY <1>5 DEF Kept
<1>10. NoneForgotten'
  BY <1>1, <1>2, <1>3, <1>4, <1>5, <1>8, <1>9, ReturnKept
<1>11. GoneIsLetGo'
  BY <1>1, <1>2, <1>3, <1>5, <1>8, ReturnGone
<1> QED
  BY <1>7, <1>10, <1>11 DEF ReplInd

LEMMA RemoveSecondInd ==
  ASSUME ReplInd, NEW c \in Clients, ReplRemoveSecond(c)
  PROVE  ReplInd'
<1>1. client[c].op = "remove"
  BY DEF ReplRemoveSecond
<1>2. PICK o \in Objects : o = client[c].o
  BY <1>1, CallerKnown DEF ReplInd
<1>3. /\ secondary' = secondary \ {o} /\ stored' = stored \ {o} /\ Returns(c)
      /\ UNCHANGED <<policy, primary, queue, worker, monitor, skipped, gone>>
  BY <1>2 DEF ReplRemoveSecond
<1>4. UNCHANGED <<stopping, ended>>
  BY DEF ReplRemoveSecond
<1>5. ReplTypes'
  BY <1>3, <1>4, ReturnTypes, ReplTypesOf DEF ReplInd
<1>6. \A x : Queued(x)' <=> Queued(x)
  BY <1>3 DEF Queued
<1>7. NoneForgotten'
  BY <1>1, <1>2, <1>3, <1>4, <1>6, ReturnKept
<1>8. GoneIsLetGo'
  <2>1. o \notin secondary' /\ (\A x : x \in secondary' => x \in secondary \/ x = o)
    BY <1>3
  <2>2. \A x : Queued(x)' => Queued(x) \/ (x = o /\ client[c].op # "remove")
    BY <1>6
  <2> QED
    BY <1>1, <1>2, <1>3, <2>1, <2>2, ReturnGone
<1> QED
  BY <1>5, <1>7, <1>8 DEF ReplInd

LEMMA EnqueueWaitsInd ==
  ASSUME ReplInd, NEW c \in Clients, EnqueueWaits(c)
  PROVE  ReplInd'
<1>1. /\ client[c].op = "enqueue" /\ client' = [client EXCEPT ![c].op = "wait"]
      /\ UNCHANGED <<policy, primary, secondary, queue, worker, monitor, stored, skipped, gone>>
  BY DEF EnqueueWaits, replHist
<1>2. UNCHANGED <<stopping, ended>>
  BY DEF EnqueueWaits
<1>3. PICK q \in Calls : q = client[c] /\ q # NoCall
  BY <1>1, CallerKnown DEF ReplInd
<1>4. PICK r : r = [q EXCEPT !.op = "wait"]
  OBVIOUS
<1>5. r \in Calls /\ r # NoCall /\ r.o = q.o /\ r.op = "wait" /\ q.op = "enqueue"
  BY <1>1, <1>3, <1>4 DEF Calls, NoCall
<1>6. client' = [client EXCEPT ![c] = r]
  BY <1>1, <1>3, <1>4
<1>7. /\ client' \in [Clients -> {NoCall} \cup Calls] /\ client'[c] = r
      /\ \A d \in Clients : d # c => client'[d] = client[d]
  BY <1>5, <1>6, OthersStay DEF ReplInd
<1>8. ReplTypes'
  BY <1>1, <1>2, <1>7, ReplTypesOf, ReplTypesStep DEF ReplInd
<1>9. \A x : Queued(x)' <=> Queued(x)
  BY <1>1 DEF Queued
<1>10. \A x : \A d \in Clients : Busy(d, x)' <=> Busy(d, x)
  BY <1>3, <1>5, <1>7 DEF Busy
<1>11. \A x : \A d \in Clients : Writing(d, x)' <=> Writing(d, x)
  BY <1>3, <1>5, <1>7 DEF Writing, Busy
<1>12. NoneForgotten'
  BY <1>1, <1>2, <1>9, <1>10 DEF ReplInd, NoneForgotten, Kept
<1>13. GoneIsLetGo'
  BY <1>1, <1>9, <1>10, <1>11 DEF ReplInd, GoneIsLetGo
<1> QED
  BY <1>8, <1>12, <1>13 DEF ReplInd

\* A step of a thread of the backend.
LEMMA ThreadInd ==
  ASSUME ReplInd, client' = client, policy' = policy, stored' = stored,
         primary' \subseteq Objects, secondary' \subseteq Objects,
         queue' \in Seq(Objects), MaxQueue > 0 => Len(queue') <= MaxQueue,
         worker' \subseteq Objects, monitor' \subseteq Objects, stopping' \in BOOLEAN, ended' \in BOOLEAN,
         \A x, y \in worker' : x = y,
         \A x : x \in skipped \/ x \in secondary \/ (Queued(x) /\ ~ended) \/ x \in worker
                => \/ x \in skipped' \/ x \in secondary' \/ (Queued(x)' /\ ~ended')
                   \/ x \in worker',
         gone' \subseteq gone,
         \A x \in gone' : /\ x \notin primary => x \notin primary'
                          /\ ~ Queued(x) => ~ Queued(x)'
                          /\ ~ Queued(x) /\ x \notin worker => x \notin worker'
                          /\ x \notin primary /\ x \notin monitor => x \notin monitor'
                          /\ x \notin worker /\ x \notin monitor /\ x \notin secondary
                             => x \notin secondary'
  PROVE  ReplInd'
<1>1. ReplTypes'
  BY ReplTypesOf, ReplTypesStep DEF ReplInd
<1>2. \A x : \A d \in Clients : /\ Busy(d, x)' <=> Busy(d, x)
                                /\ Writing(d, x)' <=> Writing(d, x)
  BY DEF Writing, Busy
<1>3. NoneForgotten'
  BY <1>2 DEF ReplInd, NoneForgotten, Kept
<1>4. GoneIsLetGo'
  BY <1>2 DEF ReplInd, GoneIsLetGo
<1> QED
  BY <1>1, <1>3, <1>4 DEF ReplInd

LEMMA WorkerTakesInd ==
  ASSUME ReplInd, WorkerTakes
  PROVE  ReplInd'
<1>1. /\ worker = {} /\ queue # <<>> /\ worker' = {Head(queue)} /\ queue' = Tail(queue)
      /\ UNCHANGED <<policy, primary, secondary, monitor, client, stored, skipped, gone>>
  BY DEF WorkerTakes, replHist
<1>2. UNCHANGED <<stopping, ended>>
  BY DEF WorkerTakes
<1>3. /\ primary \subseteq Objects /\ secondary \subseteq Objects
      /\ queue \in Seq(Objects) /\ (MaxQueue > 0 => Len(queue) <= MaxQueue)
      /\ worker \subseteq Objects /\ monitor \subseteq Objects
  BY ReplTypesOf DEF ReplInd
<1>4. stopping' \in BOOLEAN /\ ended' \in BOOLEAN
  BY <1>2, ReplTypesOf DEF ReplInd
<1>5. /\ Head(queue) \in Objects /\ queue' \in Seq(Objects) /\ Len(queue') = Len(queue) - 1
      /\ \A x : InSeq(x, queue) <=> x = Head(queue) \/ InSeq(x, queue')
  BY <1>1, <1>3, TailHas
<1>6. \A x : Queued(x) <=> x \in worker' \/ Queued(x)'
  BY <1>1, <1>5 DEF InSeq, Queued
<1>7. MaxQueue > 0 => Len(queue') <= MaxQueue
  BY <1>3, <1>5, ReplAssumption
<1> QED
  BY <1>1, <1>2, <1>3, <1>4, <1>5, <1>6, <1>7, ThreadInd

\* The worker ends with nothing in the queue that could be forgotten.
LEMMA WorkerEndsInd ==
  ASSUME ReplInd, WorkerEnds
  PROVE  ReplInd'
<1>1. /\ queue = <<>> /\ ended' = TRUE
      /\ UNCHANGED <<policy, primary, secondary, queue, worker, monitor, stopping, client,
                     stored, skipped, gone>>
  BY DEF WorkerEnds, replHist
<1>2. /\ primary \subseteq Objects /\ secondary \subseteq Objects
      /\ queue \in Seq(Objects) /\ (MaxQueue > 0 => Len(queue) <= MaxQueue)
      /\ worker \subseteq Objects /\ monitor \subseteq Objects /\ \A x, y \in worker : x = y
  BY ReplTypesOf DEF ReplInd
<1>3. stopping' \in BOOLEAN /\ ended' \in BOOLEAN
  BY <1>1, ReplTypesOf DEF ReplInd
<1>4. \A x : ~ Queued(x) /\ ~ Queued(x)'
  BY <1>1 DEF Queued
<1> QED
  BY <1>1, <1>2, <1>3, <1>4, ThreadInd

LEMMA WorkerPutsInd ==
  ASSUME ReplInd, WorkerPuts
  PROVE  ReplInd'
<1>0. PICK o \in worker : SecondaryPuts(o) \/ SecondaryRefuses(o)
  BY DEF WorkerPuts
<1>1. \/ secondary' = secondary \cup {o} /\ skipped' = skipped
      \/ secondary' = secondary /\ skipped' = skipped \cup {o}
  BY <1>0 DEF SecondaryPuts, SecondaryRefuses
<1>2. /\ worker' = {}
      /\ UNCHANGED <<policy, primary, queue, monitor, client, stored, gone>>
  BY DEF WorkerPuts
<1>3. UNCHANGED <<stopping, ended>>
  BY DEF WorkerPuts
<1>4. /\ primary \subseteq Objects /\ secondary \subseteq Objects
      /\ queue \in Seq(Objects) /\ (MaxQueue > 0 => Len(queue) <= MaxQueue)
      /\ worker \subseteq Objects /\ monitor \subseteq Objects
  BY ReplTypesOf DEF ReplInd
<1>5. stopping' \in BOOLEAN /\ ended' \in BOOLEAN
  BY <1>3, ReplTypesOf DEF ReplInd
<1>6. \A x : Queued(x)' <=> Queued(x)
  BY <1>2 DEF Queued
<1>7. \A x \in worker : x = o
  BY ReplTypesOf DEF ReplInd
<1> QED
  BY <1>1, <1>2, <1>3, <1>4, <1>5, <1>6, <1>7, ThreadInd

LEMMA MonitorScansInd ==
  ASSUME ReplInd, MonitorScans
  PROVE  ReplInd'
<1>1. PICK o \in primary : monitor' = {o}
  BY DEF MonitorScans
<1>2. UNCHANGED <<policy, primary, secondary, queue, worker, client, stored, skipped, gone>>
  BY DEF MonitorScans, replHist
<1>3. UNCHANGED <<stopping, ended>>
  BY DEF MonitorScans
<1>4. /\ primary \subseteq Objects /\ secondary \subseteq Objects
      /\ queue \in Seq(Objects) /\ (MaxQueue > 0 => Len(queue) <= MaxQueue)
      /\ worker \subseteq Objects /\ \A x, y \in worker : x = y
  BY ReplTypesOf DEF ReplInd
<1>5. stopping' \in BOOLEAN /\ ended' \in BOOLEAN
  BY <1>3, ReplTypesOf DEF ReplInd
<1>6. \A x : Queued(x)' <=> Queued(x)
  BY <1>2 DEF Queued
<1> QED
  BY <1>1, <1>2, <1>3, <1>4, <1>5, <1>6, ThreadInd

\* The monitor copies an object back only if it was in the primary's scan, so
\* one that is not gone.
LEMMA MonitorVerifiesInd ==
  ASSUME ReplInd, MonitorVerifies
  PROVE  ReplInd'
<1>1. PICK o \in monitor :
        \/ /\ SecondaryPuts(o) \/ SecondaryRefuses(o)
           /\ UNCHANGED <<primary, gone>>
        \/ /\ primary' = primary \cup {o} /\ gone' = gone \ {o}
           /\ UNCHANGED <<secondary, skipped>>
        \/ UNCHANGED <<primary, secondary, skipped, gone>>
  BY DEF MonitorVerifies
<1>2. /\ monitor' = {} /\ UNCHANGED <<policy, queue, worker, client, stored>>
  BY DEF MonitorVerifies
<1>3. UNCHANGED <<stopping, ended>>
  BY DEF MonitorVerifies
<1>4. /\ primary \subseteq Objects /\ secondary \subseteq Objects
      /\ queue \in Seq(Objects) /\ (MaxQueue > 0 => Len(queue) <= MaxQueue)
      /\ worker \subseteq Objects /\ monitor \subseteq Objects /\ \A x, y \in worker : x = y
  BY ReplTypesOf DEF ReplInd
<1>5. stopping' \in BOOLEAN /\ ended' \in BOOLEAN
  BY <1>3, ReplTypesOf DEF ReplInd
<1>6. \A x : Queued(x)' <=> Queued(x)
  BY <1>2 DEF Queued
<1>7. /\ \/ primary' = primary /\ gone' = gone
         \/ primary' = primary \cup {o} /\ gone' = gone \ {o}
      /\ secondary' = secondary \/ secondary' = secondary \cup {o}
      /\ skipped \subseteq skipped'
  BY <1>1 DEF SecondaryPuts, SecondaryRefuses
<1> QED
  BY <1>2, <1>3, <1>4, <1>5, <1>6, <1>7, ThreadInd

\* The backend is being destroyed, or nothing happens.
LEMMA StopInd ==
  ASSUME ReplInd, Stop \/ UNCHANGED replVars
  PROVE  ReplInd'
<1>1. UNCHANGED <<policy, primary, secondary, queue, worker, monitor, ended, client, stored,
                  skipped, gone>>
  BY DEF Stop, replVars, replHist
<1>2. stopping' \in BOOLEAN /\ ended' \in BOOLEAN
  BY ReplTypesOf DEF ReplInd, Stop, replVars
<1>3. /\ primary \subseteq Objects /\ secondary \subseteq Objects
      /\ queue \in Seq(Objects) /\ (MaxQueue > 0 => Len(queue) <= MaxQueue)
      /\ worker \subseteq Objects /\ monitor \subseteq Objects /\ \A x, y \in worker : x = y
  BY ReplTypesOf DEF ReplInd
<1>4. \A x : Queued(x)' <=> Queued(x)
  BY <1>1 DEF Queued
<1> QED
  BY <1>1, <1>2, <1>3, <1>4, ThreadInd

LEMMA ReplStepInd == ReplInd /\ [ReplNext]_replVars => ReplInd'
<1> SUFFICES ASSUME ReplInd, [ReplNext]_replVars
             PROVE  ReplInd'
  OBVIOUS
<1>1. ASSUME NEW c \in Clients, ClientStep(c)
      PROVE  ReplInd'
  BY <1>1, EnqueueInd, EnqueueWaitsInd, EnqueueDroppingInd, EnqueueGivesUpInd,
     StreamCopiesInd, RemoveSecondInd DEF ClientStep
<1>2. ASSUME NEW c \in Clients, NEW o \in Objects,
             ReplPut(c, o) \/ ReplPutStream(c, o) \/ ReplRemove(c, o)
      PROVE  ReplInd'
  BY <1>2, PutBeginsInd, RemoveBeginsInd
<1> QED
  BY <1>1, <1>2, WorkerTakesInd, WorkerEndsInd, WorkerPutsInd, MonitorScansInd, MonitorVerifiesInd, StopInd
  DEF ReplNext, WorkerStep

LEMMA ReplIndImplies == ReplInd => ReplInvariant
<1> SUFFICES ASSUME ReplInd
             PROVE  ReplInvariant
  OBVIOUS
<1>1. ReplTypeOK
  BY DEF ReplInd, ReplTypes
<1>2. NothingForgotten
  BY DEF ReplInd, NoneForgotten, NothingForgotten, Kept, Busy
<1>3. RemovedStaysGone
  BY DEF ReplInd, GoneIsLetGo, RemovedStaysGone, Busy
<1> QED
  BY <1>1, <1>2, <1>3 DEF ReplInvariant

\* No acknowledged object is forgotten between the primary and the secondary,
\* and none removed at rest comes back, whatever callers, worker and monitor
\* do in between and for every length of the queue.
THEOREM ReplicationCorrect == ReplSpec => []ReplInvariant
<1>1. ReplSpec => []ReplInd
  BY ReplInitInd, ReplStepInd, PTL DEF ReplSpec
<1> QED
  BY <1>1, ReplIndImplies, PTL

-----------------------------------------------------------------------------
\* PolicyLinter
(***************************************************************************)
(* Proof that the linter's two passes are enough for configurations of any *)
(* number of policies.                                                     *)
(***************************************************************************)

\* A conflict of several policies is a conflict of one or two of them.
LEMMA ConflictIsReported ==
  ASSUME NEW S \in SUBSET (1..Len(listed)), Conflicted(S)
  PROVE  Reported(S)
  <1>1. PICK k \in 1..Len(conflicts), p \in S, q \in S :
          /\ listed[p] \in mapped /\ listed[q] \in mapped
          /\ conflicts[k][1] \in implied[listed[p]]
          /\ conflicts[k][2] \in implied[listed[q]]
    BY DEF Conflicted
  <1>2. CASE p = q
    BY <1>1, <1>2 DEF Reported, SelfContradictory
  <1>3. CASE p < q
    BY <1>1, <1>3 DEF Reported, Unreachable
  <1>4. CASE q < p
    <2>1. Unreachable(q, p)
      BY <1>1 DEF Unreachable
    <2> QED
      BY <1>4, <2>1 DEF Reported
  <1>5. p \in Nat /\ q \in Nat
    OBVIOUS
  <1> QED
    BY <1>2, <1>3, <1>4, <1>5

\* And nothing else is reported.
LEMMA ReportIsConflict ==
  ASSUME NEW S \in SUBSET (1..Len(listed)), Reported(S)
  PROVE  Conflicted(S)
  <1>1. ASSUME NEW i \in S, SelfContradictory(i)
        PROVE  Conflicted(S)
    BY <1>1 DEF SelfContradictory, Conflicted
  <1>2. ASSUME NEW i \in S, NEW j \in S, Unreachable(i, j)
        PROVE  Conflicted(S)
    BY <1>2 DEF Unreachable, Conflicted
  <1> QED
    BY <1>1, <1>2 DEF Reported

\* For every registry the loader can build, of any size, a configuration implies
\* conflicting constraints exactly when Check reports one of its policies or one
\* of its pairs.
THEOREM LintCorrect == LintSpec => []LintComplete
  <1>1. LintComplete
    BY ConflictIsReported, ReportIsConflict DEF LintComplete
  <1> QED
    BY <1>1, PTL

-----------------------------------------------------------------------------
\* PolicyEngines
(***************************************************************************)
(* Proofs about PolicyEngines: how the kernel's, core's and the ready      *)
(* layer's evaluators compare, for any number of rules over any texts and  *)
(* priorities.                                                             *)
(***************************************************************************)

-----------------------------------------------------------------------------
\* The inductive invariant: the rules are rules and the value is a value.
PolTypes == /\ polRules \in Seq(PolicyRules) /\ polValue \in PolicyValues
            /\ polPlace \in {"plain", "path", "key"}

-----------------------------------------------------------------------------
(* Conditions *)

\* The fields of a rule.
LEMMA RuleFields ==
  ASSUME NEW r \in PolicyRules
  PROVE /\ r.op \in {"eq", "neq", "exists", "matches"} \cup ListOps \cup Orders
        /\ r.effect \in {"allow", "deny"}
        /\ r.priority \in Priorities
        /\ r.value \in Bounds
        /\ r.op = "matches" => \E t \in Texts : r.value = {t}
<1>1. \/ r \in [op : {"eq", "neq", "exists", "matches"} \cup Orders, value : OneText,
                form : {"text"}, priority : Priorities, effect : {"allow", "deny"}]
      \/ r \in [op : {"eq", "neq", "exists", "matches"} \cup Orders, value : OneNumber,
                form : {"number"}, priority : Priorities, effect : {"allow", "deny"}]
      \/ r \in [op : ListOps, value : Bounds, form : {"text", "list"},
                priority : Priorities, effect : {"allow", "deny"}]
  BY DEF PolicyRules
<1>2. /\ OneText \subseteq Bounds /\ OneNumber \subseteq Bounds
      /\ \A x \in OneText \cup OneNumber : \E t \in Texts : x = {t}
  BY PolicyAssumption DEF OneText, OneNumber
<1>3. "matches" \notin ListOps
  BY DEF ListOps
<1> QED BY <1>1, <1>2, <1>3

\* The operators are all different.
LEMMA OpsDiffer ==
  /\ \A op \in Orders : op \notin {"eq", "neq", "exists", "in", "not_in", "matches"}
  /\ ListOps = {"in", "not_in"}
BY DEF Orders, ListOps

\* The tokens of a list without blanks, of a text that is not empty.
LEMMA SameTokens ==
  ASSUME NEW B \in Bounds, B \cap Blanks = {}, NEW t, t # EmptyText
  PROVE /\ t \in KernelTokens(B) <=> t \in B
        /\ t \in CoreTokens(B) <=> t \in B
<1>1. CoreTokens(B) = B
  BY DEF CoreTokens
<1> QED BY <1>1 DEF KernelTokens

\* On a text that is not empty kernel and core agree about a rule whose numbers
\* and list they read alike.
LEMMA KernelIsCore ==
  ASSUME NEW r \in PolicyRules, NEW t \in Texts, t # EmptyText, polValue.text = t,
         NEW v, v = [kind |-> "text", text |-> t], SameReading(r)
  PROVE KernelMatches(r, t) <=> CoreMatches(r, v)
<1>1. v.kind = "text" /\ v.text = t /\ JsNumber(v) = NumberOf[t]
  BY DEF JsNumber
<1>2. CASE r.op \in Orders
  <2>1. NumberOf[t] = Stod(t) /\ \A u \in r.value : NumberOf[u] = Stod(u)
    BY <1>2 DEF SameReading, Stod
  <2>2. KernelMatches(r, t) <=> \E u \in r.value : Compare(r.op, Stod(t), Stod(u))
    BY <1>2, OpsDiffer DEF KernelMatches
  <2>3. CoreMatches(r, v) <=> \E u \in r.value : Compare(r.op, NumberOf[t], NumberOf[u])
    BY <1>1, <1>2, OpsDiffer DEF CoreMatches
  <2> QED BY <2>1, <2>2, <2>3
<1>3. CASE r.op = "matches"
  BY <1>1, <1>3, OpsDiffer DEF KernelMatches, CoreMatches
<1>4. CASE r.op \in ListOps
  <2>1. r.value \cap Blanks = {} /\ r.value \in Bounds
    BY <1>4, RuleFields DEF SameReading
  <2>2. t \in KernelTokens(r.value) <=> t \in CoreTokens(r.value)
    BY <2>1, SameTokens
  <2> QED BY <1>1, <1>4, <2>2, OpsDiffer DEF KernelMatches, CoreMatches
<1>5. CASE r.op \in {"eq", "neq", "exists"}
  BY <1>1, <1>5, OpsDiffer DEF KernelMatches, CoreMatches
<1> QED BY <1>2, <1>3, <1>4, <1>5, RuleFields

\* On a text the ready layer agrees with core about a well-formed rule.
LEMMA CoreIsReady ==
  ASSUME NEW r \in PolicyRules, NEW t \in Texts, t # EmptyText,
         NEW v, v = [kind |-> "text", text |-> t], SameReading(r), WellFormed(r)
  PROVE /\ CoreMatches(r, v) <=> ReadyMatches(r, v)
        /\ ReadyThrows(r, v) => ~ CoreMatches(r, v)
<1>1. v.kind = "text" /\ v.text = t
  OBVIOUS
<1>2. CASE r.op \in Orders
  <2>1. CoreMatches(r, v) <=> \E u \in r.value : Compare(r.op, JsNumber(v), NumberOf[u])
    BY <1>2, OpsDiffer DEF CoreMatches
  <2>2. ReadyMatches(r, v) <=> \E u \in r.value : Compare(r.op, JsNumber(v), NumberOf[u])
    BY <1>2, OpsDiffer DEF ReadyMatches
  <2> QED BY <1>2, <2>1, <2>2, OpsDiffer DEF ReadyThrows
<1>3. CASE r.op = "matches"
  <2>1. r.form = "text"
    BY <1>3 DEF WellFormed
  <2>2. CoreMatches(r, v) <=> \E u \in r.value : Finds(u, t)
    BY <1>1, <1>3, OpsDiffer DEF CoreMatches
  <2>3. ReadyMatches(r, v) <=> \E u \in r.value : Finds(u, t)
    BY <1>1, <1>3, <2>1, OpsDiffer DEF ReadyMatches
  <2>4. ASSUME ReadyThrows(r, v) PROVE ~ \E u \in r.value : Finds(u, t)
    <3>1. PICK p : r.value = {p}
      BY <1>3, RuleFields
    <3>2. p \in BadPatterns
      BY <2>4, <3>1 DEF ReadyThrows
    <3> QED BY <3>1, <3>2 DEF Finds
  <2> QED BY <2>2, <2>3, <2>4
<1>4. CASE r.op \in ListOps
  <2>1. r.value \cap Blanks = {} /\ r.value \in Bounds /\ r.form = "list"
    BY <1>4, RuleFields DEF SameReading, WellFormed
  <2>2. t \in CoreTokens(r.value) <=> t \in r.value
    BY <2>1, SameTokens
  <2> QED BY <1>1, <1>4, <2>1, <2>2, OpsDiffer DEF CoreMatches, ReadyMatches, ReadyThrows
<1>5. CASE r.op \in {"eq", "neq"}
  <2>1. r.form = "text"
    BY <1>5 DEF WellFormed
  <2> QED BY <1>1, <1>5, <2>1, OpsDiffer DEF CoreMatches, ReadyMatches, ReadyThrows
<1>6. CASE r.op = "exists"
  BY <1>1, <1>6, OpsDiffer DEF CoreMatches, ReadyMatches, ReadyThrows
<1> QED BY <1>2, <1>3, <1>4, <1>5, <1>6, RuleFields

LEMMA PlainValue ==
  ASSUME PolTypes, PlainText
  PROVE /\ polValue = [kind |-> "text", text |-> polValue.text]
        /\ polValue.text \in Texts /\ polValue.text # EmptyText
BY DEF PolTypes, PlainText, PolicyValues, Missing

LEMMA RuleAt ==
  ASSUME PolTypes, NEW i \in 1..Len(polRules)
  PROVE polRules[i] \in PolicyRules
BY DEF PolTypes

\* What a rule makes of a plain text, where kernel and core find it.
LEMMA RuleOfKernel ==
  ASSUME PolTypes, PlainText, polPlace # "key", NEW r \in PolicyRules, SameReading(r)
  PROVE KernelMatches(r, ExtractField(polPlace, polValue))
        <=> CoreMatches(r, ResolveField(polPlace, polValue))
<1>1. PICK t \in Texts : t = polValue.text /\ t # EmptyText
  BY PlainValue
<1>2. polValue = [kind |-> "text", text |-> t]
  BY <1>1, PlainValue
<1>3. ExtractField(polPlace, polValue) = t /\ ResolveField(polPlace, polValue) = polValue
  BY <1>1 DEF ExtractField, ResolveField, PlainText
<1>4. KernelMatches(r, t) <=> CoreMatches(r, polValue)
  BY <1>1, <1>2, KernelIsCore
<1> QED BY <1>3, <1>4

\* What it makes of it where the ready layer finds it too.
LEMMA RuleOfReady ==
  ASSUME PolTypes, PlainText, polPlace = "plain", NEW r \in PolicyRules, SameReading(r),
         WellFormed(r)
  PROVE /\ CoreMatches(r, ResolveField(polPlace, polValue))
           <=> ReadyMatches(r, ContextField(polPlace, polValue))
        /\ ReadyThrows(r, polValue) => ~ CoreMatches(r, ResolveField(polPlace, polValue))
<1>1. PICK t \in Texts : t = polValue.text /\ t # EmptyText
  BY PlainValue
<1>2. polValue = [kind |-> "text", text |-> t]
  BY <1>1, PlainValue
<1>3. ResolveField(polPlace, polValue) = polValue /\ ContextField(polPlace, polValue) = polValue
  BY DEF ResolveField, ContextField
<1>4. /\ CoreMatches(r, polValue) <=> ReadyMatches(r, polValue)
      /\ ReadyThrows(r, polValue) => ~ CoreMatches(r, polValue)
  BY <1>1, <1>2, CoreIsReady
<1> QED BY <1>3, <1>4

LEMMA ConditionsHold == PolTypes => ConditionsAgree
BY RuleAt, RuleOfKernel, RuleOfReady DEF ConditionsAgree

-----------------------------------------------------------------------------
(* Priorities *)

LEMMA LeastNatural ==
  ASSUME NEW T \in SUBSET Nat, T # {}
  PROVE \E x \in T : \A y \in T : x <= y
<1>1. PICK x \in T : \A y \in T : ~ (<<y, x>> \in OpToRel(<, Nat))
  BY WFMin, NatLessThanWellFounded, Zenon
<1>2. \A y \in T : ~ (y < x)
  BY <1>1 DEF OpToRel
<1> QED BY <1>2

\* Some place of a finite list has the greatest height: by induction on its
\* length, as the absence of a least counterexample.
LEMMA TallestExists ==
  ASSUME NEW n \in Nat, NEW S \in SUBSET (1..n), S # {}, NEW h \in [S -> Int]
  PROVE \E m \in S : \A j \in S : h[j] <= h[m]
<1> DEFINE Upto(k) == S \cap (1..k)
           Has(k) == \E m \in Upto(k) : \A j \in Upto(k) : h[j] <= h[m]
           Bad == {k \in 0..n : Upto(k) # {} /\ ~ Has(k)}
<1>0. n \in 0..n /\ Upto(n) = S
  <2>1. S \subseteq 1..n
    OBVIOUS
  <2>2. S \cap (1..n) = S
    BY <2>1
  <2> QED BY <2>2
<1>1. CASE Bad = {}
  <2>1. Has(n)
    BY <1>0, <1>1
  <2> QED BY <1>0, <2>1
<1>2. CASE Bad # {}
  <2>1. Bad \in SUBSET Nat
    OBVIOUS
  <2>2. PICK b \in Bad : \A k \in Bad : b <= k
    BY <1>2, <2>1, LeastNatural
  <2>3. b \in 1..n
    <3>1. Upto(0) = {}
      OBVIOUS
    <3> QED BY <3>1
  <2>4. b - 1 \notin Bad /\ b - 1 \in 0..n
    BY <2>2, <2>3
  <2>5. Upto(b) \subseteq Upto(b - 1) \cup {b} /\ Upto(b - 1) \subseteq Upto(b)
    BY <2>3
  <2>6. CASE b \notin S
    <3>1. Upto(b) = Upto(b - 1)
      BY <2>5, <2>6
    <3> QED BY <3>1, <2>4
  <2>7. CASE b \in S /\ Upto(b - 1) = {}
    <3>1. Upto(b) = {b}
      BY <2>3, <2>5, <2>7
    <3>2. Has(b)
      BY <3>1, <2>7
    <3> QED BY <3>2
  <2>8. CASE b \in S /\ Upto(b - 1) # {}
    <3>1. PICK m \in Upto(b - 1) : \A j \in Upto(b - 1) : h[j] <= h[m]
      BY <2>4, <2>8
    <3>2. b \in Upto(b) /\ m \in Upto(b)
      BY <2>3, <2>5, <2>8
    <3>3. CASE h[b] <= h[m]
      BY <3>1, <3>2, <3>3, <2>5
    <3>4. CASE ~ (h[b] <= h[m])
      <4>1. \A j \in Upto(b) : h[j] <= h[b]
        BY <3>1, <3>4, <2>5, <2>8
      <4> QED BY <4>1, <3>2
    <3> QED BY <3>3, <3>4
  <2> QED BY <2>6, <2>7, <2>8
<1> QED BY <1>1, <1>2

\* The rule core takes: of the greatest priority, and of those the first.
LEMMA FirstOfForemost ==
  ASSUME PolTypes, NEW S \in SUBSET (1..Len(polRules)), S # {}
  PROVE /\ Min(Foremost(S)) \in Foremost(S)
        /\ \A j \in S : \/ polRules[j].priority < polRules[Min(Foremost(S))].priority
                        \/ /\ polRules[j].priority = polRules[Min(Foremost(S))].priority
                           /\ Min(Foremost(S)) <= j
<1>1. Len(polRules) \in Nat
  BY DEF PolTypes
<1>2. \A i \in S : polRules[i].priority \in Int
  <2> SUFFICES ASSUME NEW i \in S PROVE polRules[i].priority \in Int
    OBVIOUS
  <2>1. polRules[i] \in PolicyRules
    BY RuleAt
  <2>2. polRules[i].priority \in Priorities
    BY <2>1, RuleFields
  <2> QED BY <2>2, PolicyAssumption
<1>3. Foremost(S) # {}
  <2> DEFINE h == [i \in S |-> polRules[i].priority]
  <2>1. h \in [S -> Int]
    BY <1>2
  <2>2. PICK m \in S : \A j \in S : h[j] <= h[m]
    BY <1>1, <2>1, TallestExists
  <2> QED BY <2>2 DEF Foremost
<1>4. Foremost(S) \in SUBSET Nat /\ Foremost(S) \subseteq S
  <2>1. 1..Len(polRules) \subseteq Nat
    BY <1>1
  <2>2. Foremost(S) \subseteq S
    BY DEF Foremost
  <2> QED BY <2>1, <2>2
<1>5. \E x \in Foremost(S) : \A y \in Foremost(S) : x <= y
  BY <1>3, <1>4, LeastNatural
<1>6. PICK m \in Foremost(S) : m = Min(Foremost(S)) /\ \A y \in Foremost(S) : m <= y
  BY <1>5 DEF Min
<1>7. ASSUME NEW j \in S
      PROVE \/ polRules[j].priority < polRules[m].priority
            \/ polRules[j].priority = polRules[m].priority /\ m <= j
  <2>1. polRules[j].priority <= polRules[m].priority
    BY DEF Foremost
  <2>2. ASSUME polRules[j].priority = polRules[m].priority PROVE j \in Foremost(S)
    BY <2>2 DEF Foremost
  <2> QED BY <2>1, <2>2, <1>2, <1>4, <1>6
<1> QED BY <1>6, <1>7

-----------------------------------------------------------------------------
(* Decisions *)

LEMMA DecisionsHold == PolTypes => ReadyDeniesMore
<1> SUFFICES ASSUME PolTypes, PlainText, polPlace = "plain",
                    \A i \in 1..Len(polRules) :
                      SameReading(polRules[i]) /\ WellFormed(polRules[i])
             PROVE /\ CoreDecision \in KernelDecisions
                   /\ ReadyDecision # "error" =>
                        (CoreDecision # ReadyDecision <=>
                          /\ ReadyMatching("deny") # {}
                          /\ \E i \in ReadyMatching("allow") :
                               \A j \in ReadyMatching("deny") : Before(i, j))
  BY DEF ReadyDeniesMore
<1>0. 1..Len(polRules) \subseteq Int
  <2>1. Len(polRules) \in Nat
    BY DEF PolTypes
  <2> QED BY <2>1
<1> DEFINE S == CoreMatching
           A == {i \in S : polRules[i].effect = "allow"}
           D == {i \in S : polRules[i].effect = "deny"}
<1>1. \A i \in 1..Len(polRules) :
        /\ KernelMatches(polRules[i], ExtractField(polPlace, polValue))
           <=> CoreMatches(polRules[i], ResolveField(polPlace, polValue))
        /\ CoreMatches(polRules[i], ResolveField(polPlace, polValue))
           <=> ReadyMatches(polRules[i], ContextField(polPlace, polValue))
  BY RuleAt, RuleOfKernel, RuleOfReady
<1>12. S \in SUBSET (1..Len(polRules))
  BY DEF CoreMatching
<1>2. \A i \in S : polRules[i].effect \in {"allow", "deny"} /\ polRules[i].priority \in Int
  <2> SUFFICES ASSUME NEW i \in S
               PROVE polRules[i].effect \in {"allow", "deny"} /\ polRules[i].priority \in Int
    OBVIOUS
  <2>1. polRules[i] \in PolicyRules
    BY <1>12, RuleAt
  <2>2. polRules[i].effect \in {"allow", "deny"} /\ polRules[i].priority \in Priorities
    BY <2>1, RuleFields
  <2> QED BY <2>2, PolicyAssumption
<1>3. KernelDecisions = IF S = {} THEN {"deny"} ELSE {polRules[i].effect : i \in Foremost(S)}
  <2>1. KernelMatching = S
    BY <1>1 DEF KernelMatching, CoreMatching
  <2> QED BY <2>1 DEF KernelDecisions
<1>4. CoreDecision = IF S = {} THEN "deny" ELSE polRules[Min(Foremost(S))].effect
  BY DEF CoreDecision
<1>5. ReadyMatching("allow") = A /\ ReadyMatching("deny") = D
  BY <1>1 DEF ReadyMatching, CoreMatching
<1>6. ReadyDecision # "error" =>
        ReadyDecision = IF D = {} /\ A # {} THEN "allow" ELSE "deny"
  BY <1>5 DEF ReadyDecision
<1>7. A \cup D = S /\ A \subseteq S /\ D \subseteq S
  BY <1>2
<1>8. \A i \in S : (i \in A <=> polRules[i].effect = "allow")
                   /\ (i \in D <=> polRules[i].effect = "deny")
  OBVIOUS
<1>9. S \subseteq Int
  BY <1>0, <1>12
<1> HIDE DEF S, A, D
<1>10. CASE S = {}
  BY <1>10, <1>3, <1>4, <1>5, <1>6, <1>7
<1>11. CASE S # {}
  <2>1. PICK m \in Foremost(S) :
          /\ m = Min(Foremost(S))
          /\ \A j \in S : \/ polRules[j].priority < polRules[m].priority
                          \/ polRules[j].priority = polRules[m].priority /\ m <= j
    BY <1>12, <1>11, FirstOfForemost
  <2>2. m \in S /\ CoreDecision = polRules[m].effect
    BY <1>4, <1>11, <2>1 DEF Foremost
  <2>3. CoreDecision \in KernelDecisions
    BY <1>3, <1>11, <2>1, <2>2
  <2>4. CASE D = {}
    BY <2>2, <2>3, <2>4, <1>5, <1>6, <1>7, <1>8
  <2>5. CASE D # {}
    <3>1. ReadyDecision # "error" => (CoreDecision # ReadyDecision <=> m \in A)
      BY <2>2, <2>5, <1>2, <1>6, <1>8
    <3>2. ASSUME m \in A, NEW j \in D
          PROVE Before(m, j)
      <4>1. j \in S /\ j # m
        BY <3>2, <1>7, <1>8
      <4>2. \/ polRules[j].priority < polRules[m].priority
            \/ polRules[j].priority = polRules[m].priority /\ m <= j
        BY <4>1, <2>1
      <4>3. polRules[j].priority \in Int /\ polRules[m].priority \in Int /\ m \in Int /\ j \in Int
        BY <4>1, <2>2, <1>2, <1>9
      <4> QED BY <4>1, <4>2, <4>3 DEF Before
    <3>3. ASSUME NEW i \in A, m \in D, Before(i, m)
          PROVE FALSE
      <4>1. i \in S /\ m \in S
        BY <2>2, <1>7
      <4>2. \/ polRules[i].priority < polRules[m].priority
            \/ polRules[i].priority = polRules[m].priority /\ m <= i
        BY <4>1, <2>1
      <4>3. polRules[i].priority \in Int /\ polRules[m].priority \in Int /\ m \in Int /\ i \in Int
        BY <4>1, <1>2, <1>9
      <4> QED BY <4>2, <4>3, <3>3 DEF Before
    <3>4. m \in A \/ m \in D
      BY <2>2, <1>7
    <3> QED BY <2>3, <2>5, <3>1, <3>2, <3>3, <3>4, <1>5
  <2> QED BY <2>4, <2>5
<1> QED BY <1>10, <1>11

\* On texts that are not empty, kernel and core agree on the conditions whose
\* numbers and lists they read alike and the ready layer on the well-formed ones
\* of fields without dots; core's decision is one the kernel may take, and the
\* ready layer, where no pattern throws, differs from core exactly when it denies
\* by a rule that a matching allow rule outranks.
THEOREM EvaluatorsCorrect == PolSpec => []EvaluatorsCompare
<1>1. PolInit => PolTypes
  BY DEF PolInit, PolTypes
<1>2. PolTypes /\ [PolNext]_polVars => PolTypes'
  BY DEF PolTypes, PolNext, AddRule, polVars
<1>3. PolTypes => EvaluatorsCompare
  BY ConditionsHold, DecisionsHold DEF EvaluatorsCompare
<1> QED BY <1>1, <1>2, <1>3, PTL DEF PolSpec

-----------------------------------------------------------------------------
\* PlanExecution
(***************************************************************************)
(* Proofs about PlanExecution: the topological sort of plan_validate       *)
(* accepts exactly the sound plans, and plan_execute follows it.           *)
(*                                                                         *)
(* The invariant of the sort says what the in-degrees count (the edges to  *)
(* steps that were not visited yet) and what the heap holds (the steps     *)
(* that wait for none); a plan whose heap ran empty before every step was  *)
(* visited has a set of steps that wait for each other, and only then.     *)
(***************************************************************************)

-----------------------------------------------------------------------------
PlanSteps == [id : StepIds, needs : SUBSET StepIds]

\* The edges into the steps with an id, and those not yet visited.
Edges(st, id) ==
    {e \in (DOMAIN st) \X StepIds : st[e[1]].id = id /\ e[2] \in st[e[1]].needs}

Waits(st, seen, id) == {e \in Edges(st, id) : e[2] \notin seen}

\* The first n ids of an order.
Behind(o, n) == {o[k] : k \in 1..n}

Visited == Behind(order, Len(order))

Counted == \A id \in StepIds : degree[id] = Cardinality(Waits(steps, Visited, id))

HeapIsReady ==
    heap = {id \in Listed : Waits(steps, Visited, id) = {} /\ id \notin Visited}

OrderOnce ==
    /\ Visited \subseteq Listed
    /\ \A j, k \in DOMAIN order : order[j] = order[k] => j = k
    /\ IsFiniteSet(Visited) /\ Len(order) = Cardinality(Visited)

OrderClosed == \A k \in DOMAIN order : DependsOn(order[k]) \subseteq Behind(order, k - 1)

LeastFirst ==
    \A i \in DOMAIN order : \A id \in Listed :
        (id < order[i] /\ DependsOn(id) \subseteq Behind(order, i - 1))
            => id \in Behind(order, i - 1)

Sorted == Counted /\ HeapIsReady /\ OrderOnce /\ OrderClosed /\ LeastFirst

\* The errors found before the sort.
Early == {e \in {"empty", "duplicate", "unknown"} :
            \/ e = "empty" /\ EmptyId \in Listed
            \/ e = "duplicate" /\ Duplicated
            \/ e = "unknown" /\ UnknownNeeded}

PlanVerdict ==
    planPhase \in {"running", "done", "refused"} =>
        /\ heap = {}
        /\ (planPhase # "refused") <=>
              ~ (EmptyId \in Listed \/ Duplicated \/ UnknownNeeded \/ Len(order) < Len(steps))

\* What plan_execute has done: the first steps of the order have a result.
Executed ==
    /\ planPhase \notin {"running", "done"} => position = 0
    /\ planPhase = "done" => position = Len(order)
    /\ \A id \in StepIds : results[id] # "none" <=> id \in Behind(order, position)
    /\ CarriedOutAfterDependencies
    /\ \A id \in StepIds :
          results[id] = "dependency_failed" => \E dep \in DependsOn(id) : Failed(dep)

\* The inductive invariant of plans.
PlanInd ==
    /\ PlanTypeOK
    /\ planPhase = "drafting" => order = <<>>
    /\ planPhase = "sorting" => planErrors = Early
    /\ planPhase # "drafting" => Sorted
    /\ PlanVerdict
    /\ Executed

-----------------------------------------------------------------------------
(* Edges *)

LEMMA EdgesFinite ==
    ASSUME NEW st \in Seq(PlanSteps), NEW seen, NEW id
    PROVE IsFiniteSet(Edges(st, id)) /\ IsFiniteSet(Waits(st, seen, id))
<1>1. IsFiniteSet(DOMAIN st)
  <2>1. DOMAIN st = 1..Len(st) /\ Len(st) \in Int
    OBVIOUS
  <2> QED BY <2>1, FS_Interval
<1>2. IsFiniteSet((DOMAIN st) \X StepIds)
  BY <1>1, FS_Product, PlanAssumption
<1> QED BY <1>2, FS_Subset DEF Edges, Waits

\* A step waits for nothing when all it depends on was visited.
LEMMA WaitsForNone ==
    ASSUME steps \in Seq(PlanSteps), NEW seen, NEW id
    PROVE Waits(steps, seen, id) = {} <=> DependsOn(id) \subseteq seen
<1>1. ASSUME Waits(steps, seen, id) = {}, NEW d \in DependsOn(id) PROVE d \in seen
  <2>1. PICK i \in DOMAIN steps : steps[i].id = id /\ d \in steps[i].needs
    BY DEF DependsOn
  <2>2. steps[i] \in PlanSteps
    OBVIOUS
  <2>3. d \in StepIds
    BY <2>1, <2>2 DEF PlanSteps
  <2>4. <<i, d>> \in Edges(steps, id)
    BY <2>1, <2>3 DEF Edges
  <2> QED BY <2>4, <1>1 DEF Waits
<1>2. ASSUME DependsOn(id) \subseteq seen, NEW e \in Waits(steps, seen, id) PROVE FALSE
  <2>1. e[1] \in DOMAIN steps /\ steps[e[1]].id = id /\ e[2] \in steps[e[1]].needs
    BY DEF Waits, Edges
  <2>2. e[2] \in DependsOn(id)
    BY <2>1 DEF DependsOn
  <2> QED BY <2>2, <1>2 DEF Waits
<1> QED BY <1>1, <1>2

\* Visiting an id takes away one edge for every step that depends on it.
LEMMA VisitCounts ==
    ASSUME NEW st \in Seq(PlanSteps), NEW seen, NEW cur \in StepIds, cur \notin seen, NEW id
    PROVE /\ Cardinality(Waits(st, seen \cup {cur}, id))
               = Cardinality(Waits(st, seen, id))
                   - Cardinality({i \in DOMAIN st : st[i].id = id /\ cur \in st[i].needs})
          /\ Cardinality(Waits(st, seen, id)) \in Nat
          /\ Cardinality(Waits(st, seen \cup {cur}, id)) \in Nat
<1> DEFINE W == Waits(st, seen, id)
           T == {e \in Edges(st, id) : e[2] = cur}
           S == {i \in DOMAIN st : st[i].id = id /\ cur \in st[i].needs}
<1>1. IsFiniteSet(W) /\ IsFiniteSet(Waits(st, seen \cup {cur}, id)) /\ IsFiniteSet(T)
  BY EdgesFinite, FS_Subset
<1>2. Waits(st, seen \cup {cur}, id) = W \ T /\ W \cap T = T
  BY DEF Waits
<1>3. Cardinality(W \ T) = Cardinality(W) - Cardinality(W \cap T)
  BY <1>1, FS_Difference
<1>4. Cardinality(T) = Cardinality(S)
  <2> DEFINE f == [i \in S |-> <<i, cur>>]
  <2>1. \A i \in S : <<i, cur>> \in T
    BY DEF Edges
  <2>2. f \in [S -> T]
    BY <2>1
  <2>3. \A i, j \in S : f[i] = f[j] => i = j
    OBVIOUS
  <2>4. ASSUME NEW e \in T PROVE \E i \in S : f[i] = e
    <3>1. e \in (DOMAIN st) \X StepIds /\ st[e[1]].id = id /\ e[2] \in st[e[1]].needs /\ e[2] = cur
      BY DEF Edges
    <3>2. e[1] \in S /\ e = <<e[1], cur>>
      BY <3>1
    <3> QED BY <3>2
  <2>5. f \in Bijection(S, T)
    BY <2>2, <2>3, <2>4 DEF Bijection, Injection, Surjection, IsInjective
  <2>6. IsFiniteSet(S)
    <3>1. DOMAIN st = 1..Len(st) /\ Len(st) \in Int
      OBVIOUS
    <3>2. IsFiniteSet(DOMAIN st)
      BY <3>1, FS_Interval
    <3> QED BY <3>2, FS_Subset
  <2> QED BY <2>5, <2>6, FS_Bijection DEF ExistsBijection
<1>5. Cardinality(W) \in Nat /\ Cardinality(Waits(st, seen \cup {cur}, id)) \in Nat
  BY <1>1, FS_CardinalityType
<1> QED BY <1>2, <1>3, <1>4, <1>5

-----------------------------------------------------------------------------
(* Orders *)

LEMMA AppendOrder ==
    ASSUME NEW o \in Seq(StepIds), NEW cur \in StepIds
    PROVE /\ Append(o, cur) \in Seq(StepIds)
          /\ Len(Append(o, cur)) = Len(o) + 1 /\ Len(o) \in Nat
          /\ DOMAIN o = 1..Len(o) /\ DOMAIN Append(o, cur) = 1..(Len(o) + 1)
          /\ \A k \in 1..Len(o) : Append(o, cur)[k] = o[k]
          /\ Append(o, cur)[Len(o) + 1] = cur
OBVIOUS

LEMMA AppendBehind ==
    ASSUME NEW o \in Seq(StepIds), NEW cur \in StepIds
    PROVE /\ \A n \in 0..Len(o) : Behind(Append(o, cur), n) = Behind(o, n)
          /\ Behind(Append(o, cur), Len(o) + 1) = Behind(o, Len(o)) \cup {cur}
<1>1. ASSUME NEW n \in 0..Len(o) PROVE Behind(Append(o, cur), n) = Behind(o, n)
  <2>1. \A k \in 1..n : Append(o, cur)[k] = o[k]
    BY AppendOrder
  <2> QED BY <2>1, Zenon DEF Behind
<1>2. Behind(Append(o, cur), Len(o) + 1) = Behind(o, Len(o)) \cup {cur}
  <2>1. 1..(Len(o) + 1) = (1..Len(o)) \cup {Len(o) + 1}
    BY AppendOrder
  <2>2. \A k \in 1..Len(o) : Append(o, cur)[k] = o[k]
    BY AppendOrder
  <2>3. Append(o, cur)[Len(o) + 1] = cur
    BY AppendOrder
  <2> QED BY <2>1, <2>2, <2>3, Zenon DEF Behind
<1> QED BY <1>1, <1>2

-----------------------------------------------------------------------------
(* plan_validate *)

LEMMA PlanIndInit == PlanInit => PlanInd
<1> SUFFICES ASSUME PlanInit PROVE PlanInd
  OBVIOUS
<1>1. PlanTypeOK
  BY DEF PlanInit, PlanTypeOK
<1>2. \A id \in StepIds : results[id] = "none"
  BY DEF PlanInit
<1>3. Behind(order, position) = {}
  BY DEF PlanInit, Behind
<1>4. Executed
  BY <1>2, <1>3 DEF PlanInit, Executed, CarriedOutAfterDependencies
<1> QED BY <1>1, <1>4 DEF PlanInit, PlanInd, PlanVerdict

LEMMA AddStepInd ==
    ASSUME PlanInd, NEW id \in StepIds, NEW needs \in SUBSET StepIds, AddStep(id, needs)
    PROVE PlanInd'
<1>1. planPhase = "drafting" /\ order = <<>> /\ position = 0
  BY DEF AddStep, PlanInd, Executed
<1>2. /\ steps' = Append(steps, [id |-> id, needs |-> needs])
      /\ UNCHANGED <<planPhase, planErrors, degree, heap, order, position, results>>
  BY DEF AddStep
<1>3. PlanTypeOK'
  BY <1>2 DEF PlanInd, PlanTypeOK
<1>4. Behind(order, position) = {}
  BY <1>1 DEF Behind
<1>5. \A d \in StepIds : results[d] = "none"
  BY <1>4 DEF PlanInd, Executed
<1>6. Executed'
  BY <1>1, <1>2, <1>4, <1>5 DEF Executed, CarriedOutAfterDependencies
<1> QED BY <1>1, <1>2, <1>3, <1>6 DEF PlanInd, PlanVerdict

LEMMA StepsTyped == PlanInd => steps \in Seq(PlanSteps) /\ Listed \subseteq StepIds
<1> SUFFICES ASSUME PlanInd PROVE steps \in Seq(PlanSteps) /\ Listed \subseteq StepIds
  OBVIOUS
<1>1. steps \in Seq(PlanSteps)
  BY DEF PlanInd, PlanTypeOK, PlanSteps
<1>2. \A i \in DOMAIN steps : steps[i] \in PlanSteps
  BY <1>1
<1> QED BY <1>1, <1>2 DEF Listed, PlanSteps

LEMMA BeginSortInd ==
    ASSUME PlanInd, BeginSort
    PROVE PlanInd'
<1>1. planPhase = "drafting" /\ order = <<>> /\ position = 0
  BY DEF BeginSort, PlanInd, Executed
<1>2. /\ planPhase' = "sorting" /\ planErrors' = Early
      /\ degree' = [id \in StepIds |-> IF id \in Listed THEN InDegree(id) ELSE 0]
      /\ heap' = {id \in Listed : InDegree(id) = 0}
      /\ UNCHANGED <<steps, order, position, results>>
  BY DEF BeginSort, Early
<1>3. steps \in Seq(PlanSteps) /\ Listed \subseteq StepIds
  BY StepsTyped
<1>4. Visited = {} /\ Visited' = {}
  BY <1>1, <1>2 DEF Visited, Behind
<1>5. \A id : Waits(steps, {}, id) = Edges(steps, id)
  BY DEF Waits
<1>6. \A id : /\ InDegree(id) = Cardinality(Edges(steps, id))
              /\ InDegree(id) \in Nat
              /\ InDegree(id) = 0 <=> Edges(steps, id) = {}
  <2> SUFFICES ASSUME NEW id
               PROVE /\ InDegree(id) = Cardinality(Edges(steps, id))
                     /\ InDegree(id) \in Nat
                     /\ InDegree(id) = 0 <=> Edges(steps, id) = {}
    OBVIOUS
  <2>1. InDegree(id) = Cardinality(Edges(steps, id))
    BY DEF InDegree, Edges
  <2>2. IsFiniteSet(Edges(steps, id))
    BY <1>3, EdgesFinite
  <2> QED BY <2>1, <2>2, FS_CardinalityType, FS_EmptySet
<1>7. PlanTypeOK'
  <2>1. degree' \in [StepIds -> Nat]
    BY <1>2, <1>6
  <2>2. heap' \subseteq StepIds
    BY <1>2, <1>3
  <2>3. planErrors' \subseteq {"empty", "duplicate", "unknown", "cycle"}
    BY <1>2 DEF Early
  <2> QED BY <2>1, <2>2, <2>3, <1>2 DEF PlanInd, PlanTypeOK
<1>8. \A id \in StepIds : id \notin Listed => Edges(steps, id) = {}
  BY DEF Edges, Listed
<1>9. Counted'
  <2> SUFFICES ASSUME NEW id \in StepIds PROVE degree'[id] = Cardinality(Waits(steps, {}, id))
    BY <1>2, <1>4 DEF Counted
  <2>1. CASE id \in Listed
    BY <2>1, <1>2, <1>5, <1>6
  <2>2. CASE id \notin Listed
    <3>1. Waits(steps, {}, id) = {}
      BY <2>2, <1>5, <1>8
    <3> QED BY <3>1, <2>2, <1>2, FS_EmptySet
  <2> QED BY <2>1, <2>2
<1>10. HeapIsReady'
  <2>1. Listed' = Listed
    BY <1>2 DEF Listed
  <2> QED BY <2>1, <1>2, <1>4, <1>5, <1>6 DEF HeapIsReady
<1>11. (OrderOnce /\ OrderClosed /\ LeastFirst)'
  <2>1. order' = <<>> /\ DOMAIN order' = {} /\ Len(order') = 0
    BY <1>1, <1>2
  <2> QED BY <2>1, <1>4, FS_EmptySet DEF OrderOnce, OrderClosed, LeastFirst
<1>12. Executed'
  BY <1>1, <1>2 DEF PlanInd, Executed, CarriedOutAfterDependencies, DependsOn, Failed
<1>13. (planErrors = Early)'
  BY <1>2 DEF Early, Listed, Duplicated, UnknownNeeded
<1> QED BY <1>2, <1>7, <1>9, <1>10, <1>11, <1>12, <1>13 DEF PlanInd, Sorted, PlanVerdict

\* One turn of the loop: the counts and the heap.
LEMMA VisitSorts ==
    ASSUME PlanInd, Sorted, NEW cur \in heap, IsLeast(cur, heap),
           order' = Append(order, cur), degree' = Reduced(cur),
           heap' = (heap \ {cur}) \cup Released(cur), steps' = steps
    PROVE Sorted' /\ degree' \in [StepIds -> Nat] /\ heap' \subseteq StepIds
<1>1. steps \in Seq(PlanSteps) /\ Listed \subseteq StepIds
  BY StepsTyped
<1>2. /\ cur \in StepIds /\ cur \in Listed /\ cur \notin Visited
      /\ Waits(steps, Visited, cur) = {}
  BY <1>1 DEF Sorted, HeapIsReady
<1>3. PICK o \in Seq(StepIds) : o = order
  BY DEF PlanInd, PlanTypeOK
<1>4. PICK seen : seen = Visited
  OBVIOUS
<1>5. Visited' = seen \cup {cur} /\ seen = Behind(o, Len(o))
  BY <1>2, <1>3, <1>4, AppendOrder, AppendBehind DEF Visited
<1>6. /\ Len(order') = Len(o) + 1 /\ Len(o) \in Nat
      /\ DOMAIN o = 1..Len(o) /\ DOMAIN order' = 1..(Len(o) + 1)
      /\ \A k \in 1..Len(o) : order'[k] = o[k]
      /\ order'[Len(o) + 1] = cur
      /\ \A n \in 0..Len(o) : Behind(order', n) = Behind(o, n)
  BY <1>2, <1>3, AppendOrder, AppendBehind
<1>7. Listed' = Listed /\ \A id : DependsOn(id)' = DependsOn(id)
  BY DEF Listed, DependsOn
<1> DEFINE Left(id) == Waits(steps, seen \cup {cur}, id)
<1>8. \A id : /\ Cardinality(Left(id)) = Cardinality(Waits(steps, seen, id)) - Successors(cur, id)
              /\ Cardinality(Left(id)) \in Nat /\ Cardinality(Waits(steps, seen, id)) \in Nat
  <2> SUFFICES ASSUME NEW id
               PROVE /\ Cardinality(Left(id))
                          = Cardinality(Waits(steps, seen, id)) - Successors(cur, id)
                     /\ Cardinality(Left(id)) \in Nat
                     /\ Cardinality(Waits(steps, seen, id)) \in Nat
    OBVIOUS
  <2>1. cur \notin seen
    BY <1>2, <1>4
  <2>2. Successors(cur, id) = Cardinality({i \in DOMAIN steps :
                                             steps[i].id = id /\ cur \in steps[i].needs})
    BY DEF Successors
  <2>3. PICK st \in Seq(PlanSteps) : st = steps
    BY <1>1
  <2>4. /\ Cardinality(Waits(st, seen \cup {cur}, id))
             = Cardinality(Waits(st, seen, id))
                 - Cardinality({i \in DOMAIN st : st[i].id = id /\ cur \in st[i].needs})
        /\ Cardinality(Waits(st, seen, id)) \in Nat
        /\ Cardinality(Waits(st, seen \cup {cur}, id)) \in Nat
    BY <2>1, <1>2, VisitCounts
  <2> QED BY <2>2, <2>3, <2>4
<1>9. \A id \in StepIds : degree[id] = Cardinality(Waits(steps, seen, id))
  BY <1>4 DEF Sorted, Counted
<1>10. \A id \in StepIds : Reduced(cur)[id] = Cardinality(Left(id))
  BY <1>8, <1>9 DEF Reduced
<1>11. \A id : /\ Cardinality(Left(id)) = 0 <=> Left(id) = {}
               /\ Cardinality(Waits(steps, seen, id)) = 0 <=> Waits(steps, seen, id) = {}
  BY <1>1, EdgesFinite, FS_EmptySet
<1>12. Counted' /\ degree' \in [StepIds -> Nat]
  <2>1. degree' \in [StepIds -> Nat]
    BY <1>8, <1>10 DEF Reduced
  <2>2. \A id \in StepIds : degree'[id] = Cardinality(Left(id))
    BY <1>10
  <2> QED BY <2>1, <2>2, <1>5 DEF Counted
<1>13. \A id \in Listed : id \in Released(cur) <=> Waits(steps, seen, id) # {} /\ Left(id) = {}
  <2> SUFFICES ASSUME NEW id \in Listed
               PROVE id \in Released(cur) <=> Waits(steps, seen, id) # {} /\ Left(id) = {}
    OBVIOUS
  <2>1. id \in Released(cur) <=> degree[id] > 0 /\ Reduced(cur)[id] = 0
    BY DEF Released
  <2>2. degree[id] = Cardinality(Waits(steps, seen, id)) /\ degree[id] \in Nat
    BY <1>1, <1>8, <1>9
  <2>3. Reduced(cur)[id] = Cardinality(Left(id))
    BY <1>1, <1>10
  <2>4. degree[id] > 0 <=> Waits(steps, seen, id) # {}
    BY <2>2, <1>11
  <2> QED BY <2>1, <2>3, <2>4, <1>11
<1>14. \A id : Left(id) \subseteq Waits(steps, seen, id)
  BY DEF Waits
\* What was visited waits for nothing, so nothing enters the heap twice.
<1>15. \A id \in seen \cup {cur} : Waits(steps, seen, id) = {}
  <2> SUFFICES ASSUME NEW id \in seen PROVE Waits(steps, seen, id) = {}
    BY <1>2, <1>4
  <2>1. PICK k \in 1..Len(o) : o[k] = id
    BY <1>5 DEF Behind
  <2>2. DependsOn(id) \subseteq Behind(o, k - 1)
    BY <2>1, <1>3, <1>6 DEF Sorted, OrderClosed
  <2>3. Behind(o, k - 1) \subseteq seen
    <3>1. 1..(k - 1) \subseteq 1..Len(o)
      BY <1>6
    <3> QED BY <3>1, <1>5, Zenon DEF Behind
  <2> QED BY <2>2, <2>3, <1>1, WaitsForNone
<1>16. HeapIsReady' /\ heap' \subseteq StepIds
  <2>1. heap = {id \in Listed : Waits(steps, seen, id) = {} /\ id \notin seen}
    BY <1>4 DEF Sorted, HeapIsReady
  <2>2. Released(cur) \subseteq Listed
    BY DEF Released
  <2>3. heap' = {id \in Listed : Left(id) = {} /\ id \notin seen \cup {cur}}
    <3>1. ASSUME NEW id \in heap' PROVE id \in Listed /\ Left(id) = {} /\ id \notin seen \cup {cur}
      <4> HIDE DEF Left
      <4>1. CASE id \in Released(cur)
        BY <4>1, <2>2, <1>13, <1>15
      <4>2. CASE id \in heap \ {cur}
        BY <4>2, <2>1, <1>14
      <4> QED BY <4>1, <4>2
    <3>2. ASSUME NEW id \in Listed, Left(id) = {}, id \notin seen \cup {cur} PROVE id \in heap'
      <4> HIDE DEF Left
      <4>1. CASE Waits(steps, seen, id) = {}
        BY <3>2, <4>1, <2>1
      <4>2. CASE Waits(steps, seen, id) # {}
        BY <3>2, <4>2, <1>13
      <4> QED BY <4>1, <4>2
    <3> HIDE DEF Left
    <3> QED BY <3>1, <3>2
  <2>4. heap' \subseteq StepIds
    BY <2>3, <1>1
  <2> QED BY <2>3, <2>4, <1>5, <1>7 DEF HeapIsReady
<1>17. OrderOnce'
  <2>1. /\ seen \subseteq Listed
        /\ \A j, k \in 1..Len(o) : o[j] = o[k] => j = k
        /\ IsFiniteSet(seen) /\ Len(o) = Cardinality(seen)
    BY <1>3, <1>4, <1>6 DEF Sorted, OrderOnce
  <2>2. IsFiniteSet(seen \cup {cur}) /\ Cardinality(seen \cup {cur}) = Len(o) + 1
    BY <2>1, <1>2, <1>4, FS_AddElement
  <2>3. \A k \in 1..Len(o) : o[k] # cur
    BY <1>2, <1>4, <1>5 DEF Behind
  <2>4. ASSUME NEW j \in 1..(Len(o) + 1), NEW k \in 1..(Len(o) + 1), order'[j] = order'[k]
        PROVE j = k
    <3>1. j \in 1..Len(o) \/ j = Len(o) + 1
      BY <1>6
    <3>2. k \in 1..Len(o) \/ k = Len(o) + 1
      BY <1>6
    <3> QED BY <3>1, <3>2, <2>1, <2>3, <2>4, <1>6
  <2>5. (Visited \subseteq Listed)'
    BY <2>1, <1>2, <1>5, <1>7
  <2> QED BY <2>2, <2>4, <2>5, <1>5, <1>6 DEF OrderOnce
<1>18. OrderClosed'
  <2> SUFFICES ASSUME NEW k \in 1..(Len(o) + 1)
               PROVE DependsOn(order'[k]) \subseteq Behind(order', k - 1)
    <3>1. \A k \in 1..(Len(o) + 1) : DependsOn(order[k])' = DependsOn(order'[k])
      BY DEF DependsOn
    <3> QED BY <3>1, <1>6 DEF OrderClosed
  <2>1. CASE k \in 1..Len(o)
    <3>1. k - 1 \in 0..Len(o) /\ k \in DOMAIN order
      BY <2>1, <1>3, <1>6
    <3>2. DependsOn(o[k]) \subseteq Behind(o, k - 1)
      BY <3>1, <1>3 DEF Sorted, OrderClosed
    <3> QED BY <3>1, <3>2, <2>1, <1>6
  <2>2. CASE k = Len(o) + 1
    <3>1. k - 1 = Len(o) /\ Len(o) \in 0..Len(o)
      BY <2>2, <1>6
    <3>2. DependsOn(cur) \subseteq seen
      BY <1>1, <1>2, <1>4, WaitsForNone
    <3> QED BY <3>1, <3>2, <2>2, <1>5, <1>6
  <2> QED BY <2>1, <2>2, <1>6
<1>19. LeastFirst'
  <2> SUFFICES ASSUME NEW i \in 1..(Len(o) + 1), NEW id \in Listed,
                      id < order'[i], DependsOn(id) \subseteq Behind(order', i - 1)
               PROVE id \in Behind(order', i - 1)
    BY <1>6, <1>7 DEF LeastFirst
  <2>1. CASE i \in 1..Len(o)
    <3>1. i - 1 \in 0..Len(o) /\ i \in DOMAIN order
      BY <2>1, <1>3, <1>6
    <3>2. id < o[i] /\ DependsOn(id) \subseteq Behind(o, i - 1)
      BY <3>1, <2>1, <1>6
    <3>3. id \in Behind(o, i - 1)
      BY <3>1, <3>2, <1>3 DEF Sorted, LeastFirst
    <3> QED BY <3>1, <3>3, <1>6
  <2>2. CASE i = Len(o) + 1
    <3>1. i - 1 = Len(o) /\ Len(o) \in 0..Len(o)
      BY <2>2, <1>6
    <3>2. Behind(order', i - 1) = seen /\ order'[i] = cur
      BY <3>1, <2>2, <1>5, <1>6
    <3>3. Waits(steps, seen, id) = {}
      BY <3>2, <1>1, WaitsForNone
    <3>4. ~ (cur <= id)
      BY <3>2, <1>1, <1>2, PlanAssumption
    <3>5. id \notin heap
      BY <3>4 DEF IsLeast
    <3> QED BY <3>2, <3>3, <3>5, <1>4 DEF Sorted, HeapIsReady
  <2> QED BY <2>1, <2>2, <1>6
<1> QED BY <1>12, <1>16, <1>17, <1>18, <1>19 DEF Sorted

LEMMA VisitInd ==
    ASSUME PlanInd, Visit
    PROVE PlanInd'
<1>1. planPhase = "sorting" /\ Sorted /\ position = 0 /\ planErrors = Early
  BY DEF Visit, PlanInd, Executed
<1>2. PICK cur \in heap : /\ IsLeast(cur, heap)
                          /\ order' = Append(order, cur)
                          /\ degree' = Reduced(cur)
                          /\ heap' = (heap \ {cur}) \cup Released(cur)
  BY DEF Visit
<1>3. UNCHANGED <<steps, planPhase, planErrors, position, results>>
  BY DEF Visit
<1>4. Sorted' /\ degree' \in [StepIds -> Nat] /\ heap' \subseteq StepIds
  BY <1>1, <1>2, <1>3, VisitSorts
<1>5. order \in Seq(StepIds) /\ cur \in StepIds
  BY <1>2 DEF PlanInd, PlanTypeOK
<1>6. order' \in Seq(StepIds) /\ position' \in 0..Len(order')
  BY <1>1, <1>2, <1>3, <1>5
<1>7. PlanTypeOK'
  BY <1>3, <1>4, <1>6 DEF PlanInd, PlanTypeOK
<1>8. Behind(order, position) = {} /\ Behind(order', position') = {}
  BY <1>1, <1>3 DEF Behind
<1>9. Executed'
  BY <1>1, <1>3, <1>8 DEF PlanInd, Executed, CarriedOutAfterDependencies, DependsOn, Failed
<1>10. Early' = Early
  BY <1>3 DEF Early, Listed, Duplicated, UnknownNeeded
<1> QED BY <1>1, <1>3, <1>4, <1>7, <1>9, <1>10 DEF PlanInd, PlanVerdict

\* The steps and the order are left alone.
LEMMA SortedStays ==
    ASSUME Sorted, UNCHANGED <<steps, degree, heap, order>>
    PROVE Sorted'
<1>1. Visited' = Visited /\ Listed' = Listed
  BY DEF Visited, Listed
<1>2. Counted' /\ HeapIsReady'
  BY <1>1 DEF Sorted, Counted, HeapIsReady
<1>3. OrderOnce'
  BY <1>1 DEF Sorted, OrderOnce
<1>4. OrderClosed' /\ LeastFirst'
  BY <1>1 DEF Sorted, OrderClosed, LeastFirst, DependsOn
<1> QED BY <1>2, <1>3, <1>4 DEF Sorted

LEMMA EndSortInd ==
    ASSUME PlanInd, EndSort
    PROVE PlanInd'
<1>1. planPhase = "sorting" /\ Sorted /\ position = 0 /\ planErrors = Early /\ heap = {}
  BY DEF EndSort, PlanInd, Executed
<1>2. /\ planErrors' = IF Len(order) < Len(steps) THEN planErrors \cup {"cycle"} ELSE planErrors
      /\ planPhase' = IF planErrors' = {} THEN "running" ELSE "refused"
      /\ UNCHANGED <<steps, degree, heap, order, position, results>>
  BY DEF EndSort
<1>3. Sorted'
  BY <1>1, <1>2, SortedStays
<1>4. PlanTypeOK'
  BY <1>2 DEF PlanInd, PlanTypeOK
<1>5. planErrors = {} <=> ~ (EmptyId \in Listed \/ Duplicated \/ UnknownNeeded)
  BY <1>1 DEF Early
<1>6. planErrors' = {} <=> planErrors = {} /\ ~ (Len(order) < Len(steps))
  BY <1>2
<1>7. PlanVerdict'
  <2>1. /\ (EmptyId \in Listed)' <=> EmptyId \in Listed
        /\ Duplicated' <=> Duplicated
        /\ UnknownNeeded' <=> UnknownNeeded
        /\ Len(order') < Len(steps') <=> Len(order) < Len(steps)
    BY <1>2 DEF Listed, Duplicated, UnknownNeeded
  <2>2. heap' = {} /\ (planPhase' # "refused" <=> planErrors' = {})
    BY <1>1, <1>2
  <2> QED BY <2>1, <2>2, <1>5, <1>6 DEF PlanVerdict
<1>8. Executed'
  <2>1. \A id : DependsOn(id)' = DependsOn(id)
    BY <1>2 DEF DependsOn
  <2>2. position' = 0 /\ planPhase' # "done"
    BY <1>1, <1>2
  <2> QED BY <2>1, <2>2, <1>2 DEF PlanInd, Executed, CarriedOutAfterDependencies, Failed
<1>9. planPhase' \notin {"drafting", "sorting"}
  BY <1>2
<1> QED BY <1>3, <1>4, <1>7, <1>8, <1>9 DEF PlanInd

-----------------------------------------------------------------------------
(* plan_execute *)

\* A step gets its result after everything it depends on, and once.
LEMMA ExecuteStepInd ==
    ASSUME PlanInd, NEW outcome \in {"ok", "failed"}, ExecuteStep(outcome)
    PROVE PlanInd'
<1>1. planPhase = "running" /\ position < Len(order) /\ Sorted
  BY DEF ExecuteStep, PlanInd
<1>2. order \in Seq(StepIds) /\ position \in 0..Len(order) /\ Len(order) \in Nat
  BY DEF PlanInd, PlanTypeOK
<1>3. position + 1 \in DOMAIN order /\ position + 1 \in 1..Len(order)
  BY <1>1, <1>2
<1>4. PICK id \in StepIds : id = order[position + 1]
  BY <1>2, <1>3
<1>5. PICK res \in {"ok", "failed", "dependency_failed"} :
        /\ results' = [results EXCEPT ![id] = res]
        /\ res = "dependency_failed" => \E dep \in DependsOn(id) : Failed(dep)
        /\ res # "dependency_failed" => \A dep \in DependsOn(id) : ~ Failed(dep)
  <2>1. CASE \E dep \in DependsOn(id) : Failed(dep)
    <3>1. results' = [results EXCEPT ![id] = "dependency_failed"]
      BY <1>4, <2>1 DEF ExecuteStep
    <3> QED BY <3>1, <2>1
  <2>2. CASE \A dep \in DependsOn(id) : ~ Failed(dep)
    <3>1. results' = [results EXCEPT ![id] = outcome]
      BY <1>4, <2>2 DEF ExecuteStep
    <3> QED BY <3>1, <2>2
  <2> QED BY <2>1, <2>2
<1>6. /\ position' = position + 1
      /\ UNCHANGED <<steps, planPhase, planErrors, degree, heap, order>>
  BY DEF ExecuteStep
<1>7. results \in [StepIds -> {"none", "ok", "failed", "dependency_failed"}]
  BY DEF PlanInd, PlanTypeOK
<1>8. /\ results'[id] = res
      /\ \A d \in StepIds : d # id => results'[d] = results[d]
  BY <1>5, <1>7
<1>9. Behind(order, position + 1) = Behind(order, position) \cup {id}
  <2>1. 1..(position + 1) = (1..position) \cup {position + 1}
    BY <1>2
  <2> QED BY <2>1, <1>4, Zenon DEF Behind
<1>10. id \notin Behind(order, position)
  <2> SUFFICES ASSUME NEW k \in 1..position, order[k] = id PROVE FALSE
    BY DEF Behind
  <2>1. k \in DOMAIN order /\ k # position + 1
    BY <1>2
  <2> QED BY <2>1, <1>1, <1>3, <1>4 DEF Sorted, OrderOnce
<1>11. DependsOn(id) \subseteq Behind(order, position)
  <2>1. (position + 1) - 1 = position
    BY <1>2
  <2> QED BY <2>1, <1>1, <1>3, <1>4 DEF Sorted, OrderClosed
\* What a step with a result depends on has a result.
<1>12. ASSUME NEW d \in StepIds, results[d] # "none"
       PROVE DependsOn(d) \subseteq Behind(order, position)
  <2>1. PICK k \in 1..position : order[k] = d
    BY <1>12 DEF PlanInd, Executed, Behind
  <2>2. k \in DOMAIN order
    BY <1>2
  <2>3. DependsOn(d) \subseteq Behind(order, k - 1)
    BY <2>1, <2>2, <1>1 DEF Sorted, OrderClosed
  <2>4. 1..(k - 1) \subseteq 1..position
    BY <1>2
  <2>5. Behind(order, k - 1) \subseteq Behind(order, position)
    BY <2>4, Zenon DEF Behind
  <2> QED BY <2>3, <2>5
<1>13. Behind(order, position) \subseteq StepIds
  BY <1>2 DEF Behind
<1>14. \A dep \in Behind(order, position) : results'[dep] = results[dep] /\ results[dep] # "none"
  BY <1>8, <1>10, <1>13 DEF PlanInd, Executed
<1>15. \A d : DependsOn(d)' = DependsOn(d)
  BY <1>6 DEF DependsOn
<1>16. PlanTypeOK'
  <2>1. results' \in [StepIds -> {"none", "ok", "failed", "dependency_failed"}]
    BY <1>5, <1>7
  <2>2. position' \in 0..Len(order')
    BY <1>2, <1>3, <1>6
  <2> QED BY <2>1, <2>2, <1>6 DEF PlanInd, PlanTypeOK
<1>17. Sorted' /\ PlanVerdict'
  <2>1. Sorted'
    BY <1>1, <1>6, SortedStays
  <2>2. PlanVerdict'
    BY <1>6 DEF PlanInd, PlanVerdict, Listed, Duplicated, UnknownNeeded
  <2> QED BY <2>1, <2>2
<1>18. \A d \in StepIds : results'[d] # "none" <=> d \in Behind(order', position')
  <2>1. Behind(order', position') = Behind(order, position) \cup {id}
    BY <1>6, <1>9
  <2>2. \A d \in StepIds : results[d] # "none" <=> d \in Behind(order, position)
    BY DEF PlanInd, Executed
  <2> QED BY <2>1, <2>2, <1>5, <1>8
<1>19. CarriedOutAfterDependencies'
  <2> SUFFICES ASSUME NEW d \in StepIds, results'[d] \in {"ok", "failed"}, NEW dep \in DependsOn(d)
               PROVE results'[dep] = "ok"
    BY <1>15 DEF CarriedOutAfterDependencies
  <2>1. CASE d = id
    <3>1. dep \in Behind(order, position) /\ ~ Failed(dep)
      BY <2>1, <1>5, <1>8, <1>11
    <3>2. results[dep] \in {"none", "ok", "failed", "dependency_failed"}
      BY <3>1, <1>7, <1>13
    <3> QED BY <3>1, <3>2, <1>14 DEF Failed
  <2>2. CASE d # id
    <3>1. results[d] \in {"ok", "failed"}
      BY <2>2, <1>8
    <3>2. results[dep] = "ok"
      BY <3>1 DEF PlanInd, Executed, CarriedOutAfterDependencies
    <3>3. dep \in Behind(order, position)
      BY <3>1, <1>12
    <3> QED BY <3>2, <3>3, <1>14
  <2> QED BY <2>1, <2>2
<1>20. ASSUME NEW d \in StepIds, results'[d] = "dependency_failed"
       PROVE \E dep \in DependsOn(d) : Failed(dep)'
  <2>1. PICK dep \in DependsOn(d) : Failed(dep) /\ dep \in Behind(order, position)
    <3>1. CASE d = id
      BY <3>1, <1>5, <1>8, <1>11, <1>20
    <3>2. CASE d # id
      <4>1. results[d] = "dependency_failed"
        BY <3>2, <1>8, <1>20
      <4>2. PICK dep \in DependsOn(d) : Failed(dep)
        BY <4>1 DEF PlanInd, Executed
      <4>3. dep \in Behind(order, position)
        BY <4>1, <4>2, <1>12
      <4> QED BY <4>2, <4>3
    <3> QED BY <3>1, <3>2
  <2> QED BY <2>1, <1>14 DEF Failed
<1>21. Executed'
  BY <1>1, <1>6, <1>15, <1>18, <1>19, <1>20 DEF Executed
<1> QED BY <1>1, <1>6, <1>16, <1>17, <1>21 DEF PlanInd

LEMMA EndRunInd ==
    ASSUME PlanInd, EndRun
    PROVE PlanInd'
<1>1. /\ planPhase = "running" /\ planPhase' = "done" /\ position = Len(order)
      /\ UNCHANGED <<steps, planErrors, degree, heap, order, position, results>>
  BY DEF EndRun
<1>2. PlanTypeOK'
  BY <1>1 DEF PlanInd, PlanTypeOK
<1>3. Sorted'
  BY <1>1, SortedStays DEF PlanInd
<1>4. PlanVerdict'
  BY <1>1 DEF PlanInd, PlanVerdict, Listed, Duplicated, UnknownNeeded
<1>5. Executed'
  BY <1>1 DEF PlanInd, Executed, CarriedOutAfterDependencies, DependsOn, Failed
<1> QED BY <1>1, <1>2, <1>3, <1>4, <1>5 DEF PlanInd

LEMMA PlanIndStep == PlanInd /\ [PlanNext]_planVars => PlanInd'
<1> SUFFICES ASSUME PlanInd, [PlanNext]_planVars PROVE PlanInd'
  OBVIOUS
<1>1. CASE UNCHANGED planVars
  <2>1. Sorted => Sorted'
    BY <1>1, SortedStays DEF planVars
  <2>2. PlanTypeOK' /\ PlanVerdict' /\ Executed' /\ Early' = Early
    BY <1>1 DEF planVars, PlanInd, PlanTypeOK, PlanVerdict, Executed, CarriedOutAfterDependencies,
                DependsOn, Failed, Early, Listed, Duplicated, UnknownNeeded
  <2> QED BY <1>1, <2>1, <2>2 DEF planVars, PlanInd
<1> QED BY <1>1, AddStepInd, BeginSortInd, VisitInd, EndSortInd, ExecuteStepInd, EndRunInd
        DEF PlanNext, PlanWork

-----------------------------------------------------------------------------
(* What the inductive invariant says of a plan *)

\* A plan without duplicates has as many ids as steps.
LEMMA ListedCount ==
    ASSUME steps \in Seq(PlanSteps), ~ Duplicated
    PROVE IsFiniteSet(Listed) /\ Cardinality(Listed) = Len(steps)
<1>1. DOMAIN steps = 1..Len(steps) /\ Len(steps) \in Nat
  OBVIOUS
<1>2. IsFiniteSet(DOMAIN steps) /\ Cardinality(DOMAIN steps) = Len(steps)
  BY <1>1, FS_Interval
<1> DEFINE f == [i \in DOMAIN steps |-> steps[i].id]
<1>3. f \in [DOMAIN steps -> Listed]
  BY DEF Listed
<1>4. \A i, j \in DOMAIN steps : f[i] = f[j] => i = j
  BY DEF Duplicated
<1>5. \A id \in Listed : \E i \in DOMAIN steps : f[i] = id
  BY DEF Listed
<1>6. f \in Bijection(DOMAIN steps, Listed)
  <2> HIDE DEF f
  <2> QED BY <1>3, <1>4, <1>5 DEF Bijection, Injection, Surjection, IsInjective
<1> QED BY <1>2, <1>6, FS_Bijection DEF ExistsBijection

\* No set of visited steps waits in a circle: its first member in the order
\* depends on earlier ones only.
LEMMA VisitedIsAcyclic ==
    ASSUME PlanInd, Sorted, NEW S \in SUBSET Visited, S # {}
    PROVE \E id \in S : DependsOn(id) \cap S = {}
<1> DEFINE K == {k \in 1..Len(order) : order[k] \in S}
<1>1. order \in Seq(StepIds) /\ Len(order) \in Nat /\ DOMAIN order = 1..Len(order)
  BY DEF PlanInd, PlanTypeOK
<1>2. K # {} /\ K \in SUBSET Nat
  BY <1>1 DEF Visited, Behind
<1>3. PICK k \in K : \A j \in K : k <= j
  BY <1>2, LeastNatural
<1>4. DependsOn(order[k]) \subseteq Behind(order, k - 1)
  BY <1>1 DEF Sorted, OrderClosed
<1>5. ASSUME NEW d \in DependsOn(order[k]) \cap S PROVE FALSE
  <2>1. PICK j \in 1..(k - 1) : order[j] = d
    BY <1>4, <1>5 DEF Behind
  <2>2. j \in K /\ ~ (k <= j)
    BY <2>1, <1>1
  <2> QED BY <2>2, <1>3
<1> QED BY <1>5

\* Once the heap is empty, a plan with unique ids and known dependencies has a
\* step left over exactly when it is cyclic.
LEMMA LeftOverIsCycle ==
    ASSUME PlanInd, Sorted, heap = {}, ~ Duplicated, ~ UnknownNeeded
    PROVE /\ Len(order) < Len(steps) <=> Cyclic
          /\ ~ (Len(order) < Len(steps)) => Visited = Listed
<1>1. steps \in Seq(PlanSteps) /\ Listed \subseteq StepIds
  BY StepsTyped
<1>2. IsFiniteSet(Listed) /\ Cardinality(Listed) = Len(steps) /\ Len(steps) \in Nat
  BY <1>1, ListedCount
<1>3. /\ Visited \subseteq Listed /\ Len(order) = Cardinality(Visited) /\ Len(order) \in Nat
  BY DEF Sorted, OrderOnce, PlanInd, PlanTypeOK
<1>4. Len(order) < Len(steps) <=> Visited # Listed
  BY <1>2, <1>3, FS_Subset
<1>5. ASSUME Visited # Listed PROVE Cyclic
  <2> DEFINE S == Listed \ Visited
  <2>1. S # {} /\ S \in SUBSET Listed
    BY <1>3, <1>5
  <2>2. ASSUME NEW id \in S PROVE DependsOn(id) \cap S # {}
    <3>1. Waits(steps, Visited, id) # {}
      BY DEF Sorted, HeapIsReady
    <3>2. PICK d \in DependsOn(id) : d \notin Visited
      BY <3>1, <1>1, WaitsForNone
    <3>3. d \in Listed
      <4>1. PICK i \in DOMAIN steps : d \in steps[i].needs
        BY <3>2 DEF DependsOn
      <4> QED BY <4>1 DEF UnknownNeeded
    <3> QED BY <3>2, <3>3
  <2> QED BY <2>1, <2>2 DEF Cyclic
<1>6. ASSUME Visited = Listed, Cyclic PROVE FALSE
  <2>1. PICK S \in SUBSET Listed : S # {} /\ \A id \in S : DependsOn(id) \cap S # {}
    BY <1>6 DEF Cyclic
  <2>2. S \in SUBSET Visited
    BY <1>6, <2>1
  <2> QED BY <2>1, <2>2, VisitedIsAcyclic
<1> QED BY <1>4, <1>5, <1>6

LEMMA AcceptsHolds == PlanInd => AcceptsSoundPlans
<1> SUFFICES ASSUME PlanInd, planPhase \in {"running", "done", "refused"}
             PROVE (planPhase # "refused") <=>
                     ~ (EmptyId \in Listed \/ Duplicated \/ UnknownNeeded \/ Cyclic)
  BY DEF AcceptsSoundPlans
<1>1. /\ Sorted /\ heap = {}
      /\ (planPhase # "refused") <=>
           ~ (EmptyId \in Listed \/ Duplicated \/ UnknownNeeded \/ Len(order) < Len(steps))
  BY DEF PlanInd, PlanVerdict
<1> QED BY <1>1, LeftOverIsCycle

LEMMA AccountedHolds == PlanInd => EveryStepAccounted
<1> SUFFICES ASSUME PlanInd, planPhase = "done"
             PROVE /\ \A id \in StepIds : id \in Listed <=> results[id] # "none"
                   /\ \A id \in StepIds : results[id] = "dependency_failed"
                                            => \E dep \in DependsOn(id) : Failed(dep)
  BY DEF EveryStepAccounted
<1>1. Sorted /\ heap = {} /\ ~ Duplicated /\ ~ UnknownNeeded /\ ~ (Len(order) < Len(steps))
  BY DEF PlanInd, PlanVerdict
<1>2. Visited = Listed
  BY <1>1, LeftOverIsCycle
<1>3. Behind(order, position) = Visited
  BY DEF PlanInd, Executed, Visited
<1> QED BY <1>2, <1>3 DEF PlanInd, Executed

LEMMA LeastHolds == PlanInd => OrderIsLeast
<1> SUFFICES ASSUME PlanInd, planPhase \in {"running", "done"}, NEW i \in DOMAIN order,
                    NEW id \in Listed, id < order[i],
                    DependsOn(id) \subseteq {order[k] : k \in 1..(i - 1)}
             PROVE \E k \in 1..(i - 1) : order[k] = id
  BY DEF OrderIsLeast
<1>1. LeastFirst
  BY DEF PlanInd, Sorted
<1>2. id \in Behind(order, i - 1)
  BY <1>1 DEF LeastFirst, Behind
<1> QED BY <1>2 DEF Behind

\* plan_validate accepts exactly the plans with unique, non-empty ids, known
\* dependencies and no cycle, and orders them least id first; plan_execute
\* carries a step out only after everything it depends on succeeded, and
\* accounts for every step.  For plans of any size over finitely many ids.
THEOREM PlanCorrect == PlanSpec => []PlanInvariant
<1>1. PlanInit => PlanInd
  BY PlanIndInit
<1>2. PlanInd /\ [PlanNext]_planVars => PlanInd'
  BY PlanIndStep
<1>3. PlanInd => PlanInvariant
  BY LeastHolds, AcceptsHolds, AccountedHolds DEF PlanInd, Executed, PlanInvariant
<1> QED BY <1>1, <1>2, <1>3, PTL DEF PlanSpec

-----------------------------------------------------------------------------
\* ProcessRun
(***************************************************************************)
(* Proofs about ProcessRun, for every size of the pipes, limit on the      *)
(* output, timeout and number of versions of the declared file.            *)
(***************************************************************************)

\* The phases after the child was waited for, or was never made.
Ending == {"drain_out", "drain_err", "collect", "returned"}

\* No unit is lost between a writer and the kernel: what is in the text and in
\* the pipe is what was written, as far as that is counted, until the text is
\* marked truncated.
Conserved ==
    \A s \in Streams : ~ truncated[s] =>
        /\ taken[s] < OutputLimit
        /\ \/ wrote[s] = taken[s] + pipe[s]
           \/ wrote[s] = OutputLimit + 1 /\ taken[s] + pipe[s] > OutputLimit

\* Before the fork there is nobody to write, and in the last phases the child
\* is over.
ChildKnown ==
    /\ child = "none" => descendant = "none" /\ \A s \in Streams : pipe[s] = 0
    /\ runPc = "request" => child = "none"
    /\ runPc \in Ending => child # "alive"

\* What was drained stays empty when no descendant was left behind.
Drained ==
    Lone => /\ runPc \in {"drain_err", "collect", "returned"} => pipe["out"] = 0
            /\ runPc \in {"collect", "returned"} => pipe["err"] = 0

\* A timeout has killed the session.
SessionKilled == timedOut => runPc \in Ending /\ descendant # "grouped"

\* Only the last step says ok.
OkAtTheEnd ==
    verdict = "ok" => /\ runPc = "returned" /\ child = "zero"
                      /\ Lone => hashed = file

ProcInd == /\ ProcTypeOK /\ Conserved /\ ChildKnown /\ Drained
           /\ SessionKilled /\ OkAtTheEnd

-----------------------------------------------------------------------------
LEMMA ProcInitInd == ProcInit => ProcInd
<1> SUFFICES ASSUME ProcInit
             PROVE  ProcInd
  OBVIOUS
<1>1. truncated \in [Streams -> BOOLEAN] /\ timedOut \in BOOLEAN
  BY DEF ProcInit
<1>2. ProcTypeOK
  BY <1>1, ProcessAssumption DEF ProcInit, ProcTypeOK, NoHash
<1>3. \A s \in Streams : /\ taken[s] < OutputLimit
                         /\ wrote[s] = taken[s] + pipe[s]
  BY ProcessAssumption DEF ProcInit
<1>4. Conserved
  BY <1>3 DEF Conserved
<1>5. ChildKnown /\ Drained /\ OkAtTheEnd
  BY DEF ProcInit, ChildKnown, Drained, OkAtTheEnd, Ending
<1>6. SessionKilled
  BY DEF ProcInit, SessionKilled
<1> QED
  BY <1>2, <1>4, <1>5, <1>6 DEF ProcInd

\* What reading one unit of a pipe does: nothing on an empty pipe, and else it
\* moves the unit, or drops it and says so.
LEMMA ReadKeeps ==
  ASSUME ProcTypeOK, Conserved, NEW s \in Streams, ReadUnit(s), wrote' = wrote
  PROVE  /\ pipe' \in [Streams -> 0..PipeSize]
         /\ taken' \in [Streams -> 0..OutputLimit]
         /\ truncated' \in [Streams -> BOOLEAN]
         /\ Conserved'
         /\ \A u \in Streams : pipe[u] = 0 => pipe'[u] = 0
<1>1. /\ pipe \in [Streams -> 0..PipeSize] /\ wrote \in [Streams -> 0..(OutputLimit + 1)]
      /\ taken \in [Streams -> 0..OutputLimit]
  BY DEF ProcTypeOK
<1>2. truncated \in [Streams -> BOOLEAN]
  BY DEF ProcTypeOK
<1>3. CASE pipe[s] > 0
  <2>1. /\ pipe' = [pipe EXCEPT ![s] = @ - 1]
        /\ AppendLimited(s)
    BY <1>3 DEF ReadUnit
  <2>2. PICK fits \in BOOLEAN : fits <=> (taken[s] < OutputLimit)
    <3>1. CASE taken[s] < OutputLimit
      <4> WITNESS TRUE \in BOOLEAN
      <4> QED
        BY <3>1
    <3>2. CASE ~ (taken[s] < OutputLimit)
      <4> WITNESS FALSE \in BOOLEAN
      <4> QED
        BY <3>2
    <3> QED
      BY <3>1, <3>2
  <2>3. PICK now : now = IF fits THEN taken[s] + 1 ELSE taken[s]
    OBVIOUS
  <2>4. PICK b \in BOOLEAN : b = (truncated[s] \/ ~ fits \/ now >= OutputLimit)
    OBVIOUS
  <2>5. taken' = [taken EXCEPT ![s] = now]
    BY <2>1, <2>2, <2>3 DEF AppendLimited
  <2>6. truncated' = [truncated EXCEPT ![s] = b]
    BY <2>1, <2>2, <2>3, <2>4 DEF AppendLimited
  <2>7. now \in 0..OutputLimit
    BY <1>1, <2>2, <2>3, ProcessAssumption
  <2>8. pipe' \in [Streams -> 0..PipeSize] /\ pipe'[s] = pipe[s] - 1
    BY <1>1, <1>3, <2>1, ProcessAssumption
  <2>9. taken' \in [Streams -> 0..OutputLimit] /\ taken'[s] = now
    BY <1>1, <2>5, <2>7
  <2>10. truncated' \in [Streams -> BOOLEAN] /\ truncated'[s] = b
    BY <1>2, <2>6
  <2>11. ASSUME NEW u \in Streams, ~ truncated'[u]
         PROVE  /\ taken'[u] < OutputLimit
                /\ \/ wrote'[u] = taken'[u] + pipe'[u]
                   \/ wrote'[u] = OutputLimit + 1 /\ taken'[u] + pipe'[u] > OutputLimit
    <3>1. CASE u = s
      <4>1. ~ b
        BY <2>10, <2>11, <3>1
      <4>2. ~ truncated[s] /\ fits
        BY <4>1, <2>4
      <4>3. ~ (now >= OutputLimit)
        BY <4>1, <2>4
      <4>4. now = taken[s] + 1
        BY <4>2, <2>3
      <4>5. \/ wrote[s] = taken[s] + pipe[s]
            \/ wrote[s] = OutputLimit + 1 /\ taken[s] + pipe[s] > OutputLimit
        BY <4>2 DEF Conserved
      <4>6. /\ taken[s] \in Nat /\ pipe[s] \in Nat /\ OutputLimit \in Nat
            /\ taken'[s] = taken[s] + 1 /\ pipe'[s] = pipe[s] - 1
        BY <1>1, <4>4, <2>8, <2>9, ProcessAssumption
      <4>7. taken'[s] + pipe'[s] = taken[s] + pipe[s]
        BY <4>6
      <4>8. taken'[s] < OutputLimit
        BY <4>3, <2>9, <2>7, ProcessAssumption
      <4> QED
        BY <3>1, <4>5, <4>7, <4>8
    <3>2. CASE u # s
      <4>1. truncated'[u] = truncated[u]
        BY <1>2, <2>6, <3>2
      <4>2. taken'[u] = taken[u] /\ pipe'[u] = pipe[u]
        BY <1>1, <2>1, <2>5, <3>2
      <4> QED
        BY <4>1, <4>2, <2>11 DEF Conserved
    <3> QED
      BY <3>1, <3>2
  <2>12. Conserved'
    BY <2>11 DEF Conserved
  <2>13. \A u \in Streams : pipe[u] = 0 => pipe'[u] = 0
    BY <1>1, <1>3, <2>1
  <2> QED
    BY <2>8, <2>9, <2>10, <2>12, <2>13
<1>4. CASE ~ (pipe[s] > 0)
  <2>1. pipe' = pipe /\ taken' = taken
    BY <1>4 DEF ReadUnit
  <2>2. truncated' = truncated
    BY <1>4 DEF ReadUnit
  <2>3. Conserved'
    BY <2>1, <2>2 DEF Conserved
  <2> QED
    BY <1>1, <1>2, <2>1, <2>2, <2>3
<1> QED
  BY <1>3, <1>4

\* A step that leaves the text and the pipes alone keeps what they hold.
LEMMA ConservedUnchanged ==
  ASSUME Conserved, UNCHANGED <<pipe, wrote, taken>>, UNCHANGED truncated
  PROVE  Conserved'
  BY DEF Conserved

\* A read of the loop.
LEMMA PollPipeInd ==
  ASSUME ProcInd, NEW s \in Streams, NEW from, NEW to,
         from \in {"read_out", "read_err"}, to \in {"read_err", "wait"},
         PollPipe(from, s, to)
  PROVE  ProcInd'
<1>1. /\ runPc = from /\ runPc' = to /\ ReadUnit(s)
      /\ UNCHANGED <<child, descendant, wrote, elapsed, file, hashed, verdict>>
  BY DEF PollPipe
<1>2. UNCHANGED timedOut
  BY DEF PollPipe
<1>3. ProcTypeOK /\ Conserved
  BY DEF ProcInd
<1>4. /\ pipe' \in [Streams -> 0..PipeSize] /\ taken' \in [Streams -> 0..OutputLimit]
      /\ truncated' \in [Streams -> BOOLEAN] /\ Conserved'
      /\ \A u \in Streams : pipe[u] = 0 => pipe'[u] = 0
  BY <1>1, <1>3, ReadKeeps
<1>5. ProcTypeOK'
  BY <1>1, <1>2, <1>3, <1>4 DEF ProcTypeOK
<1>6. ChildKnown'
  BY <1>1, <1>4 DEF ProcInd, ChildKnown, Ending
<1>7. Drained' /\ OkAtTheEnd'
  BY <1>1 DEF ProcInd, Drained, OkAtTheEnd, Lone
<1>8. SessionKilled'
  BY <1>1, <1>2 DEF ProcInd, SessionKilled, Ending
<1> QED
  BY <1>4, <1>5, <1>6, <1>7, <1>8 DEF ProcInd

\* A read after the child is over: the next phase begins with the pipe empty,
\* and nobody fills it again unless a descendant was left.
LEMMA DrainInd ==
  ASSUME ProcInd, NEW s \in Streams, NEW from, NEW to,
         \/ s = "out" /\ from = "drain_out" /\ to = "drain_err"
         \/ s = "err" /\ from = "drain_err" /\ to = "collect",
         Drain(from, s, to)
  PROVE  ProcInd'
<1>1. /\ runPc = from /\ runPc' = (IF pipe[s] > 0 THEN from ELSE to) /\ ReadUnit(s)
      /\ UNCHANGED <<child, descendant, wrote, elapsed, file, hashed, verdict>>
  BY DEF Drain
<1>2. UNCHANGED timedOut
  BY DEF Drain
<1>3. ProcTypeOK /\ Conserved
  BY DEF ProcInd
<1>4. /\ pipe' \in [Streams -> 0..PipeSize] /\ taken' \in [Streams -> 0..OutputLimit]
      /\ truncated' \in [Streams -> BOOLEAN] /\ Conserved'
      /\ \A u \in Streams : pipe[u] = 0 => pipe'[u] = 0
  BY <1>1, <1>3, ReadKeeps
<1>5. ProcTypeOK'
  BY <1>1, <1>2, <1>3, <1>4 DEF ProcTypeOK
<1>6. ChildKnown'
  BY <1>1, <1>4 DEF ProcInd, ChildKnown, Ending
<1>7. Drained'
  <2>1. pipe[s] \in Nat
    BY <1>3, ProcessAssumption DEF ProcTypeOK
  <2>2. runPc' = to => pipe[s] = 0
    BY <1>1, <2>1
  <2>3. Lone' = Lone
    BY <1>1 DEF Lone
  <2> QED
    BY <1>1, <1>4, <2>2, <2>3 DEF ProcInd, Drained, Streams
<1>8. OkAtTheEnd'
  BY <1>1 DEF ProcInd, OkAtTheEnd, Lone
<1>9. SessionKilled'
  BY <1>1, <1>2 DEF ProcInd, SessionKilled, Ending
<1> QED
  BY <1>4, <1>5, <1>6, <1>7, <1>8, <1>9 DEF ProcInd

\* A write: there is a writer, so in the last phases a descendant was left.
LEMMA WriteUnitInd ==
  ASSUME ProcInd, NEW s \in Streams, WriteUnit(s)
  PROVE  ProcInd'
<1>1. /\ Writers /\ pipe[s] < PipeSize
      /\ pipe' = [pipe EXCEPT ![s] = @ + 1]
      /\ wrote' = [wrote EXCEPT ![s] = IF @ > OutputLimit THEN @ ELSE @ + 1]
      /\ UNCHANGED <<child, descendant, file, runPc, taken, elapsed, hashed, verdict>>
  BY DEF WriteUnit, kernelVars
<1>2. UNCHANGED truncated
  BY DEF WriteUnit, kernelVars
<1>3. UNCHANGED timedOut
  BY DEF WriteUnit, kernelVars
<1>4. /\ pipe \in [Streams -> 0..PipeSize] /\ wrote \in [Streams -> 0..(OutputLimit + 1)]
      /\ taken \in [Streams -> 0..OutputLimit]
  BY DEF ProcInd, ProcTypeOK
<1>5. /\ pipe' \in [Streams -> 0..PipeSize] /\ wrote' \in [Streams -> 0..(OutputLimit + 1)]
  BY <1>1, <1>4, ProcessAssumption
<1>6. ProcTypeOK'
  BY <1>1, <1>2, <1>3, <1>5 DEF ProcInd, ProcTypeOK
<1>7. Conserved'
  <2>1. SUFFICES ASSUME NEW u \in Streams, ~ truncated[u]
                 PROVE  /\ taken[u] < OutputLimit
                        /\ \/ wrote'[u] = taken[u] + pipe'[u]
                           \/ wrote'[u] = OutputLimit + 1 /\ taken[u] + pipe'[u] > OutputLimit
    BY <1>1, <1>2 DEF Conserved
  <2>2. /\ taken[u] < OutputLimit
        /\ \/ wrote[u] = taken[u] + pipe[u]
           \/ wrote[u] = OutputLimit + 1 /\ taken[u] + pipe[u] > OutputLimit
    BY <2>1 DEF ProcInd, Conserved
  <2> QED
    BY <1>1, <1>4, <2>2, ProcessAssumption
<1>8. ChildKnown' /\ Drained'
  BY <1>1 DEF ProcInd, ChildKnown, Drained, Writers, Lone, Ending
<1>9. SessionKilled'
  BY <1>1, <1>3 DEF ProcInd, SessionKilled
<1>10. OkAtTheEnd'
  BY <1>1 DEF ProcInd, OkAtTheEnd, Lone
<1> QED
  BY <1>6, <1>7, <1>8, <1>9, <1>10 DEF ProcInd

\* The steps of the kernel and of the processes that touch no pipe.
LEMMA QuietInd ==
  ASSUME ProcInd,
         \/ RefuseRequest \/ SpawnFails \/ Spawn \/ PollChild \/ NotYet \/ Overdue
         \/ Collect \/ WriteFile \/ TimePasses \/ DescendantEnds
         \/ \E kind \in {"grouped", "detached"} : LeaveDescendant(kind)
         \/ \E how \in {"zero", "nonzero", "signalled"} : ChildEnds(how)
  PROVE  ProcInd'
<1>1. UNCHANGED <<pipe, wrote, taken>>
  BY DEF RefuseRequest, SpawnFails, Spawn, PollChild, NotYet, Overdue, Collect, WriteFile,
         TimePasses, DescendantEnds, LeaveDescendant, ChildEnds, childVars, kernelVars
<1>2. UNCHANGED truncated
  BY DEF RefuseRequest, SpawnFails, Spawn, PollChild, NotYet, Overdue, Collect, WriteFile,
         TimePasses, DescendantEnds, LeaveDescendant, ChildEnds, childVars, kernelVars
<1>3. Conserved'
  BY <1>1, <1>2, ConservedUnchanged DEF ProcInd
<1>4. /\ ProcTypeOK /\ ChildKnown /\ Drained /\ SessionKilled /\ OkAtTheEnd
  BY DEF ProcInd
<1>5. timedOut' \in BOOLEAN
  BY <1>4 DEF RefuseRequest, SpawnFails, Spawn, PollChild, NotYet, Overdue, Collect, WriteFile,
         TimePasses, DescendantEnds, LeaveDescendant, ChildEnds, childVars, kernelVars, ProcTypeOK
<1>6. /\ runPc' \in {"request", "read_out", "read_err", "wait", "deadline",
                  "drain_out", "drain_err", "collect", "returned"}
      /\ child' \in {"none", "alive", "zero", "nonzero", "signalled", "killed"}
      /\ descendant' \in {"none", "grouped", "detached", "gone"}
  BY <1>4 DEF RefuseRequest, SpawnFails, Spawn, PollChild, NotYet, Overdue, Collect, WriteFile,
         TimePasses, DescendantEnds, LeaveDescendant, ChildEnds, childVars, kernelVars, ProcTypeOK
<1>7. elapsed' \in 0..Timeout /\ file' \in 0..MaxFile /\ hashed' \in NoHash..MaxFile
  BY <1>4, ProcessAssumption
  DEF RefuseRequest, SpawnFails, Spawn, PollChild, NotYet, Overdue, Collect, WriteFile,
      TimePasses, DescendantEnds, LeaveDescendant, ChildEnds, childVars, kernelVars,
      ProcTypeOK, NoHash
<1>8. verdict' \in {"pending", "ok", "refused", "spawn_failed", "failed", "timeout"}
  BY <1>4 DEF RefuseRequest, SpawnFails, Spawn, PollChild, NotYet, Overdue, Collect, WriteFile,
         TimePasses, DescendantEnds, LeaveDescendant, ChildEnds, childVars, kernelVars,
         ProcTypeOK, Verdict
<1>9. ProcTypeOK'
  BY <1>1, <1>2, <1>4, <1>5, <1>6, <1>7, <1>8 DEF ProcTypeOK
<1>10. ChildKnown'
  BY <1>1, <1>4
  DEF RefuseRequest, SpawnFails, Spawn, PollChild, NotYet, Overdue, Collect, WriteFile,
      TimePasses, DescendantEnds, LeaveDescendant, ChildEnds, childVars, kernelVars,
      ChildKnown, Ending, Writers, ProcTypeOK
<1>11. Drained'
  BY <1>1, <1>4
  DEF RefuseRequest, SpawnFails, Spawn, PollChild, NotYet, Overdue, Collect, WriteFile,
      TimePasses, DescendantEnds, LeaveDescendant, ChildEnds, childVars, kernelVars,
      ChildKnown, Drained, Ending, Lone, Streams
<1>12. SessionKilled'
  BY <1>4
  DEF RefuseRequest, SpawnFails, Spawn, PollChild, NotYet, Overdue, Collect, WriteFile,
      TimePasses, DescendantEnds, LeaveDescendant, ChildEnds, childVars, kernelVars,
      SessionKilled, ChildKnown, Ending
<1>13. OkAtTheEnd'
  BY <1>4
  DEF RefuseRequest, SpawnFails, Spawn, PollChild, NotYet, Overdue, Collect, WriteFile,
      TimePasses, DescendantEnds, LeaveDescendant, ChildEnds, childVars, kernelVars,
      OkAtTheEnd, Verdict, Lone, Writers
<1> QED
  BY <1>3, <1>9, <1>10, <1>11, <1>12, <1>13 DEF ProcInd

LEMMA ProcStepInd == ProcInd /\ [ProcNext]_procVars => ProcInd'
<1> SUFFICES ASSUME ProcInd, [ProcNext]_procVars
             PROVE  ProcInd'
  OBVIOUS
<1>1. "out" \in Streams /\ "err" \in Streams
  BY DEF Streams
<1>2. ASSUME PollPipe("read_out", "out", "read_err")
      PROVE  ProcInd'
  BY <1>1, <1>2, PollPipeInd
<1>3. ASSUME PollPipe("read_err", "err", "wait")
      PROVE  ProcInd'
  BY <1>1, <1>3, PollPipeInd
<1>4. ASSUME Drain("drain_out", "out", "drain_err")
      PROVE  ProcInd'
  BY <1>1, <1>4, DrainInd
<1>5. ASSUME Drain("drain_err", "err", "collect")
      PROVE  ProcInd'
  BY <1>1, <1>5, DrainInd
<1>6. ASSUME NEW s \in Streams, WriteUnit(s)
      PROVE  ProcInd'
  BY <1>6, WriteUnitInd
<1>7. ASSUME UNCHANGED procVars
      PROVE  ProcInd'
  <2>1. UNCHANGED <<pipe, wrote, taken>>
    BY <1>7 DEF procVars
  <2>2. UNCHANGED <<truncated>> /\ UNCHANGED <<timedOut>>
    BY <1>7 DEF procVars
  <2>3. UNCHANGED <<runPc, child, descendant, elapsed, file, hashed, verdict>>
    BY <1>7 DEF procVars
  <2>4. Conserved'
    BY <2>1, <2>2, ConservedUnchanged DEF ProcInd
  <2>5. ProcTypeOK'
    BY <2>1, <2>2, <2>3 DEF ProcInd, ProcTypeOK
  <2>6. ChildKnown' /\ Drained' /\ OkAtTheEnd'
    BY <2>1, <2>3 DEF ProcInd, ChildKnown, Drained, OkAtTheEnd, Lone
  <2>7. SessionKilled'
    BY <2>2, <2>3 DEF ProcInd, SessionKilled
  <2> QED
    BY <2>4, <2>5, <2>6, <2>7 DEF ProcInd
<1> QED
  BY <1>2, <1>3, <1>4, <1>5, <1>6, <1>7, QuietInd DEF ProcNext, RunStep

LEMMA ProcIndImplies == ProcInd => ProcInvariant
<1> SUFFICES ASSUME ProcInd
             PROVE  ProcInvariant
  OBVIOUS
<1>1. ProcTypeOK /\ OkIsFinal
  BY DEF ProcInd, OkAtTheEnd, OkIsFinal
<1>2. ASSUME runPc \in {"collect", "returned"}, Lone, NEW s \in Streams, ~ truncated[s]
      PROVE  taken[s] = wrote[s]
  <2>1. pipe[s] = 0
    BY <1>2 DEF ProcInd, Drained, Streams
  <2>2. /\ taken[s] < OutputLimit
        /\ \/ wrote[s] = taken[s] + pipe[s]
           \/ wrote[s] = OutputLimit + 1 /\ taken[s] + pipe[s] > OutputLimit
    BY <1>2 DEF ProcInd, Conserved
  <2>3. taken[s] \in Nat /\ OutputLimit \in Nat
    BY ProcessAssumption DEF ProcInd, ProcTypeOK
  <2> QED
    BY <2>1, <2>2, <2>3
<1>3. NothingLost
  BY <1>2 DEF NothingLost
<1> QED
  BY <1>1, <1>3 DEF ProcInvariant

\* A run of a command that is not marked truncated holds all of its output, and
\* one reported ok ended by itself and is hashed as it left its file, whatever
\* the interleaving of its writes, its end and run_process, and for every size
\* of the pipe, limit and timeout.
THEOREM ProcessCorrect == ProcSpec => []ProcInvariant
<1>1. ProcSpec => []ProcInd
  BY ProcInitInd, ProcStepInd, PTL DEF ProcSpec
<1> QED
  BY <1>1, ProcIndImplies, PTL

\* After a timeout nothing of the command's session writes any more: the kill
\* reaches the child and what is in its session, and nothing joins it later.
THEOREM TimeoutStopsSessionCorrect == ProcSpec => [][TimeoutStopsSession]_procVars
<1>1. ProcSpec => []ProcInd
  BY ProcInitInd, ProcStepInd, PTL DEF ProcSpec
<1>2. ProcInd /\ [ProcNext]_procVars => [TimeoutStopsSession]_procVars
  <2>1. SUFFICES ASSUME ProcInd, ProcNext, timedOut, descendant # "detached"
                 PROVE  UNCHANGED <<child, wrote, file>>
    BY DEF TimeoutStopsSession
  <2>2. runPc \in Ending /\ descendant # "grouped" /\ child # "alive"
    BY <2>1 DEF ProcInd, SessionKilled, ChildKnown
  <2>3. ~ Writers
    BY <2>1, <2>2 DEF Writers
  <2> QED
    BY <2>1, <2>2, <2>3
    DEF ProcNext, RunStep, RefuseRequest, SpawnFails, Spawn, PollPipe, PollChild, NotYet,
        Overdue, Drain, Collect, WriteUnit, WriteFile, LeaveDescendant, ChildEnds,
        DescendantEnds, TimePasses, childVars, Ending
<1> QED
  BY <1>1, <1>2, PTL DEF ProcSpec
=============================================================================
