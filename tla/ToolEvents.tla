----------------------------- MODULE ToolEvents ------------------------------
(***************************************************************************)
(* The tool-failure runtime's two append-only files                        *)
(* (packages/ai/src/tools/failureRuntime.ts): tool events numbered by an   *)
(* in-memory counter per run, and permission requests with the decisions   *)
(* on them.                                                                *)
(*                                                                         *)
(* One run is modelled, recorded by several processes over its life.  An   *)
(* event is what the event id is the hash of (its number, and the call:    *)
(* tool and arguments), whether its failure class is permission_error, and *)
(* a serial number of the model that tells apart two events with the same  *)
(* id.  A permission line is a request or a decision: both carry a         *)
(* request_id, and the reader does not look at anything else.              *)
(*                                                                         *)
(* appendFileSync is one system call that may write everything, nothing, a *)
(* part of the line ("torn"), or the line without its newline ("unended"), *)
(* and throws in the last three cases.  What a process does between two    *)
(* appends nobody else sees, so a step ends with its append.               *)
(***************************************************************************)
EXTENDS Integers, Sequences, FiniteSets

CONSTANTS EventProcesses, ToolInputs, MaxToolEvents, MaxDecisions, MaxProcessEnds,
          MaxFailedAppends

ASSUME ToolEventsAssumption == /\ MaxToolEvents \in Nat
                               /\ MaxDecisions \in Nat
                               /\ MaxProcessEnds \in Nat
                               /\ MaxFailedAppends \in Nat

VARIABLES eventFile,     \* tool-events.ndjson: what each append left
          counter,       \* stepCounters of the run, by process
          remembered,    \* toolEventLog of the run, by process
          requestDue,    \* the request a recordToolEvent under way has yet to make
          permFile,      \* permission-events.ndjson
          permMap,       \* permissionRequests, by process: the last line read for an id
          serial,        \* the number of events ever recorded
          decided,       \* the number of decisions ever taken
          failedAppends, \* the number of appends that threw
          processEnds,   \* the number of times a process ended
          cutShort       \* a process ended inside recordToolEvent

eventVars == <<eventFile, counter, remembered, requestDue, permFile, permMap, serial, decided,
               failedAppends, processEnds, cutShort>>

Events == [step : 1..MaxToolEvents, input : ToolInputs, denied : BOOLEAN,
           serial : 1..MaxToolEvents]

Parts == {"whole", "torn", "unended"}
Outcomes == Parts \union {"nothing"}

(* Mutant: the id leaves the call out. *)
EventIdOfStep(e) == <<e.step, CHOOSE input \in ToolInputs : TRUE>>

EventId(e) == <<e.step, e.input>>

(* A request is named after the event that made it. *)
RequestIds == (1..MaxToolEvents) \X ToolInputs

PermLines == [id : RequestIds, kind : {"request", "approve", "deny"}]
Known == {"none", "request", "approve", "deny"}

EventLines == [body : Events, part : Parts]
PermWrites == [body : PermLines, part : Parts]

EventsTypeOK ==
    /\ eventFile \in Seq(EventLines)
    /\ counter \in [EventProcesses -> 0..MaxToolEvents]
    /\ remembered \in [EventProcesses -> Seq(Events)]
    /\ requestDue \in [EventProcesses -> SUBSET RequestIds]
    /\ permFile \in Seq(PermWrites)
    /\ permMap \in [EventProcesses -> [RequestIds -> Known]]
    /\ serial \in 0..MaxToolEvents
    /\ decided \in 0..MaxDecisions
    /\ failedAppends \in 0..MaxFailedAppends
    /\ processEnds \in 0..MaxProcessEnds
    /\ cutShort \in BOOLEAN

EventsInit ==
    /\ eventFile = <<>>
    /\ counter = [p \in EventProcesses |-> 0]
    /\ remembered = [p \in EventProcesses |-> <<>>]
    /\ requestDue = [p \in EventProcesses |-> {}]
    /\ permFile = <<>>
    /\ permMap = [p \in EventProcesses |-> [id \in RequestIds |-> "none"]]
    /\ serial = 0
    /\ decided = 0
    /\ failedAppends = 0
    /\ processEnds = 0
    /\ cutShort = FALSE

-----------------------------------------------------------------------------
(* appendNdjson: what is in the file after an append of body that came to
   outcome.  Every outcome but "whole" throws. *)
Appended(file, body, outcome) ==
    IF outcome = "nothing" THEN file ELSE Append(file, [body |-> body, part |-> outcome])

CountFailure(outcome) ==
    /\ outcome # "whole" => failedAppends < MaxFailedAppends
    /\ failedAppends' = IF outcome = "whole" THEN failedAppends ELSE failedAppends + 1

(* parseNdjson: an append starts a line of its own only behind a newline, and
   a line parses when exactly one body stands in it. *)
ParsedLines(file) ==
    {i \in DOMAIN file :
        /\ i > 1 => file[i - 1].part = "whole"
        /\ file[i].part = "whole" \/ (file[i].part = "unended" /\ i = Len(file))}

NewEvent(p, input, denied) ==
    [step |-> counter[p] + 1, input |-> input, denied |-> denied, serial |-> serial + 1]

(* recordToolEvent up to the end of its append: counted and remembered before
   it, whatever becomes of it.  A request comes only after an append that did
   not throw. *)
RecordToolEvent(p, input, denied, outcome) ==
    /\ serial < MaxToolEvents
    /\ requestDue[p] = {}
    /\ CountFailure(outcome)
    /\ LET e == NewEvent(p, input, denied) IN
         /\ counter' = [counter EXCEPT ![p] = @ + 1]
         /\ remembered' = [remembered EXCEPT ![p] = Append(@, e)]
         /\ eventFile' = Appended(eventFile, e, outcome)
         /\ requestDue' = [requestDue EXCEPT ![p] = IF denied /\ outcome = "whole" THEN {EventId(e)} ELSE {}]
    /\ serial' = serial + 1
    /\ UNCHANGED <<permFile, permMap, decided, processEnds, cutShort>>

(* createPermissionRequest, the rest of a recordToolEvent of class
   permission_error: in the map first, then appended. *)
CreatePermissionRequest(p, outcome) ==
    /\ CountFailure(outcome)
    /\ \E id \in requestDue[p] :
         /\ permMap' = [permMap EXCEPT ![p][id] = "request"]
         /\ permFile' = Appended(permFile, [id |-> id, kind |-> "request"], outcome)
    /\ requestDue' = [requestDue EXCEPT ![p] = {}]
    /\ UNCHANGED <<eventFile, counter, remembered, serial, decided, processEnds, cutShort>>

(* listPermissionRequests: every line of the file is taken for a request, and
   the last one with an id wins, be it a decision. *)
Merged(p) ==
    [id \in RequestIds |->
        LET at == {i \in ParsedLines(permFile) : permFile[i].body.id = id} IN
        IF at = {} THEN permMap[p][id]
                   ELSE permFile[CHOOSE i \in at : \A j \in at : j <= i].body.kind]

(* decidePermission, of a request that listPermissionRequests returns. *)
DecidePermission(p, id, decision, outcome) ==
    /\ decided < MaxDecisions
    /\ requestDue[p] = {}
    /\ Merged(p)[id] # "none"
    /\ CountFailure(outcome)
    /\ permMap' = [permMap EXCEPT ![p] = Merged(p)]
    /\ permFile' = Appended(permFile, [id |-> id, kind |-> decision], outcome)
    /\ decided' = decided + 1
    /\ UNCHANGED <<eventFile, counter, remembered, requestDue, serial, processEnds, cutShort>>

(* The process ends, and the next one starts with empty maps. *)
ProcessEnds(p) ==
    /\ processEnds < MaxProcessEnds
    /\ counter' = [counter EXCEPT ![p] = 0]
    /\ remembered' = [remembered EXCEPT ![p] = <<>>]
    /\ requestDue' = [requestDue EXCEPT ![p] = {}]
    /\ permMap' = [permMap EXCEPT ![p] = [id \in RequestIds |-> "none"]]
    /\ processEnds' = processEnds + 1
    /\ cutShort' = (cutShort \/ requestDue[p] # {})
    /\ UNCHANGED <<eventFile, permFile, serial, decided, failedAppends>>

(* getRunToolEvents: the process's own events and then the parsed ones of the
   file, the later one of those with the same id. *)
ReportedFromFile ==
    LET lines == ParsedLines(eventFile) IN
    {eventFile[i].body : i \in {j \in lines :
        \A k \in lines : EventId(eventFile[k].body) = EventId(eventFile[j].body) => k <= j}}

ReportedFromMemory(p) ==
    {remembered[p][i] : i \in {j \in DOMAIN remembered[p] :
        /\ \A k \in DOMAIN remembered[p] :
              EventId(remembered[p][k]) = EventId(remembered[p][j]) => k <= j
        /\ \A k \in ParsedLines(eventFile) :
              EventId(eventFile[k].body) # EventId(remembered[p][j])}}

Reported(p) == ReportedFromFile \union ReportedFromMemory(p)

EventsNext ==
    \E p \in EventProcesses, outcome \in Outcomes :
        \/ \E input \in ToolInputs, denied \in BOOLEAN :
              RecordToolEvent(p, input, denied, outcome)
        \/ CreatePermissionRequest(p, outcome)
        \/ \E id \in RequestIds, decision \in {"approve", "deny"} :
              DecidePermission(p, id, decision, outcome)
        \/ ProcessEnds(p)

EventsSpec == EventsInit /\ [][EventsNext]_eventVars

-----------------------------------------------------------------------------
(* While no append threw, every process reports what the file has, whether it
   recorded the events itself or reads what others left (getRunToolEvents), so
   that the reports agree.  A process whose append threw reports an event that
   nobody else can. *)
ReportsAgree == failedAppends = 0 => \A p \in EventProcesses : Reported(p) = ReportedFromFile

(* An event whose append succeeded is reported by every process, or a twin
   recorded later is (one with the same number, tool and arguments), unless
   the append before it was cut: that one's line swallows it.  No cut costs
   more than the one event behind it. *)
HiddenOnlyByTwin ==
    \A p \in EventProcesses :
        LET reported == Reported(p) IN
        \A i \in DOMAIN eventFile :
            /\ eventFile[i].part = "whole"
            /\ i > 1 => eventFile[i - 1].part = "whole"
            => \E r \in reported : /\ r.step = eventFile[i].body.step
                                   /\ r.input = eventFile[i].body.input
                                   /\ r.serial >= eventFile[i].body.serial

LoneRecorder(p) == /\ processEnds = 0
                   /\ \A q \in EventProcesses \ {p} : counter[q] = 0

(* A process that records a whole run alone and does not end reports every
   event of it, each number from 1 to its counter once, whatever appends
   threw or were swallowed. *)
LoneRunComplete ==
    \A p \in EventProcesses : LoneRecorder(p) =>
        LET reported == Reported(p) IN
        /\ {r.step : r \in reported} = 1..counter[p]
        /\ \A r, s \in reported : r.step = s.step => r = s

(* No permission line without its event: a request, and whatever is decided
   on it, is in the file or in a process's map only when its event's append
   succeeded, whatever failed and whoever ended in between. *)
EventWritten(id) ==
    \E i \in DOMAIN eventFile : /\ eventFile[i].part = "whole"
                                /\ eventFile[i].body.denied
                                /\ EventId(eventFile[i].body) = id

PermissionsHaveEvents ==
    /\ \A i \in DOMAIN permFile : EventWritten(permFile[i].body.id)
    /\ \A p \in EventProcesses, id \in RequestIds :
          permMap[p][id] # "none" => EventWritten(id)

(* While no append threw, a decision stands behind its request in the file;
   and a denied event has its request there, unless its recordToolEvent is
   under way or a process ended inside one. *)
RequestAt(id, places) ==
    \E j \in places : permFile[j].body = [id |-> id, kind |-> "request"]

DecisionsHaveRequests ==
    failedAppends = 0 =>
        \A i \in DOMAIN permFile :
            permFile[i].body.kind # "request" => RequestAt(permFile[i].body.id, 1..(i - 1))

NoRequestMissing ==
    failedAppends = 0 /\ ~cutShort =>
        \A i \in DOMAIN eventFile :
            LET id == EventId(eventFile[i].body) IN
            eventFile[i].body.denied =>
                \/ RequestAt(id, DOMAIN permFile)
                \/ \E p \in EventProcesses : id \in requestDue[p]

\* What holds of the two files in every state: reports that agree while appends
\* succeed, events hidden only by twins and behind cuts, complete reports of a
\* lone recorder, and permission lines that have their events and requests.
EventsInvariant == /\ EventsTypeOK /\ ReportsAgree /\ HiddenOnlyByTwin
                   /\ LoneRunComplete /\ PermissionsHaveEvents
                   /\ DecisionsHaveRequests /\ NoRequestMissing

=============================================================================
