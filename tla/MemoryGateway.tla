--------------------------- MODULE MemoryGateway ----------------------------
(* withTenantContext outside production-like deployments                      *)
(* (ready-layer/src/lib/big4-http.ts): the response cache of GET and the      *)
(* idempotency records of POST and PUT are maps in the memory of one process, *)
(* read and written with the time at which the request arrived.               *)
(*                                                                            *)
(* There is one resource, which a POST changes and a GET reads, and one key.  *)
(* A version of the resource is the number of changes before it.              *)
EXTENDS Integers, FiniteSets

CONSTANTS
  MemRequests,
  CacheTtl,                 \* cacheOptions.ttlMs
  KeyTtl,                   \* idempotencyTtlMs
  NoEntry,
  MaxRequestTime,           \* bound on the time a request takes
  MaxMemTime, MaxRestarts   \* bounds

ASSUME MemAssumption == /\ CacheTtl \in Nat \ {0} /\ KeyTtl \in Nat \ {0}
                        /\ MaxRequestTime \in Nat
                        /\ MaxMemTime \in Nat /\ MaxRestarts \in Nat
                        /\ IsFiniteSet(MemRequests)
                        /\ NoEntry \notin [expires : Nat]

VARIABLES
  memTime,
  version,     \* the current version of the resource
  cached,      \* responseCache: [shows, expires], or NoEntry
  keyed,       \* idempotencyCache: [expires], or NoEntry
  incoming,    \* what each call of withTenantContext does
  replacedAt,  \* history: when each version was replaced
  overlapped,  \* history: two POSTs were under way at one time
  restarts

memGateVars == <<memTime, version, cached, keyed, incoming, replacedAt, overlapped, restarts>>

MemTimes == 0..MaxMemTime
Versions == 0..Cardinality(MemRequests)

Unborn == [kind |-> "none", phase |-> "none", at |-> 0, shows |-> 0]

\* A request that ended without an answer of its handler.
Over == [Unborn EXCEPT !.phase = "over"]

UnderWay(kind) == {r \in MemRequests : /\ incoming[r].kind = kind
                                       /\ incoming[r].phase \in {"arrived", "handling", "storing"}}

MemInit ==
  /\ memTime = 0 /\ version = 0
  /\ cached = NoEntry /\ keyed = NoEntry
  /\ incoming = [r \in MemRequests |-> Unborn]
  /\ replacedAt = [v \in Versions |-> 0]
  /\ overlapped = FALSE /\ restarts = 0

\* now = Date.now(), and cleanupCaches(now), which looks at the entries only
\* when there are many: those of other keys, which are not modelled.
Cleaned(entry) ==
  {entry} \cup (IF entry # NoEntry /\ entry.expires <= memTime THEN {NoEntry} ELSE {})

Arrive(r, kind) ==
  /\ incoming[r] = Unborn
  /\ incoming' = [incoming EXCEPT ![r] =
       [kind |-> kind, phase |-> "arrived", at |-> memTime, shows |-> 0]]
  /\ cached' \in Cleaned(cached) /\ keyed' \in Cleaned(keyed)
  /\ overlapped' = (overlapped \/ (kind = "POST" /\ UnderWay("POST") # {}))
  /\ UNCHANGED <<memTime, version, replacedAt, restarts>>

\* An entry counts for a request as long as it was not over when that arrived.
Counts(entry, r) == entry # NoEntry /\ entry.expires > incoming[r].at

Phase(r, p) == incoming' = [incoming EXCEPT ![r].phase = p]
Ends(r) == incoming' = [incoming EXCEPT ![r] = Over]

\* The response cache: a hit is the answer.
CacheLookup(r) ==
  /\ incoming[r].phase = "arrived" /\ incoming[r].kind = "GET"
  /\ IF Counts(cached, r)
     THEN incoming' = [incoming EXCEPT ![r] =
                         [@ EXCEPT !.phase = "hit", !.shows = cached.shows]]
     ELSE Phase(r, "handling")
  /\ UNCHANGED <<memTime, version, cached, keyed, replacedAt, overlapped, restarts>>

\* The record of the key: another body is a conflict, the same a replay, and
\* the handler is not called.
KeyLookup(r) ==
  /\ incoming[r].phase = "arrived" /\ incoming[r].kind = "POST"
  /\ IF Counts(keyed, r) THEN Ends(r) ELSE Phase(r, "handling")
  /\ UNCHANGED <<memTime, version, cached, keyed, replacedAt, overlapped, restarts>>

\* policyEval denies, or an answer of 400 and more to a GET.
Turned(r) ==
  /\ incoming[r].phase = "handling"
  /\ Ends(r)
  /\ UNCHANGED <<memTime, version, cached, keyed, replacedAt, overlapped, restarts>>

HandlerReads(r) ==
  /\ incoming[r].phase = "handling" /\ incoming[r].kind = "GET"
  /\ incoming' = [incoming EXCEPT ![r] = [@ EXCEPT !.phase = "storing", !.shows = version]]
  /\ UNCHANGED <<memTime, version, cached, keyed, replacedAt, overlapped, restarts>>

Changes == /\ version' = version + 1
           /\ replacedAt' = [replacedAt EXCEPT ![version] = memTime]

\* The handler answers with less than 500: it has made its change or refused it.
HandlerChanges(r) ==
  /\ incoming[r].phase = "handling" /\ incoming[r].kind = "POST"
  /\ Changes \/ UNCHANGED <<version, replacedAt>>
  /\ Phase(r, "storing")
  /\ UNCHANGED <<memTime, cached, keyed, overlapped, restarts>>

\* The handler throws, or answers with 500 and more, before or after its change.
HandlerBreaks(r) ==
  /\ incoming[r].phase = "handling" /\ incoming[r].kind = "POST"
  /\ Changes \/ UNCHANGED <<version, replacedAt>>
  /\ Ends(r)
  /\ UNCHANGED <<memTime, cached, keyed, overlapped, restarts>>

\* Mutant: an answer is kept for its time from when it was stored.
StoreAnswerLater(r) ==
  /\ incoming[r].phase = "storing"
  /\ IF incoming[r].kind = "GET"
     THEN /\ cached' = [shows |-> incoming[r].shows, expires |-> memTime + CacheTtl]
          /\ UNCHANGED keyed
     ELSE /\ keyed' = [expires |-> memTime + KeyTtl]
          /\ UNCHANGED cached
  /\ Phase(r, "answered")
  /\ UNCHANGED <<memTime, version, replacedAt, overlapped, restarts>>

\* The entries replace those of a request that was faster.
StoreAnswer(r) ==
  /\ incoming[r].phase = "storing"
  /\ IF incoming[r].kind = "GET"
     THEN /\ cached' = [shows |-> incoming[r].shows, expires |-> incoming[r].at + CacheTtl]
          /\ UNCHANGED keyed
     ELSE /\ keyed' = [expires |-> incoming[r].at + KeyTtl]
          /\ UNCHANGED cached
  /\ Phase(r, "answered")
  /\ UNCHANGED <<memTime, version, replacedAt, overlapped, restarts>>

\* The process ends and another starts with empty maps.
RestartGateway ==
  /\ restarts < MaxRestarts
  /\ restarts' = restarts + 1
  /\ cached' = NoEntry /\ keyed' = NoEntry
  /\ incoming' = [r \in MemRequests |->
       IF r \in UnderWay("GET") \cup UnderWay("POST")
         THEN Over ELSE incoming[r]]
  /\ UNCHANGED <<memTime, version, replacedAt, overlapped>>

MemTick == /\ memTime < MaxMemTime
           /\ \A r \in UnderWay("GET") \cup UnderWay("POST") :
                memTime - incoming[r].at < MaxRequestTime
           /\ memTime' = memTime + 1
           /\ UNCHANGED <<version, cached, keyed, incoming, replacedAt, overlapped, restarts>>

MemNext ==
  \/ \E r \in MemRequests :
       \/ Arrive(r, "GET") \/ Arrive(r, "POST")
       \/ CacheLookup(r) \/ KeyLookup(r) \/ Turned(r)
       \/ HandlerReads(r) \/ HandlerChanges(r) \/ HandlerBreaks(r) \/ StoreAnswer(r)
  \/ RestartGateway \/ MemTick

MemSpec == MemInit /\ [][MemNext]_memGateVars

-----------------------------------------------------------------------------
\* The type invariant, with how long an entry can last.
MemTypeOK ==
  /\ memTime \in MemTimes /\ version \in Versions
  /\ cached = NoEntry \/ cached \in [shows : Versions, expires : 0..(memTime + CacheTtl)]
  /\ keyed = NoEntry \/ keyed \in [expires : 0..(memTime + KeyTtl)]
  /\ replacedAt \in [Versions -> MemTimes]
  /\ \A r \in MemRequests : incoming[r].at <= memTime /\ incoming[r].shows <= version

(* What a GET shows was the current version later than CacheTtl before the
   request arrived, however long the requests that filled the cache took and
   in whatever order they stored their answers. *)
StalenessBounded ==
  \A r \in MemRequests :
    incoming[r].kind = "GET" /\ incoming[r].phase \in {"hit", "storing", "answered"} =>
      \/ incoming[r].shows = version
      \/ replacedAt[incoming[r].shows] > incoming[r].at - CacheTtl

Ran == {r \in MemRequests : incoming[r].kind = "POST" /\ incoming[r].phase = "answered"}

(* In a process that was not restarted, two requests with the key that the
   handler has answered arrived KeyTtl apart, less the time a request takes: a
   later request may clean the record away between the arrival of a request and
   its look at the key.  No two POSTs may be under way at one time: nothing
   marks the key while a handler runs. *)
SerialRunsOnce ==
  ~overlapped /\ restarts = 0 =>
    \A r, s \in Ran : r # s =>
      \/ incoming[r].at - incoming[s].at >= KeyTtl - MaxRequestTime
      \/ incoming[s].at - incoming[r].at >= KeyTtl - MaxRequestTime

\* What holds of the in-memory gateway in every state: types, answers no older
\* than the cache says, and one run of a key whose requests come in turn.
MemInvariant == MemTypeOK /\ StalenessBounded /\ SerialRunsOnce
=============================================================================
