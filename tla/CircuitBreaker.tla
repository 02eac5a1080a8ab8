--------------------------- MODULE CircuitBreaker ---------------------------
(***************************************************************************)
(* packages/ai/src/models/circuitBreaker.ts with its HTTP store, driven by *)
(* generateText of models/arbitrator.ts.  One circuit key.  The circuit is *)
(* read and changed synchronously; it is loaded and saved by requests that *)
(* nobody waits for.                                                       *)
(*                                                                         *)
(* A save keeps a reference to the circuit object, so a retry sends what   *)
(* the object holds by then.  The store's own cache always holds the same  *)
(* object as _circuits, or nothing, and is left out.                       *)
(***************************************************************************)
EXTENDS Integers, FiniteSets

CONSTANTS
  FailureThreshold, SuccessThreshold, RecoveryTime,  \* CircuitBreakerConfig
  MaxRetries,     \* attempts of one save
  MaxCallers,     \* calls of the provider at one time
  MaxBreakerTime, \* bound: the clock
  MaxSaves,       \* bound: requests to the endpoint at one time
  MaxTroubles     \* bound: lost requests, resets and restarts

ASSUME BreakerAssumption ==
  FailureThreshold \in Nat \ {0} /\ SuccessThreshold \in Nat \ {0}
  /\ MaxRetries \in Nat \ {0} /\ RecoveryTime \in Nat /\ MaxCallers \in Nat

VARIABLES
  circuit,     \* the entry of _circuits, or NoCircuit
  kept,        \* what the remote endpoint has for the key
  loading,     \* the load under way: [at, data]
  saves,       \* the requests to the endpoint under way
  calls,       \* provider calls under way
  breakerNow,
  troubles,
  burst,       \* history: calls that reached the provider since the last success,
               \* tick, reset or restart
  overwritten  \* history: a load or a reset replaced the circuit since then

breakerVars == <<circuit, kept, loading, saves, calls, breakerNow, troubles, burst,
                 overwritten>>

NoCircuit == [state |-> "none", failures |-> 0, successes |-> 0, openedAt |-> 0]
Closed == [NoCircuit EXCEPT !.state = "CLOSED"]
NotLoading == [at |-> "no", data |-> NoCircuit]

-----------------------------------------------------------------------------
\* getCircuit: a default circuit stands in until the load is done.
Present == IF circuit = NoCircuit THEN Closed ELSE circuit
StartsLoad == circuit = NoCircuit /\ loading = NotLoading
Loading == IF StartsLoad THEN [at |-> "asked", data |-> NoCircuit] ELSE loading

\* A save of the current object, and a delete, as requests.
Save(c, id) == [id |-> id, body |-> c, live |-> TRUE, obj |-> NoCircuit,
                left |-> MaxRetries - 1, waiting |-> FALSE]
Delete(id) == [id |-> id, body |-> NoCircuit, live |-> FALSE, obj |-> NoCircuit,
               left |-> 0, waiting |-> FALSE]
Room == Cardinality(saves) < MaxSaves
FreshId == CHOOSE i \in 0..Cardinality(saves) : \A s \in saves : s.id # i

\* The object in _circuits is replaced: saves under way keep the old one.
Detached == {[s EXCEPT !.live = FALSE,
                       !.obj = IF s.live THEN circuit ELSE s.obj] : s \in saves}

Recovered(c) == breakerNow - c.openedAt >= RecoveryTime

Opens(c) ==
  \/ c.state = "CLOSED" /\ c.failures + 1 >= FailureThreshold
  \/ c.state = "HALF_OPEN"

\* recordFailure on a circuit.  Failures are counted up to the threshold:
\* beyond it the number decides nothing.
Failed(c) ==
  [c EXCEPT !.failures = IF c.failures < FailureThreshold THEN c.failures + 1 ELSE c.failures,
            !.state = IF Opens(c) THEN "OPEN" ELSE c.state,
            !.openedAt = IF Opens(c) THEN breakerNow ELSE c.openedAt]

\* Mutant: every success closes the circuit, a late one too.
SucceededLate(c) == [c EXCEPT !.state = "CLOSED", !.failures = 0, !.successes = 0]

\* recordSuccess on a circuit: a late success finds the circuit open and
\* changes nothing.
Succeeded(c) ==
  IF c.state = "HALF_OPEN"
  THEN IF c.successes + 1 >= SuccessThreshold
       THEN [c EXCEPT !.state = "CLOSED", !.failures = 0, !.successes = 0]
       ELSE [c EXCEPT !.successes = c.successes + 1]
  ELSE IF c.state = "CLOSED" THEN [c EXCEPT !.failures = 0] ELSE c

\* checkCircuit once the recovery time is over.
HalfOpen(c) == [c EXCEPT !.state = "HALF_OPEN", !.successes = 0]

-----------------------------------------------------------------------------
BreakerInit ==
  /\ circuit = NoCircuit /\ kept = NoCircuit
  /\ loading = NotLoading /\ saves = {} /\ calls = 0 /\ breakerNow = 0
  /\ troubles = 0
  /\ burst = 0 /\ overwritten = FALSE

\* A call the circuit lets through, as it is or as a probe.
Admit ==
  /\ calls < MaxCallers /\ Room
  /\ Present.state = "OPEN" => Recovered(Present)
  /\ calls' = calls + 1
  /\ loading' = Loading
  /\ IF Present.state = "OPEN"
     THEN /\ circuit' = HalfOpen(Present)
          /\ saves' = saves \cup {Save(HalfOpen(Present), FreshId)}
     ELSE circuit' = Present /\ UNCHANGED saves
  /\ burst' = burst + 1
  /\ UNCHANGED <<kept, breakerNow, troubles, overwritten>>

\* A call the circuit refuses: checkCircuit throws inside the try of
\* generateText, whose catch records one more failure.
Refuse ==
  /\ Room /\ Present.state = "OPEN" /\ ~Recovered(Present)
  /\ circuit' = Failed(Present)
  /\ saves' = saves \cup {Save(Failed(Present), FreshId)}
  /\ UNCHANGED <<kept, loading, calls, breakerNow, troubles, burst,
                 overwritten>>

\* Mutant: a failed probe does not open the circuit again.
CallFailsOpensOnce ==
  /\ calls > 0 /\ Room
  /\ calls' = calls - 1
  /\ loading' = Loading
  /\ circuit' = IF Present.state = "HALF_OPEN" THEN Present ELSE Failed(Present)
  /\ saves' = saves \cup {Save(circuit', FreshId)}
  /\ UNCHANGED <<kept, breakerNow, troubles, burst, overwritten>>

\* The provider fails.  After a reset the key may be missing here too.
CallFails ==
  /\ calls > 0 /\ Room
  /\ calls' = calls - 1
  /\ loading' = Loading
  /\ circuit' = Failed(Present)
  /\ saves' = saves \cup {Save(Failed(Present), FreshId)}
  /\ UNCHANGED <<kept, breakerNow, troubles, burst, overwritten>>

CallSucceeds ==
  /\ calls > 0 /\ Room
  /\ calls' = calls - 1
  /\ loading' = Loading
  /\ circuit' = Succeeded(Present)
  /\ saves' = saves \cup {Save(Succeeded(Present), FreshId)}
  /\ burst' = 0
  /\ overwritten' = FALSE
  /\ UNCHANGED <<kept, breakerNow, troubles>>

\* No provider is configured or available: nothing is recorded.
CallUnavailable ==
  /\ calls > 0
  /\ calls' = calls - 1
  /\ burst' = IF burst > 0 THEN burst - 1 ELSE 0
  /\ UNCHANGED <<circuit, kept, loading, saves, breakerNow, troubles, overwritten>>

-----------------------------------------------------------------------------
\* The endpoint answers the load.
LoadAnswered ==
  /\ loading.at = "asked"
  /\ loading' = [at |-> "answered", data |-> kept]
  /\ UNCHANGED <<circuit, kept, saves, calls, breakerNow, troubles, burst, overwritten>>

\* The answer is lost or an error: loadState returns null.
LoadFails ==
  /\ loading.at = "asked" /\ troubles < MaxTroubles
  /\ loading' = [at |-> "answered", data |-> NoCircuit]
  /\ troubles' = troubles + 1
  /\ UNCHANGED <<circuit, kept, saves, calls, breakerNow, burst,
                 overwritten>>

\* loadCircuitFromStore resumes: what was loaded replaces what happened since.
LoadDone ==
  /\ loading.at = "answered"
  /\ loading' = NotLoading
  /\ IF loading.data = NoCircuit
     THEN UNCHANGED <<circuit, saves, overwritten>>
     ELSE circuit' = loading.data /\ saves' = Detached /\ overwritten' = TRUE
  /\ UNCHANGED <<kept, calls, breakerNow, troubles, burst>>

\* A save or a delete reaches the endpoint; the answer may be lost.
Delivered(s) ==
  /\ ~s.waiting
  /\ kept' = s.body
  /\ \/ saves' = saves \ {s} /\ UNCHANGED troubles
     \/ /\ troubles < MaxTroubles /\ troubles' = troubles + 1
        /\ s.left > 0
        /\ saves' = (saves \ {s}) \cup {[s EXCEPT !.waiting = TRUE, !.body = NoCircuit]}
  /\ UNCHANGED <<circuit, loading, calls, breakerNow, burst,
                 overwritten>>

\* It does not: the save backs off, or gives up after its last attempt.
Lost(s) ==
  /\ ~s.waiting /\ troubles < MaxTroubles
  /\ troubles' = troubles + 1
  /\ saves' = IF s.left > 0
              THEN (saves \ {s}) \cup {[s EXCEPT !.waiting = TRUE, !.body = NoCircuit]}
              ELSE saves \ {s}
  /\ UNCHANGED <<circuit, kept, loading, calls, breakerNow, burst,
                 overwritten>>

\* The backoff is over: the object is serialised again.
Resent(s) ==
  /\ s.waiting
  /\ saves' = (saves \ {s}) \cup
       {[s EXCEPT !.waiting = FALSE, !.left = s.left - 1,
                  !.body = IF s.live THEN circuit ELSE s.obj]}
  /\ UNCHANGED <<circuit, kept, loading, calls, breakerNow, troubles, burst, overwritten>>

-----------------------------------------------------------------------------
\* resetCircuit: the entry is dropped; a load under way is not.
Reset ==
  /\ troubles < MaxTroubles /\ Room
  /\ troubles' = troubles + 1
  /\ circuit' = NoCircuit
  /\ saves' = Detached \cup {Delete(FreshId)}
  /\ burst' = 0
  /\ overwritten' = (loading # NotLoading)
  /\ UNCHANGED <<kept, loading, calls, breakerNow>>

\* The process stops; requests already sent may still arrive.
Restart ==
  /\ troubles < MaxTroubles
  /\ troubles' = troubles + 1
  /\ circuit' = NoCircuit /\ loading' = NotLoading /\ calls' = 0
  /\ \E sent \in SUBSET {s \in saves : ~s.waiting} :
       saves' = {[s EXCEPT !.left = 0, !.live = FALSE] : s \in sent}
  /\ burst' = 0 /\ overwritten' = FALSE
  /\ UNCHANGED <<kept, breakerNow>>

BreakerTick ==
  /\ breakerNow < MaxBreakerTime
  /\ breakerNow' = breakerNow + 1
  /\ burst' = 0
  /\ overwritten' = FALSE
  /\ UNCHANGED <<circuit, kept, loading, saves, calls, troubles>>

BreakerNext ==
  \/ Admit \/ Refuse \/ CallFails \/ CallSucceeds \/ CallUnavailable
  \/ LoadAnswered \/ LoadFails \/ LoadDone
  \/ \E s \in saves : Delivered(s) \/ Lost(s) \/ Resent(s)
  \/ Reset \/ Restart \/ BreakerTick

BreakerSpec == BreakerInit /\ [][BreakerNext]_breakerVars

-----------------------------------------------------------------------------
Circuits ==
  [state : {"none", "CLOSED", "OPEN", "HALF_OPEN"}, failures : 0..FailureThreshold,
   successes : 0..(SuccessThreshold - 1), openedAt : Nat]

\* Only a closed circuit counts up to the threshold, and only a half-open one
\* counts successes, in memory, at the endpoint and in every request.
Coherent(c) ==
  /\ c \in Circuits
  /\ c.state = "CLOSED" => c.failures < FailureThreshold
  /\ c.state \in {"CLOSED", "none"} => c.successes = 0
  /\ c.state # "none" => c.openedAt <= breakerNow

\* The type invariant: whatever is loaded, saved late or sent again is a
\* circuit recordFailure and recordSuccess could have left.
BreakerTypeOK ==
  /\ Coherent(circuit) /\ Coherent(kept) /\ Coherent(loading.data)
  /\ \A s \in saves : Coherent(s.body) /\ Coherent(s.obj)
  /\ calls \in 0..MaxCallers

\* The circuit does its work: while the provider keeps failing and no recovery
\* time passes, at most FailureThreshold - 1 calls and the ones already under
\* way get through, and no more than as many again when the load of the stored
\* state throws away what was counted meanwhile.
FailuresAreCapped ==
  burst <= (IF overwritten THEN 2 ELSE 1) * (FailureThreshold - 1 + MaxCallers)

\* What holds of the circuits in every state: types, and bounded failures.
BreakerInvariant == BreakerTypeOK /\ FailuresAreCapped

\* An open circuit closes only through probes: the state OPEN is left for
\* HALF_OPEN, or because a load, a reset or a restart replaces the circuit.
OpenIsLeftByProbe ==
  [][circuit.state = "OPEN" /\ circuit'.state = "CLOSED"
       => loading.at = "answered" /\ loading' = NotLoading]_breakerVars
=============================================================================
