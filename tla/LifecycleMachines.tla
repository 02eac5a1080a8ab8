------------------------- MODULE LifecycleMachines --------------------------
(***************************************************************************)
(* packages/cli/src/lib/state-machine.ts and run-lifecycle.ts: the class   *)
(* StateMachine, the three machines built with it, transitionEntity and    *)
(* RunLifecycleTracker.                                                    *)
(***************************************************************************)
EXTENDS Integers, Sequences

CONSTANT MaxTrail  \* bound: recorded transitions

VARIABLES
  machineName,  \* the machine of the entity
  entity,       \* its state, or "error" when the machine's constructor threw
  trail         \* transitionHistory: pairs <<from, to>>

machineVars == <<machineName, entity, trail>>

\* A machine: the transitions of each state that is defined, the terminal
\* states and the initial one.
Machine(transitions, terminal, initial) ==
  [transitions |-> transitions, terminal |-> terminal, initial |-> initial]

ExecutionMachine ==
  Machine([pending |-> {"queued", "cancelled"},
           queued |-> {"running", "cancelled"},
           running |-> {"succeeded", "failed", "timeout", "paused", "cancelled"},
           paused |-> {"running", "cancelled"},
           succeeded |-> {}, failed |-> {"queued"}, timeout |-> {"queued"},
           cancelled |-> {}],
          {"succeeded", "cancelled"}, "pending")

\* There is no definition of the state failed.
JunctionMachine ==
  Machine([detected |-> {"validating", "expired"},
           validating |-> {"awaiting_decision", "blocked", "expired"},
           awaiting_decision |-> {"executing", "expired", "blocked"},
           executing |-> {"resolved", "failed"},
           resolved |-> {}, expired |-> {}, blocked |-> {"validating", "expired"}],
          {"resolved", "expired"}, "detected")

\* STATE_ORDER
StateOrder == <<"init", "policy_checked", "arbitrated", "executed", "manifest_built",
                "signed", "ledger_committed", "complete">>

RunMachine ==
  Machine([init |-> {"policy_checked", "divergent"},
           policy_checked |-> {"arbitrated", "divergent"},
           arbitrated |-> {"executed", "divergent"},
           executed |-> {"manifest_built", "divergent"},
           manifest_built |-> {"signed", "divergent"},
           signed |-> {"ledger_committed", "divergent"},
           ledger_committed |-> {"complete"},
           complete |-> {}, divergent |-> {}],
          {"complete", "divergent"}, "init")

Machines == [execution |-> ExecutionMachine, junction |-> JunctionMachine,
             run |-> RunMachine]
M == Machines[machineName]
Defined(m) == DOMAIN m.transitions
Targets(m) == UNION {m.transitions[s] : s \in Defined(m)}

\* validateConfig: every target is a defined state.
Constructs(m) == m.initial \in Defined(m) /\ Targets(m) \subseteq Defined(m)

\* validateTransition
Valid(m, from, to) ==
  \/ from = to
  \/ from \in Defined(m) /\ from \notin m.terminal /\ to \in m.transitions[from]

Position(s) == IF \E i \in 1..Len(StateOrder) : StateOrder[i] = s
               THEN CHOOSE i \in 1..Len(StateOrder) : StateOrder[i] = s ELSE 0

-----------------------------------------------------------------------------
MachineInit ==
  /\ machineName \in DOMAIN Machines
  /\ entity = IF Constructs(M) THEN M.initial ELSE "error"
  /\ trail = <<>>

Moves(to) ==
  /\ trail' = Append(trail, <<entity, to>>)
  /\ entity' = to
  /\ UNCHANGED machineName

\* transitionEntity: the same state again is valid and recorded too.
TransitionEntity(to) ==
  /\ machineName # "run" /\ entity # "error" /\ Len(trail) < MaxTrail
  /\ Valid(M, entity, to)
  /\ Moves(to)

\* Mutant: the step is not compared with the machine nor with the order.
AdvanceUnchecked(to) ==
  /\ machineName = "run" /\ Len(trail) < MaxTrail
  /\ entity \notin M.terminal
  /\ Moves(to)

\* RunLifecycleTracker.advance: the machine first, then no regression and no
\* skip; DIVERGENT is exempt from the second check, even from itself.
Advance(to) ==
  /\ machineName = "run" /\ Len(trail) < MaxTrail
  /\ Valid(M, entity, to)
  /\ to # "divergent" => Position(to) = Position(entity) + 1
  /\ Moves(to)

\* diverge: refused from a terminal state, then advance.
Diverge ==
  /\ machineName = "run" /\ Len(trail) < MaxTrail
  /\ entity \notin M.terminal
  /\ Valid(M, entity, "divergent")
  /\ Moves("divergent")

MachineNext ==
  \/ \E to \in Defined(M) : TransitionEntity(to) \/ Advance(to)
  \/ Diverge

MachineSpec == MachineInit /\ [][MachineNext]_machineVars

-----------------------------------------------------------------------------
\* However its advance and diverge calls were ordered, and whichever of them were
\* refused, a complete run went through every state of the order, each once: the
\* recorded history is the whole order, with nothing skipped or repeated.
CompleteRunVisitedAll ==
  entity = "complete" =>
    trail = [i \in 1..(Len(StateOrder) - 1) |-> <<StateOrder[i], StateOrder[i + 1]>>]

\* The standard machines can be built (selftest.ts builds the junction machine
\* and expects 'detected -> validating should be valid').
MachinesConstruct == entity # "error"
=============================================================================
