---------------------------- MODULE PlanExecution ----------------------------
(***************************************************************************)
(* The kernel's plans (src/src/plan.cpp): a list of steps that name the    *)
(* steps they depend on, plan_validate, plan_topological_order and         *)
(* plan_execute.                                                           *)
(*                                                                         *)
(* A step id is a number, ordered as the code orders the strings; EmptyId  *)
(* is the empty string.  A step is its id and the set of ids it depends    *)
(* on: an id listed twice counts twice in the in-degree and is subtracted  *)
(* twice, so the multiplicity is of no consequence.  Validation and        *)
(* ordering run the same loop over the same plan, which is modelled once:  *)
(* the order validation visits is the order execution follows.             *)
(***************************************************************************)
EXTENDS Integers, Sequences, FiniteSets

CONSTANTS StepIds, EmptyId, MaxSteps

ASSUME PlanAssumption == /\ StepIds \subseteq Int /\ IsFiniteSet(StepIds)
                         /\ EmptyId \in StepIds
                         /\ MaxSteps \in Nat

VARIABLES steps,      \* plan.steps
          planPhase,  \* "drafting", "sorting", "running", "refused" or "done"
          planErrors, \* the kinds of message in PlanValidateResult.errors
          degree,     \* in_degree, by step id
          heap,       \* the min-heap of ids whose in-degree is zero
          order,      \* the ids in the order they left the heap
          position,   \* the number of ids of order that were executed
          results     \* step_results: "ok", "failed" or "dependency_failed"

planVars == <<steps, planPhase, planErrors, degree, heap, order, position, results>>

Listed == {steps[i].id : i \in DOMAIN steps}

DependsOn(id) == UNION {steps[i].needs : i \in {j \in DOMAIN steps : steps[j].id = id}}

InDegree(id) ==
    Cardinality({e \in (DOMAIN steps) \X StepIds :
                    steps[e[1]].id = id /\ e[2] \in steps[e[1]].needs})

Successors(dep, id) ==
    Cardinality({i \in DOMAIN steps : steps[i].id = id /\ dep \in steps[i].needs})

PlanTypeOK ==
    /\ steps \in Seq([id : StepIds, needs : SUBSET StepIds])
    /\ planPhase \in {"drafting", "sorting", "running", "refused", "done"}
    /\ planErrors \subseteq {"empty", "duplicate", "unknown", "cycle"}
    /\ degree \in [StepIds -> Nat]
    /\ heap \subseteq StepIds
    /\ order \in Seq(StepIds)
    /\ position \in 0..Len(order)
    /\ results \in [StepIds -> {"none", "ok", "failed", "dependency_failed"}]

PlanInit ==
    /\ steps = <<>>
    /\ planPhase = "drafting"
    /\ planErrors = {}
    /\ degree = [id \in StepIds |-> 0]
    /\ heap = {}
    /\ order = <<>>
    /\ position = 0
    /\ results = [id \in StepIds |-> "none"]

(* The caller writes the plan: any list of steps. *)
AddStep(id, needs) ==
    /\ planPhase = "drafting"
    /\ Len(steps) < MaxSteps
    /\ steps' = Append(steps, [id |-> id, needs |-> needs])
    /\ UNCHANGED <<planPhase, planErrors, degree, heap, order, position, results>>

Duplicated == \E i, j \in DOMAIN steps : i # j /\ steps[i].id = steps[j].id

UnknownNeeded == \E i \in DOMAIN steps : ~ (steps[i].needs \subseteq Listed)

(* The checks before the sort, and the in-degrees it starts from. *)
BeginSort ==
    /\ planPhase = "drafting"
    /\ planPhase' = "sorting"
    /\ planErrors' = {e \in {"empty", "duplicate", "unknown"} :
                        \/ e = "empty" /\ EmptyId \in Listed
                        \/ e = "duplicate" /\ Duplicated
                        \/ e = "unknown" /\ UnknownNeeded}
    /\ degree' = [id \in StepIds |-> IF id \in Listed THEN InDegree(id) ELSE 0]
    /\ heap' = {id \in Listed : InDegree(id) = 0}
    /\ UNCHANGED <<steps, order, position, results>>

IsLeast(id, S) == id \in S /\ \A other \in S : id <= other

Reduced(cur) == [id \in StepIds |-> degree[id] - Successors(cur, id)]

Released(cur) == {id \in Listed : degree[id] > 0 /\ Reduced(cur)[id] = 0}

(* One turn of the loop: the least ready id leaves the heap, and the ids
   whose last dependency it was enter it. *)
Visit ==
    /\ planPhase = "sorting"
    /\ \E cur \in heap :
         /\ IsLeast(cur, heap)
         /\ order' = Append(order, cur)
         /\ degree' = Reduced(cur)
         /\ heap' = (heap \ {cur}) \cup Released(cur)
    /\ UNCHANGED <<steps, planPhase, planErrors, position, results>>

(* The heap is empty: a plan with steps that were never visited has a cycle,
   and a plan with any error is not executed at all. *)
EndSort ==
    /\ planPhase = "sorting"
    /\ heap = {}
    /\ planErrors' = IF Len(order) < Len(steps) THEN planErrors \cup {"cycle"}
                                                ELSE planErrors
    /\ planPhase' = IF planErrors' = {} THEN "running" ELSE "refused"
    /\ UNCHANGED <<steps, degree, heap, order, position, results>>

(* Mutant: a skipped step is not entered in failed_steps. *)
FailedItself(id) == results[id] = "failed"

Failed(id) == results[id] \in {"failed", "dependency_failed"}

(* One turn of plan_execute: a step with a failed dependency is skipped and
   counts as failed itself; any other is carried out and may fail (a command,
   a denying gate, a store that refuses, an unknown kind). *)
ExecuteStep(outcome) ==
    /\ planPhase = "running"
    /\ position < Len(order)
    /\ LET id == order[position + 1] IN
         results' = [results EXCEPT ![id] =
             IF \E dep \in DependsOn(id) : Failed(dep) THEN "dependency_failed"
                                                       ELSE outcome]
    /\ position' = position + 1
    /\ UNCHANGED <<steps, planPhase, planErrors, degree, heap, order>>

EndRun ==
    /\ planPhase = "running"
    /\ position = Len(order)
    /\ planPhase' = "done"
    /\ UNCHANGED <<steps, planErrors, degree, heap, order, position, results>>

PlanWork == \/ Visit
            \/ EndSort
            \/ \E outcome \in {"ok", "failed"} : ExecuteStep(outcome)
            \/ EndRun

PlanNext == \/ \E id \in StepIds, needs \in SUBSET (StepIds \ {EmptyId}) : AddStep(id, needs)
            \/ BeginSort
            \/ PlanWork

(* plan_validate and plan_execute are loops of one caller: once begun they
   go on by themselves. *)
PlanSpec == PlanInit /\ [][PlanNext]_planVars /\ WF_planVars(PlanWork)

-----------------------------------------------------------------------------
(* A reference that does not sort: a dependency graph is cyclic when some
   steps each wait for another of them. *)
Cyclic == \E S \in SUBSET Listed : S # {} /\ \A id \in S : DependsOn(id) \cap S # {}

(* plan_validate accepts exactly the plans it should: unique and non-empty
   ids, known dependencies, no cycle. *)
AcceptsSoundPlans ==
    planPhase \in {"running", "done", "refused"} =>
        (planPhase # "refused") <=>
            ~ (EmptyId \in Listed \/ Duplicated \/ UnknownNeeded \/ Cyclic)

(* plan_execute carries a step out only after all its dependencies succeeded,
   whatever the shape of the plan and whichever steps fail. *)
CarriedOutAfterDependencies ==
    \A id \in StepIds :
        results[id] \in {"ok", "failed"} => \A dep \in DependsOn(id) : results[dep] = "ok"

(* An executed plan has a result for every step and nothing else, and a step
   is skipped only where a chain of skipped steps leads to one that failed. *)
EveryStepAccounted ==
    planPhase = "done" =>
        /\ \A id \in StepIds : id \in Listed <=> results[id] # "none"
        /\ \A id \in StepIds :
              results[id] = "dependency_failed" => \E dep \in DependsOn(id) : Failed(dep)

(* The order does not depend on how the list was written: no plan executes an
   id while a smaller one whose dependencies are all behind it still waits. *)
OrderIsLeast ==
    planPhase \in {"running", "done"} =>
        \A i \in DOMAIN order : \A id \in Listed :
            /\ id < order[i]
            /\ DependsOn(id) \subseteq {order[k] : k \in 1..(i - 1)}
            => \E k \in 1..(i - 1) : order[k] = id

\* What holds of a plan in every state: types, the order of its steps, and what
\* was carried out, skipped and refused.
PlanInvariant == /\ PlanTypeOK /\ OrderIsLeast /\ AcceptsSoundPlans
                 /\ CarriedOutAfterDependencies /\ EveryStepAccounted

=============================================================================
