---------------------------- MODULE PolicyLinter ----------------------------
(***************************************************************************)
(* PolicyLinter of src/src/policy_linter.cpp: a registry of policies, the  *)
(* constraints each implies and the pairs of constraints that conflict, as *)
(* LoadFromJson builds it, and Check, which reports policies that          *)
(* contradict themselves and pairs that cannot be enabled together.        *)
(***************************************************************************)
EXTENDS Naturals, Sequences

CONSTANTS
  Policies, Constraints,
  MaxListed,     \* bound: names in the list of policies
  MaxConflicts   \* bound: pairs in the list of conflicts

ASSUME LintAssumption == MaxListed \in Nat /\ MaxConflicts \in Nat

VARIABLES
  listed,     \* registry.policies; a name may occur twice
  mapped,     \* the keys of registry.mapping
  implied,    \* registry.mapping
  conflicts   \* registry.conflicts

lintVars == <<listed, mapped, implied, conflicts>>

LintInit ==
  /\ listed = <<>> /\ mapped = {} /\ conflicts = <<>>
  /\ implied = [p \in Policies |-> {}]

\* The members of the JSON object, in any order.
ListPolicy(p) ==
  /\ Len(listed) < MaxListed
  /\ listed' = Append(listed, p)
  /\ UNCHANGED <<mapped, implied, conflicts>>

\* A second entry for the same policy replaces the first.
MapPolicy(p, C) ==
  /\ mapped' = mapped \cup {p}
  /\ implied' = [implied EXCEPT ![p] = C]
  /\ UNCHANGED <<listed, conflicts>>

AddConflict(c, d) ==
  /\ Len(conflicts) < MaxConflicts
  /\ conflicts' = Append(conflicts, <<c, d>>)
  /\ UNCHANGED <<listed, mapped, implied>>

LintNext ==
  \/ \E p \in Policies : ListPolicy(p)
  \/ \E p \in Policies, C \in SUBSET Constraints : MapPolicy(p, C)
  \/ \E c, d \in Constraints : AddConflict(c, d)

LintSpec == LintInit /\ [][LintNext]_lintVars

-----------------------------------------------------------------------------
(* Check *)

\* Pass 1: a policy with both sides of a conflict.
SelfContradictory(i) ==
  /\ listed[i] \in mapped
  /\ \E k \in 1..Len(conflicts) :
       /\ conflicts[k][1] \in implied[listed[i]]
       /\ conflicts[k][2] \in implied[listed[i]]

\* Mutant: only one direction of a conflict is looked at.
UnreachableOneWay(i, j) ==
  /\ listed[i] \in mapped /\ listed[j] \in mapped
  /\ \E k \in 1..Len(conflicts) :
       /\ conflicts[k][1] \in implied[listed[i]]
       /\ conflicts[k][2] \in implied[listed[j]]

\* Pass 2: two policies, the earlier in the list first, that hold a side each.
Unreachable(i, j) ==
  /\ listed[i] \in mapped /\ listed[j] \in mapped
  /\ \E k \in 1..Len(conflicts) :
       \/ /\ conflicts[k][1] \in implied[listed[i]]
          /\ conflicts[k][2] \in implied[listed[j]]
       \/ /\ conflicts[k][2] \in implied[listed[i]]
          /\ conflicts[k][1] \in implied[listed[j]]

\* What Check says about the positions in S.
Reported(S) ==
  \/ \E i \in S : SelfContradictory(i)
  \/ \E i, j \in S : i < j /\ Unreachable(i, j)

-----------------------------------------------------------------------------
(* Properties *)

\* Some conflict has both its sides among the constraints that the mapped
\* policies at the positions S imply together.
Conflicted(S) ==
  LET all == UNION {implied[listed[i]] : i \in {j \in S : listed[j] \in mapped}}
  IN \E k \in 1..Len(conflicts) :
       conflicts[k][1] \in all /\ conflicts[k][2] \in all

\* Looking at single policies and at pairs is enough: a configuration of any
\* number of policies, listed once or several times, implies conflicting
\* constraints exactly when Check reports one of its policies or pairs.
LintComplete == \A S \in SUBSET (1..Len(listed)) : Conflicted(S) <=> Reported(S)
=============================================================================
