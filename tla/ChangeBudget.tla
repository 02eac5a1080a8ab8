---------------------------- MODULE ChangeBudget -----------------------------
(***************************************************************************)
(* Change budgets of the CLI (packages/cli/src/lib/change-budget.ts) over  *)
(* the drift taxonomy (classifyDrift in semantic-state-machine.ts), along  *)
(* a chain of semantic states each checked against the one before.         *)
(*                                                                         *)
(* A descriptor is the set of the fields whose value differs from the      *)
(* chain's first state, so every field has two values and two descriptors  *)
(* differ in their symmetric difference.  modelId and modelVersion are one *)
(* field: the classifier treats them alike.                                *)
(***************************************************************************)
EXTENDS Integers, FiniteSets

CONSTANTS FreeCategories,  \* the categories a custom budget may have a rule for
          VaryingFields,   \* the fields that change along a chain
          MaxTransitions   \* bound: the transitions of a chain

DescriptorFields == {"model", "promptId", "promptVersion", "policy", "context",
                     "runtime", "eval", "metadata"}

ASSUME ChangeBudgetAssumption == /\ VaryingFields \subseteq DescriptorFields
                                 /\ MaxTransitions \in Nat

Levels == {"cosmetic", "minor", "major", "critical"}

Categories == {"model_drift", "prompt_drift", "policy_drift", "context_drift",
               "runtime_drift", "eval_drift", "unknown_drift"}

(* SIGNIFICANCE_ORDER, and isSignificanceAllowed; "null" disallows entirely. *)
Rank == [cosmetic |-> 0, minor |-> 1, major |-> 2, critical |-> 3]

IsSignificanceAllowed(actual, most) == most # "null" /\ Rank[actual] <= Rank[most]

-----------------------------------------------------------------------------
(* The presets and createCustomBudget: a rule per category, or the default. *)
BudgetRule(most, approval) == [most |-> most, approval |-> approval]

WithDefault(rules, default) ==
    [c \in Categories |-> IF c \in DOMAIN rules THEN rules[c] ELSE default]

Permissive == WithDefault(<<>>, BudgetRule("critical", FALSE))

Strict == WithDefault([model_drift  |-> BudgetRule("critical", TRUE),
                       prompt_drift |-> BudgetRule("major", TRUE),
                       policy_drift |-> BudgetRule("major", TRUE)],
                      BudgetRule("minor", FALSE))

Production == WithDefault([model_drift   |-> BudgetRule("null", TRUE),
                           prompt_drift  |-> BudgetRule("null", TRUE),
                           policy_drift  |-> BudgetRule("null", TRUE),
                           context_drift |-> BudgetRule("minor", FALSE)],
                          BudgetRule("cosmetic", FALSE))

Custom == {WithDefault([c \in FreeCategories |-> BudgetRule(most[c], approval)],
                       BudgetRule(default, FALSE)) :
              most \in [FreeCategories -> Levels \cup {"null"}],
              approval \in BOOLEAN, default \in Levels}

Budgets == {Permissive, Strict, Production} \cup Custom

-----------------------------------------------------------------------------
Differing(from, to) == (from \ to) \cup (to \ from)

CategoryOf == [model |-> "model_drift", promptId |-> "prompt_drift",
               promptVersion |-> "prompt_drift", policy |-> "policy_drift",
               context |-> "context_drift", runtime |-> "runtime_drift",
               eval |-> "eval_drift"]

(* classifyDrift: the categories.  Metadata counts only when nothing else
   differs. *)
DriftCategories(from, to) ==
    LET named == {CategoryOf[f] : f \in Differing(from, to) \ {"metadata"}} IN
    IF named = {} /\ from # to THEN {"unknown_drift"} ELSE named

(* Mutant: the version, not the id, decides how grave a prompt change is. *)
SignificanceOfVersion(category, from, to) ==
    CASE category = "model_drift"   -> "critical"
      [] category = "prompt_drift"  -> IF "promptVersion" \in Differing(from, to)
                                       THEN "major" ELSE "critical"
      [] category = "policy_drift"  -> "major"
      [] category = "unknown_drift" -> "cosmetic"
      [] OTHER                      -> "minor"

(* classifyDrift: the significance of the change vector of a category. *)
Significance(category, from, to) ==
    CASE category = "model_drift"   -> "critical"
      [] category = "prompt_drift"  -> IF "promptId" \in Differing(from, to)
                                       THEN "critical" ELSE "major"
      [] category = "policy_drift"  -> "major"
      [] category = "unknown_drift" -> "cosmetic"
      [] OTHER                      -> "minor"

(* checkChangeBudget: the results of the categories, and a result for
   unknown drift where there is none. *)
Checked(from, to) ==
    IF DriftCategories(from, to) = {} THEN {<<"unknown_drift", "cosmetic">>}
    ELSE {<<c, Significance(c, from, to)>> : c \in DriftCategories(from, to)}

Blocked(rules, checked) ==
    {r \in checked : ~ IsSignificanceAllowed(r[2], rules[r[1]].most)}

WithinBudget(rules, from, to) == Blocked(rules, Checked(from, to)) = {}

NeedsApproval(rules, from, to) ==
    \E r \in Checked(from, to) :
        IsSignificanceAllowed(r[2], rules[r[1]].most) /\ rules[r[1]].approval

(* checkTransitionBudget, on the categories and vectors the transition
   recorded. *)
TransitionWithin(rules, from, to) ==
    Blocked(rules, {<<c, Significance(c, from, to)>> : c \in DriftCategories(from, to)}) = {}

-----------------------------------------------------------------------------
VARIABLES changeBudget,  \* the budget of the chain
          previous,      \* the descriptor before the last transition
          current,       \* the descriptor after it
          transitions,   \* the number of transitions
          allWithin,     \* every transition was within budget
          noneAsked      \* no transition needed approval

changeVars == <<changeBudget, previous, current, transitions, allWithin, noneAsked>>

ChangeInit ==
    /\ changeBudget \in Budgets
    /\ previous = {}
    /\ current = {}
    /\ transitions = 0
    /\ allWithin = TRUE
    /\ noneAsked = TRUE

CheckTransition(to) ==
    /\ transitions < MaxTransitions
    /\ transitions' = transitions + 1
    /\ previous' = current
    /\ current' = to
    /\ allWithin' = (allWithin /\ WithinBudget(changeBudget, current, to))
    /\ noneAsked' = (noneAsked /\ ~ NeedsApproval(changeBudget, current, to))
    /\ UNCHANGED changeBudget

ChangeNext == \E to \in SUBSET VaryingFields : CheckTransition(to)

ChangeSpec == ChangeInit /\ [][ChangeNext]_changeVars

-----------------------------------------------------------------------------
(* A change cannot be smuggled through a budget in pieces: what a chain of
   transitions adds up to is within every rule its pieces were within, and
   needs approval only if one of them did.  (Unknown drift is the exception:
   it is seen only where nothing else changed.) *)
BudgetsCompose ==
    \A c \in DriftCategories({}, current) \ {"unknown_drift"} :
        /\ allWithin =>
              IsSignificanceAllowed(Significance(c, {}, current), changeBudget[c].most)
        /\ allWithin /\ noneAsked => ~ changeBudget[c].approval

(* The check of two states and the check of the recorded transition between
   them agree whenever anything changed. *)
ChecksAgree ==
    previous # current =>
        (WithinBudget(changeBudget, previous, current)
            <=> TransitionWithin(changeBudget, previous, current))

(* The presets form a scale: what production lets pass, strict does, and what
   strict lets pass, permissive does. *)
PresetsNested ==
    /\ WithinBudget(Production, previous, current) => WithinBudget(Strict, previous, current)
    /\ WithinBudget(Strict, previous, current) => WithinBudget(Permissive, previous, current)

\* What holds of the budgets of change: they compose along a history, the two
\* checks agree, and the presets are nested.
ChangeInvariant == BudgetsCompose /\ ChecksAgree /\ PresetsNested

=============================================================================
