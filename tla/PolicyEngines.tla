--------------------------- MODULE PolicyEngines ---------------------------
(***************************************************************************)
(* The three evaluators of policy rules: the kernel's policy VM            *)
(* (policy_eval, src/src/policy_vm.cpp), PolicyEngine of the core package  *)
(* (packages/core/src/policy-governance.ts) and evaluatePolicy of the      *)
(* ready layer (control-plane-store.ts).  The same rule, given to each in  *)
(* the form it takes, is compared: they differ in how they find a field,   *)
(* read a number, compare and rank the rules.                              *)
(*                                                                         *)
(* All rules look at one field.  Its value is written as String(v) would:  *)
(* kind tells a string from a JSON number and from a field that is not     *)
(* there.  Patterns are literal texts, or texts that are no pattern in     *)
(* either dialect.                                                         *)
(***************************************************************************)
EXTENDS Integers, Sequences, FiniteSetsExt

CONSTANTS
  Texts,       \* strings without commas
  Blanks,      \* those of spaces only; the others have no spaces around them
  Numerals,    \* those that String(n) gives for a number n
  StodOf,      \* [Texts -> SUBSET Int]: what std::stod reads, nothing if it throws
  NumberOf,    \* [Texts -> SUBSET Int]: Number(t), nothing for NaN
  BadPatterns, \* texts that are no regular expression
  Within,      \* the pairs <<p, t>> such that p occurs in t
  Bounds,      \* the right-hand sides of conditions: one text, or a list of them
  Priorities,
  MaxRules     \* bound: rules of the policy

EmptyText == ""
NoText == "undefined"   \* String(undefined)

ASSUME PolicyAssumption ==
  /\ EmptyText \in Texts \ (Blanks \cup Numerals \cup BadPatterns) /\ NoText \notin Texts
  /\ Blanks \cup Numerals \cup BadPatterns \subseteq Texts
  /\ StodOf \in [Texts -> SUBSET Int] /\ NumberOf \in [Texts -> SUBSET Int]
  /\ \A n \in Numerals : StodOf[n] = NumberOf[n]
  /\ Within \subseteq Texts \X (Texts \cup {NoText})
  /\ Bounds \subseteq SUBSET Texts
  /\ \A B \in Bounds : B # {} /\ (EmptyText \in B => B = {EmptyText})
  /\ Priorities \subseteq Int /\ MaxRules \in Nat

VARIABLES
  polRules,
  polValue,  \* what the context has for the field
  polPlace   \* where: under a name without dots, along the dotted path, or
             \* under a key that is the dotted name itself

polVars == <<polRules, polValue, polPlace>>

Missing == [kind |-> "missing", text |-> NoText]

PolicyValues ==
  [kind : {"text"}, text : Texts] \cup [kind : {"number"}, text : Numerals]
  \cup {Missing}

Orders == {"gt", "lt", "gte", "lte"}
ListOps == {"in", "not_in"}

OneText == {B \in Bounds : \E t \in Texts : B = {t}}
OneNumber == {B \in Bounds : \E n \in Numerals : B = {n}}

\* form: how the ready layer has the bound, whose type there is unknown.  The
\* other two take strings, a list with commas.
PolicyRules ==
  UNION {[op : {"eq", "neq", "exists", "matches"} \cup Orders, value : OneText,
          form : {"text"}, priority : Priorities, effect : {"allow", "deny"}],
         [op : {"eq", "neq", "exists", "matches"} \cup Orders, value : OneNumber,
          form : {"number"}, priority : Priorities, effect : {"allow", "deny"}],
         [op : ListOps, value : Bounds, form : {"text", "list"},
          priority : Priorities, effect : {"allow", "deny"}]}

-----------------------------------------------------------------------------
(* Reading *)

\* Numbers as sets: empty where a number cannot be read, or is NaN.
Compare(op, A, B) ==
  \E a \in A, b \in B : CASE op = "gt" -> a > b [] op = "lt" -> a < b
                          [] op = "gte" -> a >= b [] op = "lte" -> a <= b

\* std::stod: blanks are skipped and a numeral may be followed by anything.
Stod(t) == StodOf[t]

\* Number(v): blanks are 0, and a numeral is all there is.
JsNumber(v) == IF v.kind = "missing" THEN {} ELSE NumberOf[v.text]

\* A search with a text that is no pattern throws.
Finds(p, t) == p \notin BadPatterns /\ <<p, t>> \in Within

\* extract_field follows a dotted name into the objects of the context.  What is
\* not a string is the empty string.
ExtractField(place, v) ==
  IF v.kind = "text" /\ place # "key" THEN v.text ELSE EmptyText

\* resolveField follows it too.
ResolveField(place, v) == IF place # "key" THEN v ELSE Missing

\* context[rule.condition.field]
ContextField(place, v) == IF place # "path" THEN v ELSE Missing

\* getline with a comma: an empty list has no token, and a token of blanks is
\* not trimmed.
KernelTokens(B) == B \ {EmptyText}

\* split and trim
CoreTokens(B) == {IF t \in Blanks THEN EmptyText ELSE t : t \in B}

-----------------------------------------------------------------------------
(* Conditions *)

\* Mutant: an ordering takes an unreadable number for 0.
KernelMatchesZero(r, actual) ==
  CASE r.op = "eq" -> actual \in r.value
    [] r.op = "neq" -> actual \notin r.value
    [] r.op = "exists" -> actual # EmptyText
    [] r.op = "in" -> actual \in KernelTokens(r.value)
    [] r.op = "not_in" -> actual \notin KernelTokens(r.value)
    [] r.op = "matches" -> \E t \in r.value : Finds(t, actual)
    [] r.op \in Orders -> \E t \in r.value :
         Compare(r.op, IF Stod(actual) = {} THEN {0} ELSE Stod(actual), Stod(t))

\* policy_condition_matches, of a string
KernelMatches(r, actual) ==
  CASE r.op = "eq" -> actual \in r.value
    [] r.op = "neq" -> actual \notin r.value
    [] r.op = "exists" -> actual # EmptyText
    [] r.op = "in" -> actual \in KernelTokens(r.value)
    [] r.op = "not_in" -> actual \notin KernelTokens(r.value)
    [] r.op = "matches" -> \E t \in r.value : Finds(t, actual)
    [] r.op \in Orders -> \E t \in r.value : Compare(r.op, Stod(actual), Stod(t))

\* evaluateCondition: comparisons of String(fieldValue).
CoreMatches(r, v) ==
  CASE r.op = "eq" -> v.text \in r.value
    [] r.op = "neq" -> v.text \notin r.value
    [] r.op = "exists" -> v.kind # "missing"
    [] r.op = "in" -> v.text \in CoreTokens(r.value)
    [] r.op = "not_in" -> v.text \notin CoreTokens(r.value)
    [] r.op = "matches" -> \E t \in r.value : Finds(t, v.text)
    [] r.op \in Orders -> \E t \in r.value : Compare(r.op, JsNumber(v), NumberOf[t])

\* evaluateRule: strict equality, lists that are arrays, patterns that are strings.
ReadyMatches(r, v) ==
  CASE r.op = "eq" -> v.kind = r.form /\ v.text \in r.value
    [] r.op = "neq" -> ~(v.kind = r.form /\ v.text \in r.value)
    [] r.op = "exists" -> v.kind # "missing"
    [] r.op = "in" -> r.form = "list" /\ v.kind = "text" /\ v.text \in r.value
    [] r.op = "not_in" -> r.form = "list" /\ ~(v.kind = "text" /\ v.text \in r.value)
    [] r.op = "matches" -> /\ v.kind = "text" /\ r.form = "text"
                           /\ \E t \in r.value : Finds(t, v.text)
    [] r.op \in Orders -> \E t \in r.value : Compare(r.op, JsNumber(v), NumberOf[t])

\* new RegExp(expected) throws, which evaluateRule does not catch.
ReadyThrows(r, v) ==
  /\ r.op = "matches" /\ v.kind = "text" /\ r.form = "text"
  /\ r.value \cap BadPatterns # {}

-----------------------------------------------------------------------------
(* Decisions *)

\* The matching rules that come first when sorted by priority, descending.
Foremost(M) ==
  {i \in M : \A j \in M : polRules[j].priority <= polRules[i].priority}

\* A stable sort by priority, descending, puts rule i before rule j.
Before(i, j) ==
  \/ polRules[i].priority > polRules[j].priority
  \/ polRules[i].priority = polRules[j].priority /\ i < j

KernelMatching ==
  {i \in 1..Len(polRules) : KernelMatches(polRules[i], ExtractField(polPlace, polValue))}

\* policy_eval.  std::sort leaves the order of equal priorities open.
KernelDecisions ==
  IF KernelMatching = {} THEN {"deny"}
  ELSE {polRules[i].effect : i \in Foremost(KernelMatching)}

CoreMatching ==
  {i \in 1..Len(polRules) : CoreMatches(polRules[i], ResolveField(polPlace, polValue))}

\* PolicyEngine.evaluate.  Array.prototype.sort is stable.
CoreDecision ==
  IF CoreMatching = {} THEN "deny" ELSE polRules[Min(Foremost(CoreMatching))].effect

ReadyMatching(effect) ==
  {i \in 1..Len(polRules) : /\ polRules[i].effect = effect
                            /\ ReadyMatches(polRules[i], ContextField(polPlace, polValue))}

\* One of the two searches comes to a rule that throws before it finds a match.
ReadyFails ==
  \E i \in 1..Len(polRules) :
    /\ ReadyThrows(polRules[i], ContextField(polPlace, polValue))
    /\ \A j \in ReadyMatching(polRules[i].effect) : ~Before(j, i)

\* evaluatePolicy: a matching deny rule wins, whatever its priority.  It answers
\* with an error and records no decision when a rule throws.
ReadyDecision ==
  IF ReadyFails THEN "error"
  ELSE IF ReadyMatching("deny") = {} /\ ReadyMatching("allow") # {}
  THEN "allow" ELSE "deny"

-----------------------------------------------------------------------------
PolInit ==
  /\ polRules = <<>> /\ polValue \in PolicyValues
  /\ polPlace \in {"plain", "path", "key"}

AddRule(r) ==
  /\ Len(polRules) < MaxRules
  /\ polRules' = Append(polRules, r)
  /\ UNCHANGED <<polValue, polPlace>>

PolNext == \E r \in PolicyRules : AddRule(r)

PolSpec == PolInit /\ [][PolNext]_polVars

-----------------------------------------------------------------------------
(* Properties *)

PlainText == polValue.kind = "text" /\ polValue.text # EmptyText

\* Kernel and core read the same numbers and the same lists: no numeral that is
\* blank or followed by something else, and no list with a blank in it.
SameReading(r) ==
  /\ r.op \in Orders => \A t \in r.value \cup {polValue.text} : StodOf[t] = NumberOf[t]
  /\ r.op \in ListOps => r.value \cap Blanks = {}

\* The ready layer has the bound as its operator wants it.
WellFormed(r) ==
  /\ r.op \in ListOps => r.form = "list"
  /\ r.op \in {"eq", "neq", "matches"} => r.form = "text"

\* When the field is a string and not empty, kernel and core agree on every
\* condition whose numbers and lists they read alike; and the ready layer agrees
\* with core on every well-formed one, provided it looks the field up in the same
\* place.  Where it throws on a text that is no pattern the others do not match.
ConditionsAgree ==
  PlainText =>
    \A i \in 1..Len(polRules) :
      LET r == polRules[i]
          core == CoreMatches(r, ResolveField(polPlace, polValue))
          ready == ReadyMatches(r, ContextField(polPlace, polValue))
      IN
        /\ polPlace # "key" /\ SameReading(r) =>
             (KernelMatches(r, ExtractField(polPlace, polValue)) <=> core)
        /\ polPlace = "plain" /\ SameReading(r) /\ WellFormed(r) =>
             /\ core <=> ready
             /\ ReadyThrows(r, polValue) => ~core

\* Under the same conditions on every rule, core's decision is one the kernel may
\* take: the kernel has a choice only between rules of the same priority.  The
\* ready layer, when no rule throws, decides otherwise than core exactly when it
\* denies by a rule that a matching allow rule outranks.  In particular it never
\* allows what core and the kernel deny.
ReadyDeniesMore ==
  (PlainText /\ polPlace = "plain"
   /\ \A i \in 1..Len(polRules) : SameReading(polRules[i]) /\ WellFormed(polRules[i])) =>
    /\ CoreDecision \in KernelDecisions
    /\ ReadyDecision # "error" =>
         (CoreDecision # ReadyDecision <=>
            /\ ReadyMatching("deny") # {}
            /\ \E i \in ReadyMatching("allow") :
                 \A j \in ReadyMatching("deny") : Before(i, j))

\* How the three evaluators compare: on conditions, and on decisions.
EvaluatorsCompare == ConditionsAgree /\ ReadyDeniesMore
============================================================================
