---------------------------- MODULE MCDecisions -----------------------------
(* The components that let a request, a call or a change through, and the     *)
(* ledger of what they may use, for TLC.  They share no state: a behaviour is *)
(* one of the component it starts with, the others stay in their first state, *)
(* and the states to check are the sum of theirs.                             *)
EXTENDS RateLimiter, MemoryGateway, TenantLedger, PolicyEngines, PolicyLinter,
        CircuitBreaker, BudgetCheckers, ToolExecution, McpRateLimit,
        LifecycleMachines, ChangeBudget, TLC

CONSTANT Components   \* the components to check

VARIABLE component    \* the one this behaviour is about

decisions == <<vars, memGateVars, tenantVars, polVars, lintVars, breakerVars, budgetVars,
               toolVars, mcpVars, machineVars, changeVars, component>>

\* The numbers that std::stod and Number() read in a text: a numeral with a rest
\* is one for the first only, blanks are 0 for the second only.
StodReads ==
  [t \in Texts |-> CASE t = "1" -> {1} [] t = "2" -> {2} [] t = "3x" -> {3} [] OTHER -> {}]
NumberReads ==
  [t \in Texts |-> CASE t = "1" -> {1} [] t = "2" -> {2} [] t \in {"", " "} -> {0}
                      [] OTHER -> {}]

\* No text of the instance but the empty one occurs in another.
Occurrences == {p \in Texts \X (Texts \cup {NoText}) : p[1] \in {EmptyText, p[2]}}

\* The requests of a component are alike.
Alike == Permutations(Requests)

DecisionsInit ==
  /\ component \in Components
  /\ Init /\ MemInit /\ TenantInit /\ PolInit /\ LintInit /\ BreakerInit /\ BudgetInit /\ ToolInit
  /\ McpInit /\ MachineInit /\ ChangeInit
  /\ component # "rate" => shared
  /\ component # "policies" => polValue = Missing /\ polPlace = "plain"
  /\ component # "budgets" => checker = "default"
  /\ component # "machines" => machineName = "junction"
  /\ component # "changes" => changeBudget = Strict

\* Only the variables of one component change.
DecisionsNext ==
  /\ UNCHANGED component
  /\ IF component = "rate" THEN Next ELSE UNCHANGED vars
  /\ IF component = "memory" THEN MemNext ELSE UNCHANGED memGateVars
  /\ IF component = "tenant" THEN TenantNext ELSE UNCHANGED tenantVars
  /\ IF component = "policies" THEN PolNext ELSE UNCHANGED polVars
  /\ IF component = "lint" THEN LintNext ELSE UNCHANGED lintVars
  /\ IF component = "breaker" THEN BreakerNext ELSE UNCHANGED breakerVars
  /\ IF component = "budgets" THEN BudgetNext ELSE UNCHANGED budgetVars
  /\ IF component = "tools" THEN ToolNext ELSE UNCHANGED toolVars
  /\ IF component = "mcp" THEN McpNext ELSE UNCHANGED mcpVars
  /\ IF component = "machines" THEN MachineNext ELSE UNCHANGED machineVars
  /\ IF component = "changes" THEN ChangeNext ELSE UNCHANGED changeVars

DecisionsSpec == DecisionsInit /\ [][DecisionsNext]_decisions
=============================================================================
