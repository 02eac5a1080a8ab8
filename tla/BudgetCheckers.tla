--------------------------- MODULE BudgetCheckers ---------------------------
(***************************************************************************)
(* packages/ai/src/policy/budgets.ts: the three checkers setBudgetChecker  *)
(* may install, for one tenant, and callers that ask for a budget as       *)
(* evaluatePolicyWithBudget of policy/gate.ts does and may record the      *)
(* actual cost afterwards.                                                 *)
(***************************************************************************)
EXTENDS Integers, FiniteSetsExt

CONSTANTS
  Callers, Costs,
  Limit,          \* maxCostCents
  Window,         \* windowSeconds, in ticks
  MaxBudgetTime,  \* bound: the clock
  MaxBudgetCalls  \* bound: calls of check

ASSUME BudgetAssumption ==
  /\ Limit \in Nat /\ Window \in Nat \ {0} /\ MaxBudgetTime \in Nat
  /\ Costs \subseteq Nat /\ IsFiniteSet(Callers)
  /\ \E most \in Costs : \A cost \in Costs : cost <= most

VARIABLES
  checker,     \* which checker is installed: "default", "atomic" or "persistent"
  strict,      \* strictMode of HttpBudgetStore
  used,        \* usedCostCents: of the atomic state, or of the period in the store
  windowStart, \* start of the atomic window, or the store's period
  holder,      \* callers that hold the tenant's lock
  caller,      \* what each caller is doing
  clock,
  budgetCalls,
  grants       \* history: cost granted (atomic, default) or recorded (persistent) at each time

budgetVars == <<checker, strict, used, windowStart, holder, caller, clock,
                budgetCalls, grants>>

Resting == [at |-> "idle", cost |-> 0]
At(p, cost) == [at |-> p, cost |-> cost]
Become(c, what) == caller' = [caller EXCEPT ![c] = what]

Times == 0..MaxBudgetTime
\* The cents granted in a stretch of time: <<t, n>> is the n-th of those at t.
Granted(from, to) ==
  UNION {{t} \X (1..grants[t]) : t \in {u \in Times : from <= u /\ u <= to}}
Grant(cost) == grants' = [grants EXCEPT ![clock] = grants[clock] + cost]

-----------------------------------------------------------------------------
\* The atomic checker has no state before the first check; an expired window
\* stands for it.
BudgetInit ==
  /\ checker \in {"default", "atomic", "persistent"}
  /\ strict \in IF checker = "persistent" THEN BOOLEAN ELSE {FALSE}
  /\ used = 0 /\ holder = {}
  /\ windowStart = IF checker = "atomic" THEN -Window - 1 ELSE 0
  /\ caller = [c \in Callers |-> Resting]
  /\ clock = 0 /\ budgetCalls = 0
  /\ grants = [t \in Times |-> 0]

\* check is called.
Ask(c, cost) ==
  /\ caller[c] = Resting /\ budgetCalls < MaxBudgetCalls
  /\ budgetCalls' = budgetCalls + 1
  /\ Become(c, At(IF checker = "persistent" THEN "query" ELSE "lock", cost))
  /\ UNCHANGED <<checker, strict, used, windowStart, holder, clock, grants>>

\* DefaultBudgetChecker.check: a tenant without a tier is refused; any other
\* gets a checker of its own for every call, whose state starts at 0.
DefaultCheck(c) ==
  /\ checker = "default" /\ caller[c].at = "lock"
  /\ \E configured \in BOOLEAN :
       IF ~configured \/ caller[c].cost > Limit
       THEN Become(c, Resting) /\ UNCHANGED grants
       ELSE Become(c, At("granted", 0)) /\ Grant(caller[c].cost)
  /\ UNCHANGED <<checker, strict, used, windowStart, holder, clock, budgetCalls>>

\* acquireLock: once the promise of the holder is resolved.
AcquireLock(c) ==
  /\ checker = "atomic" /\ caller[c].at \in {"lock", "relock"}
  /\ holder = {}
  /\ holder' = {c}
  /\ Become(c, At(IF caller[c].at = "lock" THEN "check" ELSE "record", caller[c].cost))
  /\ UNCHANGED <<checker, strict, used, windowStart, clock, budgetCalls, grants>>

\* getState: the window starts again when it has expired.
Expired == clock > windowStart + Window

CurrentUsage == IF Expired THEN 0 ELSE used
CurrentStart == IF Expired THEN clock ELSE windowStart

\* Mutant: the estimated cost is not reserved.
AtomicCheckNoDebit(c) ==
  /\ checker = "atomic" /\ caller[c].at = "check"
  /\ holder' = {}
  /\ windowStart' = CurrentStart
  /\ used' = CurrentUsage
  /\ IF CurrentUsage + caller[c].cost > Limit
     THEN Become(c, Resting) /\ UNCHANGED grants
     ELSE Become(c, At("granted", 0)) /\ Grant(caller[c].cost)
  /\ UNCHANGED <<checker, strict, clock, budgetCalls>>

\* check of AtomicBudgetChecker, under the lock, which its finally releases.
AtomicCheck(c) ==
  /\ checker = "atomic" /\ caller[c].at = "check"
  /\ holder' = {}
  /\ windowStart' = CurrentStart
  /\ IF CurrentUsage + caller[c].cost > Limit
     THEN used' = CurrentUsage /\ Become(c, Resting) /\ UNCHANGED grants
     ELSE /\ used' = CurrentUsage + caller[c].cost
          /\ Become(c, At("granted", 0)) /\ Grant(caller[c].cost)
  /\ UNCHANGED <<checker, strict, clock, budgetCalls>>

\* record of AtomicBudgetChecker: the actual cost is added to the reserved one.
AtomicRecord(c) ==
  /\ checker = "atomic" /\ caller[c].at = "record"
  /\ holder' = {}
  /\ windowStart' = CurrentStart
  /\ used' = CurrentUsage + caller[c].cost
  /\ Become(c, Resting)
  /\ UNCHANGED <<checker, strict, clock, budgetCalls, grants>>

-----------------------------------------------------------------------------
\* The store counts per calendar period; a new one starts empty.
Period == (clock \div Window) * Window
StoreUsage == IF Period > windowStart THEN 0 ELSE used

StoreAllows == StoreUsage < Limit

\* check of PersistentBudgetChecker: checkLimit reads the store and the
\* estimate is compared with what remains; nothing is reserved.
PersistentCheck(c) ==
  /\ checker = "persistent" /\ caller[c].at = "query"
  /\ Become(c, IF StoreAllows /\ Limit - StoreUsage >= caller[c].cost
               THEN At("granted", 0) ELSE Resting)
  /\ UNCHANGED <<checker, strict, used, windowStart, holder, clock, budgetCalls, grants>>

\* The budget service does not answer.  Strict: denied.  Otherwise checkLimit
\* says allowed with -1 remaining, and any estimate exceeds that.
PersistentUnavailable(c) ==
  /\ checker = "persistent" /\ caller[c].at = "query"
  /\ Become(c, IF ~strict /\ -1 >= caller[c].cost THEN At("granted", 0) ELSE Resting)
  /\ UNCHANGED <<checker, strict, used, windowStart, holder, clock, budgetCalls, grants>>

\* record of PersistentBudgetChecker: incrementUsage, atomic in the store.
PersistentRecord(c) ==
  /\ checker = "persistent" /\ caller[c].at = "relock"
  /\ used' = StoreUsage + caller[c].cost
  /\ windowStart' = Period
  /\ Grant(caller[c].cost)
  /\ Become(c, Resting)
  /\ UNCHANGED <<checker, strict, holder, clock, budgetCalls>>

-----------------------------------------------------------------------------
\* The caller goes on without recording (no caller in the package records),
\* or records the actual cost.
Finish(c) ==
  /\ caller[c].at = "granted"
  /\ Become(c, Resting)
  /\ UNCHANGED <<checker, strict, used, windowStart, holder, clock, budgetCalls, grants>>

Report(c, cost) ==
  /\ caller[c].at = "granted" /\ checker # "default"
  /\ Become(c, At("relock", cost))
  /\ UNCHANGED <<checker, strict, used, windowStart, holder, clock, budgetCalls, grants>>

\* resetPeriod: an administrator clears the store's period.
ResetPeriod ==
  /\ checker = "persistent" /\ used > 0
  /\ used' = 0
  /\ UNCHANGED <<checker, strict, windowStart, holder, caller, clock, budgetCalls, grants>>

BudgetTick ==
  /\ clock < MaxBudgetTime
  /\ clock' = clock + 1
  /\ UNCHANGED <<checker, strict, used, windowStart, holder, caller, budgetCalls, grants>>

BudgetNext ==
  \/ \E c \in Callers :
       \/ \E cost \in Costs : Ask(c, cost) \/ Report(c, cost)
       \/ DefaultCheck(c) \/ AcquireLock(c) \/ AtomicCheck(c) \/ AtomicRecord(c)
       \/ PersistentCheck(c) \/ PersistentUnavailable(c) \/ PersistentRecord(c)
       \/ Finish(c)
  \/ ResetPeriod \/ BudgetTick

BudgetSpec == BudgetInit /\ [][BudgetNext]_budgetVars

-----------------------------------------------------------------------------
\* The type invariant, with the lock: its holder is the one caller between
\* acquireLock and releaseLock.
BudgetTypeOK ==
  /\ used \in Nat /\ clock \in Times
  /\ grants \in [Times -> Nat]
  /\ holder = {c \in Callers : caller[c].at \in {"check", "record"}}
  /\ Cardinality(holder) <= 1

\* What AtomicBudgetChecker promises: whatever the order of concurrent checks
\* and records, the costs granted in one window stay within the limit, and so
\* within twice the limit in any stretch of time as long as a window.
AtomicHolds ==
  checker = "atomic" =>
    /\ ~Expired => Cardinality(Granted(windowStart, clock)) <= Limit
    /\ \A t \in Times : Cardinality(Granted(t, t + Window)) <= 2 * Limit

\* What PersistentBudgetChecker amounts to: checking and recording are two
\* steps, so the recorded usage can pass the limit, by less than one actual
\* cost for every caller.  With a limit of 0 nothing is ever recorded.
PersistentOverrunBounded ==
  checker = "persistent" => used = 0 \/ used < Limit + Cardinality(Callers) * Max(Costs)

\* What holds of a budget in every state: types, the limit itself for the atomic
\* checker, and a bounded overrun for the one on the store.
BudgetInvariant == BudgetTypeOK /\ AtomicHolds /\ PersistentOverrunBounded
=============================================================================
