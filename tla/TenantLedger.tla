---------------------------- MODULE TenantLedger ----------------------------
(***************************************************************************)
(* Capabilities, budgets, snapshots and the event log of one tenant.  Each *)
(* operation is one mutateState call, so one atomic step, and writes one   *)
(* entry of the log.                                                       *)
(*                                                                         *)
(* Arrays are kept oldest first; the code puts new elements in front, and  *)
(* its find returns the newest match.  A hash is modelled by what it is    *)
(* computed from, so that two things made of equal parts have one hash.    *)
(* The clock counts milliseconds, and several operations may happen in     *)
(* one.  Window start times are left out: no operation depends on them,    *)
(* and without them more snapshots have one hash than in the code.         *)
(***************************************************************************)
EXTENDS Integers, Sequences

CONSTANTS Subjects,   \* whom capabilities are minted for
          Rules,      \* rules a policy may have
          StepCounts, \* numbers of steps a plan may have
          Limits,     \* limits a budget may be set to
          DefaultLimit,
          MaxEvents,  \* bound on the length of the log
          MaxTenantTime \* bound on the clock

ASSUME CountsAssumption == StepCounts \subseteq Nat
ASSUME BudgetLimitsAssumption == Limits \subseteq Nat /\ DefaultLimit \in Nat
ASSUME BoundsAssumption == MaxEvents \in Nat /\ MaxTenantTime \in Nat

VARIABLES tenantClock, caps, budgets, policies, plans, snapshots, log

tenantVars == <<tenantClock, caps, budgets, policies, plans, snapshots, log>>

\* The units some operation charges; nothing charges cas_put and cas_get.
Units == {"exec", "policy_eval", "plan_step"}

TenantBudgets == [Units -> [limit : Nat, used : Nat]]

Fingerprint == [seq : Nat, subject : Subjects, at : 0..MaxTenantTime]

EmptyBudgets == [u \in Units |-> [limit |-> DefaultLimit, used |-> 0]]

TenantInit == /\ tenantClock = 0
              /\ caps = <<>>
              /\ budgets = EmptyBudgets
              /\ policies = <<>>
              /\ plans = {}
              /\ snapshots = <<>>
              /\ log = <<>>

----------------------------------------------------------------------------
(* The log *)

\* seq and prev of an entry are given by its place in the sequence.
AppendLog(data) == /\ Len(log) < MaxEvents
                   /\ log' = Append(log, data)

Charged(b, u, n) == [b EXCEPT ![u].used = @ + n]

----------------------------------------------------------------------------
(* Budgets *)

SetBudgetLimit(u, n) == /\ budgets' = [budgets EXCEPT ![u].limit = n]
                        /\ AppendLog(<<"budget.set", u, n>>)
                        /\ UNCHANGED <<tenantClock, caps, policies, plans, snapshots>>

ResetBudgetWindow ==
  /\ budgets' = [u \in Units |-> [budgets[u] EXCEPT !.used = 0]]
  /\ AppendLog(<<"budget.reset_window">>)
  /\ UNCHANGED <<tenantClock, caps, policies, plans, snapshots>>

----------------------------------------------------------------------------
(* Capabilities *)

NewFingerprint(s) == [seq |-> Len(caps) + 1, subject |-> s, at |-> tenantClock]

MintCapability(s) ==
  /\ caps' = Append(caps, [fingerprint |-> NewFingerprint(s), revoked |-> FALSE])
  /\ budgets' = Charged(budgets, "exec", 1)
  /\ AppendLog(<<"cap.mint", NewFingerprint(s)>>)
  /\ UNCHANGED <<tenantClock, policies, plans, snapshots>>

\* Array.find on an array that has the newest first.
Newest(S) == CHOOSE i \in S : \A j \in S : j <= i

With(f) == {i \in 1..Len(caps) : caps[i].fingerprint = f}

RevokeCapability(f) ==
  /\ With(f) # {}
  /\ caps' = [caps EXCEPT ![Newest(With(f))].revoked = TRUE]
  /\ AppendLog(<<"cap.revoke", f>>)
  /\ UNCHANGED <<tenantClock, budgets, policies, plans, snapshots>>

----------------------------------------------------------------------------
(* Policies and plans, as far as they charge budgets *)

AddPolicy(r) ==
  /\ policies' = Append(policies, [rules |-> r, at |-> tenantClock])
  /\ AppendLog(<<"policy.add", [rules |-> r, at |-> tenantClock]>>)
  /\ UNCHANGED <<tenantClock, caps, budgets, plans, snapshots>>

EvaluatePolicy(p) ==
  /\ \E i \in 1..Len(policies) : policies[i] = p
  /\ budgets' = Charged(budgets, "policy_eval", 1)
  /\ AppendLog(<<"policy.eval", p>>)
  /\ UNCHANGED <<tenantClock, caps, policies, plans, snapshots>>

AddPlan(n) ==
  /\ plans' = plans \cup {[steps |-> n, at |-> tenantClock]}
  /\ AppendLog(<<"plan.add", [steps |-> n, at |-> tenantClock]>>)
  /\ UNCHANGED <<tenantClock, caps, budgets, policies, snapshots>>

\* A plan without steps is charged as one with a single step.
StepsCharged(n) == IF n = 0 THEN 1 ELSE n

RunPlan(p) ==
  /\ p \in plans
  /\ budgets' = Charged(Charged(budgets, "plan_step", StepsCharged(p.steps)),
                        "exec", 1)
  /\ AppendLog(<<"plan.run.complete", p.steps>>)
  /\ UNCHANGED <<tenantClock, caps, policies, plans, snapshots>>

----------------------------------------------------------------------------
(* Snapshots *)

Fingerprints(revoked) ==
  {caps[i].fingerprint : i \in {j \in 1..Len(caps) : caps[j].revoked = revoked}}

\* The capabilities are not part of what the hash is computed from.
SnapshotHash == [at |-> tenantClock, budgets |-> budgets, policies |-> policies]

\* What a budget looks like to a client, and in a snapshot.
BuildBudget == [u \in Units |-> [limit |-> budgets[u].limit,
                                 used |-> budgets[u].used,
                                 remaining |-> budgets[u].limit - budgets[u].used]]

CreateSnapshot ==
  /\ snapshots' = Append(snapshots,
       [logical_time |-> Len(log), hash |-> SnapshotHash, budgets |-> BuildBudget,
        active_caps |-> Fingerprints(FALSE), revoked_caps |-> Fingerprints(TRUE)])
  /\ AppendLog(<<"snapshot.create", SnapshotHash, Len(log)>>)
  /\ UNCHANGED <<tenantClock, caps, budgets, policies, plans>>

\* Mutant: a restore revokes and never takes a revocation back.
RestoredCapsRevokes(s) ==
  [i \in 1..Len(caps) |-> [caps[i] EXCEPT
     !.revoked = @ \/ caps[i].fingerprint \in s.revoked_caps]]

\* Capabilities minted after the snapshot stay, and become active again.
RestoredCaps(s) ==
  [i \in 1..Len(caps) |-> [caps[i] EXCEPT
     !.revoked = caps[i].fingerprint \in s.revoked_caps]]

RestoredBudgets(s) == [u \in Units |-> [limit |-> s.budgets[u].limit,
                                        used |-> s.budgets[u].used]]

\* The newest snapshot with the hash is the one that is restored.
FoundSnapshot(h) ==
  snapshots[Newest({i \in 1..Len(snapshots) : snapshots[i].hash = h})]

RestoreSnapshot(h) ==
  /\ \E i \in 1..Len(snapshots) : snapshots[i].hash = h
  /\ budgets' = RestoredBudgets(FoundSnapshot(h))
  /\ caps' = RestoredCaps(FoundSnapshot(h))
  /\ AppendLog(<<"snapshot.restore", h, FoundSnapshot(h).logical_time>>)
  /\ UNCHANGED <<tenantClock, policies, plans, snapshots>>

----------------------------------------------------------------------------

\* Operations on other parts of the state, which add to the log only.
OtherEvent == /\ AppendLog(<<"other">>)
              /\ UNCHANGED <<tenantClock, caps, budgets, policies, plans, snapshots>>

\* The clock stops at MaxTenantTime.
TenantTick == /\ tenantClock' = IF tenantClock < MaxTenantTime THEN tenantClock + 1
                                                                ELSE tenantClock
              /\ UNCHANGED <<caps, budgets, policies, plans, snapshots, log>>

TenantNext == \/ \E u \in Units, n \in Limits : SetBudgetLimit(u, n)
              \/ ResetBudgetWindow
              \/ \E s \in Subjects : MintCapability(s)
              \/ \E i \in 1..Len(caps) : RevokeCapability(caps[i].fingerprint)
              \/ \E r \in Rules : AddPolicy(r)
              \/ \E i \in 1..Len(policies) : EvaluatePolicy(policies[i])
              \/ \E n \in StepCounts : AddPlan(n)
              \/ \E p \in plans : RunPlan(p)
              \/ CreateSnapshot
              \/ \E i \in 1..Len(snapshots) : RestoreSnapshot(snapshots[i].hash)
              \/ OtherEvent
              \/ TenantTick

TenantSpec == TenantInit /\ [][TenantNext]_tenantVars

----------------------------------------------------------------------------
(* Properties *)

TenantTypeOK ==
  /\ tenantClock \in 0..MaxTenantTime
  /\ \A i \in 1..Len(caps) : caps[i].fingerprint \in Fingerprint
                             /\ caps[i].revoked \in BOOLEAN
  /\ budgets \in TenantBudgets
  /\ \A i \in 1..Len(policies) :
       policies[i] \in [rules : Rules, at : 0..MaxTenantTime]
  /\ plans \subseteq [steps : StepCounts, at : 0..MaxTenantTime]
  /\ \A i \in 1..Len(snapshots) :
       snapshots[i].logical_time \in 0..MaxEvents

\* No two capabilities have one fingerprint, although several may be minted for
\* one subject in the same millisecond: revoking one never leaves a namesake.
FingerprintsUnique == \A i, j \in 1..Len(caps) :
   caps[i].fingerprint = caps[j].fingerprint => i = j

\* What the log says happened, one entry after the other.  For a restore that is
\* what the log said at the logical time the entry names.
After(t, d, at) ==
  CASE d[1] = "budget.set" -> [t EXCEPT !.budgets[d[2]].limit = d[3]]
    [] d[1] = "budget.reset_window" ->
         [t EXCEPT !.budgets = [u \in Units |-> [@[u] EXCEPT !.used = 0]]]
    [] d[1] = "cap.mint" -> [t EXCEPT !.active = @ \cup {d[2]},
                                      !.budgets = Charged(@, "exec", 1)]
    [] d[1] = "cap.revoke" -> [t EXCEPT !.active = @ \ {d[2]},
                                        !.revoked = @ \cup {d[2]}]
    [] d[1] = "policy.eval" -> [t EXCEPT !.budgets = Charged(@, "policy_eval", 1)]
    [] d[1] = "plan.run.complete" ->
         [t EXCEPT !.budgets =
            Charged(Charged(@, "plan_step", IF d[2] = 0 THEN 1 ELSE d[2]),
                    "exec", 1)]
    [] d[1] = "snapshot.restore" ->
         [active |-> (t.active \cup t.revoked) \ at.revoked,
          revoked |-> at.revoked, budgets |-> at.budgets]
    [] OTHER -> t

TellsOf(n) ==
  LET told[k \in 0..n] ==
        IF k = 0
          THEN [active |-> {}, revoked |-> {}, budgets |-> EmptyBudgets]
          ELSE LET d == log[k] IN
               After(told[k - 1], d,
                     IF d[1] = "snapshot.restore" THEN told[d[3]] ELSE told[0])
  IN told[n]

\* The log accounts for the state: replaying it gives the capabilities, their
\* revocations and the budgets of the tenant, restores of older snapshots and of
\* snapshots with one hash included.
LogAccountsForState ==
  TellsOf(Len(log)) = [active |-> Fingerprints(FALSE),
                       revoked |-> Fingerprints(TRUE), budgets |-> budgets]

\* What holds of a tenant in every state: types, fingerprints that name one
\* capability, and a log that accounts for the state.
TenantInvariant == TenantTypeOK /\ FingerprintsUnique /\ LogAccountsForState
=============================================================================
