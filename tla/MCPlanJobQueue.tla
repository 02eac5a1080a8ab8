--------------------------- MODULE MCPlanJobQueue ---------------------------
(* Instances of PlanJobQueue for TLC. *)
EXTENDS PlanJobQueue

CONSTANTS w1, w2, a1, a2, orgA, orgB

\* Ids of the autonomous workers, or given by hand: one each.
OwnIds == [w \in Workers |-> w]

OneActor == [w \in Workers |-> a1]

\* One worker looks at the whole tenant, the other at one organization.
MixedScope == [w \in Workers |-> IF w = w1 THEN AllOrgs ELSE orgA]

TenantWide == [w \in Workers |-> AllOrgs]
=============================================================================
