--------------------------- MODULE MCTenantStore ---------------------------
(* Instance of TenantStore for TLC.  Calls are interchangeable.            *)
EXTENDS TenantStore, FiniteSets, TLC

CallSymmetry == Permutations(Calls)

\* Bound of the three-call run: one abandoned request at a time, and no more
\* than one call that has died.
FewFailures == /\ Cardinality(flight) <= 1
               /\ Cardinality({c \in Calls : pc[c] = "crashed"}) <= 1
=============================================================================
