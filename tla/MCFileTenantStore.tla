------------------------- MODULE MCFileTenantStore -------------------------
(* Instances of FileTenantStore for TLC. *)
EXTENDS FileTenantStore

CONSTANTS c1, c2, c3, c4, p1, p2, p3

\* Calls of one process, and one after its restart.
OneThenOther == [c \in Calls |-> IF c = c4 THEN p2 ELSE p1]

\* Three processes with one call each, as in control-plane-concurrency.test.ts.
OneEach == [c \in Calls |-> CASE c = c1 -> p1 [] c = c2 -> p2 [] c = c3 -> p3]
=============================================================================
