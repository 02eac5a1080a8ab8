----------------------------- MODULE MCStorage ------------------------------
(* The components that keep files, tables and secrets, for TLC.  They share   *)
(* no state: a behaviour is one of the component it starts with, the others   *)
(* stay in their first state, and the states to check are the sum of theirs.  *)
EXTENDS MCRequestIdempotency, Organizations, EventLog, CasStore,
        ToolEvents, MigrationRunner, CredentialRotation, SemanticLedger, TLC

CONSTANT Components   \* the components to check

VARIABLE component    \* the one this behaviour is about

storage == <<vars, orgVars, logVars, casVars, eventVars, migrationVars,
             rotationVars, ledgerVars, component>>

\* A request and its repetition are alike.  The same two values are the actors,
\* threads, processes, runners and tasks of the other components, which are
\* alike too.
Alike == Permutations({r1, r2})

StorageInit ==
  /\ component \in Components
  /\ Init /\ OrgInit /\ LogInit /\ CasInit
  /\ EventsInit /\ MigrationInit /\ RotationInit /\ LedgerInit

\* Only the variables of one component change.
StorageNext ==
  /\ UNCHANGED component
  /\ IF component = "idempotency" THEN Next ELSE UNCHANGED vars
  /\ IF component = "organizations" THEN OrgNext ELSE UNCHANGED orgVars
  /\ IF component = "log" THEN LogNext ELSE UNCHANGED logVars
  /\ IF component = "cas" THEN CasNext ELSE UNCHANGED casVars
  /\ IF component = "events" THEN EventsNext ELSE UNCHANGED eventVars
  /\ IF component = "migrations" THEN MigrationNext ELSE UNCHANGED migrationVars
  /\ IF component = "rotation" THEN RotationNext ELSE UNCHANGED rotationVars
  /\ IF component = "states" THEN LedgerNext ELSE UNCHANGED ledgerVars

StorageSpec == StorageInit /\ [][StorageNext]_storage
=============================================================================
