--------------------------- MODULE MigrationRunner --------------------------
(***************************************************************************)
(* MigrationRunner of packages/ai/src/migrations/runner.ts, run by several *)
(* instances against one database.  up and down use runner.query, each     *)
(* statement a transaction of its own; only the row of the migrations      *)
(* table is written in the transaction the runner opens.                   *)
(*                                                                         *)
(* A migration is two statements, like the ones that enable row-level      *)
(* security on a table: the first may be repeated, the second (CREATE      *)
(* POLICY) fails when its effect is there.                                 *)
(***************************************************************************)
EXTENDS Integers

CONSTANTS
  Runners,
  LastMigration,  \* migrations 1..LastMigration, in the order of the array
  MaxRuns,        \* bound: calls of runMigrations and rollback
  MaxMigrationFaults  \* bound: failing statements and inserts, and crashes

ASSUME MigrationAssumption == LastMigration \in Nat \ {0}

VARIABLES
  executed,   \* per migration, the statements whose effect is in the database
  recorded,   \* names in the migrations table
  runner,     \* what each runner is doing
  known,      \* appliedNames of each runner
  runs, migrationFaults,
  undone      \* history: migrations whose down has run

migrationVars == <<executed, recorded, runner, known, runs, migrationFaults, undone>>

Migrations == 1..LastMigration
Statements == {1, 2}
Off == [at |-> "off", m |-> 0]
On(p, m) == [at |-> p, m |-> m]
Goes(r, where) == runner' = [runner EXCEPT ![r] = where]

\* The loop goes on with the next migration, or runMigrations returns.
NextAfter(m) == IF m < LastMigration THEN On("next", m + 1) ELSE Off

-----------------------------------------------------------------------------
MigrationInit ==
  /\ executed = [m \in Migrations |-> {}]
  /\ recorded = {}
  /\ runner = [r \in Runners |-> Off]
  /\ known = [r \in Runners |-> {}]
  /\ runs = 0 /\ migrationFaults = 0 /\ undone = {}

\* runMigrations: getAppliedMigrations.
StartRun(r) ==
  /\ runner[r] = Off /\ runs < MaxRuns
  /\ runs' = runs + 1
  /\ known' = [known EXCEPT ![r] = recorded]
  /\ Goes(r, On("next", 1))
  /\ UNCHANGED <<executed, recorded, migrationFaults, undone>>

Skip(r) ==
  /\ runner[r].at = "next" /\ runner[r].m \in known[r]
  /\ Goes(r, NextAfter(runner[r].m))
  /\ UNCHANGED <<executed, recorded, known, runs, migrationFaults, undone>>

\* up, statement by statement.
First(r) ==
  /\ runner[r].at = "next" /\ runner[r].m \notin known[r]
  /\ executed' = [executed EXCEPT ![runner[r].m] = @ \cup {1}]
  /\ Goes(r, On("second", runner[r].m))
  /\ UNCHANGED <<recorded, known, runs, migrationFaults, undone>>

Second(r) ==
  /\ runner[r].at = "second" /\ 2 \notin executed[runner[r].m]
  /\ executed' = [executed EXCEPT ![runner[r].m] = @ \cup {2}]
  /\ Goes(r, On("insert", runner[r].m))
  /\ UNCHANGED <<recorded, known, runs, migrationFaults, undone>>

\* Its effect is already there: up throws, the runner goes on with the next
\* migration.
SecondRefused(r) ==
  /\ runner[r].at = "second" /\ 2 \in executed[runner[r].m]
  /\ Goes(r, NextAfter(runner[r].m))
  /\ UNCHANGED <<executed, recorded, known, runs, migrationFaults, undone>>

\* Mutant: the transaction with the row is not committed.
InsertRowUncommitted(r) ==
  /\ runner[r].at = "insert"
  /\ Goes(r, NextAfter(runner[r].m))
  /\ UNCHANGED <<executed, recorded, known, runs, migrationFaults, undone>>

\* The row is inserted and committed; an existing row is a key violation.
InsertRow(r) ==
  /\ runner[r].at = "insert"
  /\ recorded' = recorded \cup {runner[r].m}
  /\ Goes(r, NextAfter(runner[r].m))
  /\ UNCHANGED <<executed, known, runs, migrationFaults, undone>>

\* A statement, the insert or the commit fails: rollback, next migration.
StepFails(r) ==
  /\ runner[r].at \in {"next", "second", "insert"}
  /\ runner[r].m \notin known[r]
  /\ migrationFaults < MaxMigrationFaults
  /\ migrationFaults' = migrationFaults + 1
  /\ Goes(r, NextAfter(runner[r].m))
  /\ UNCHANGED <<executed, recorded, known, runs, undone>>

\* rollback: down runs outside the transaction that deletes the row.
StartRollback(r, m) ==
  /\ runner[r] = Off /\ runs < MaxRuns
  /\ runs' = runs + 1
  /\ executed' = [executed EXCEPT ![m] = {}]
  /\ undone' = undone \cup {m}
  /\ Goes(r, On("delete", m))
  /\ UNCHANGED <<recorded, known, migrationFaults>>

DeleteRow(r) ==
  /\ runner[r].at = "delete"
  /\ recorded' = recorded \ {runner[r].m}
  /\ Goes(r, Off)
  /\ UNCHANGED <<executed, known, runs, migrationFaults, undone>>

\* The delete fails (rollback throws), or any runner's process stops.
AbandonRun(r) ==
  /\ runner[r] # Off
  /\ migrationFaults < MaxMigrationFaults
  /\ migrationFaults' = migrationFaults + 1
  /\ Goes(r, Off)
  /\ UNCHANGED <<executed, recorded, known, runs, undone>>

MigrationNext ==
  \E r \in Runners :
    \/ StartRun(r) \/ Skip(r) \/ First(r) \/ Second(r) \/ SecondRefused(r)
    \/ InsertRow(r) \/ StepFails(r)
    \/ \E m \in Migrations : StartRollback(r, m)
    \/ DeleteRow(r) \/ AbandonRun(r)

MigrationSpec == MigrationInit /\ [][MigrationNext]_migrationVars

-----------------------------------------------------------------------------
MigrationTypeOK ==
  /\ executed \in [Migrations -> SUBSET Statements]
  /\ recorded \subseteq Migrations
  /\ \A r \in Runners : runner[r].m \in Migrations \/ runner[r] = Off

\* A row in the migrations table means that the migration is in the database,
\* for every interleaving of runners, every failing step and every crash, as
\* long as its down never ran.
RecordedIsApplied ==
  \A m \in recorded \ undone : executed[m] = Statements

\* And the other way round while nothing fails: once every runner is done,
\* what is in the database is recorded, concurrent runs included.
AppliedIsRecordedWithoutFaults ==
  migrationFaults = 0 /\ (\A r \in Runners : runner[r] = Off)
    => \A m \in Migrations \ undone : executed[m] = Statements => m \in recorded

\* What holds of the schema in every state: types, and that the table of
\* migrations tells what was applied.
MigrationInvariant == /\ MigrationTypeOK /\ RecordedIsApplied
                      /\ AppliedIsRecordedWithoutFaults
=============================================================================
