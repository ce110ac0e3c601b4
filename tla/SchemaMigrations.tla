------------------------- MODULE SchemaMigrations -------------------------
(***************************************************************************)
(* Migrations and the recorded schema version of the legacy indexer        *)
(* (packages/indexer/src/database/schema-version.ts, migration-runner.ts,  *)
(* migrate.ts and the start of index.ts).                                  *)
(*                                                                         *)
(* Release r carries the migrations 1..r and the version of rank r; the    *)
(* migration of release 1 creates schema_version and inserts its row.      *)
(* Services of different releases start, crash and start again during a    *)
(* deployment, and an operator runs migrate.ts beside them.  node-pg-      *)
(* migrate is external: it takes a lock, applies in one transaction what   *)
(* is pending, or fails and applies nothing.                               *)
(***************************************************************************)
EXTENDS Integers, Sequences, FiniteSets, SequencesExt

CONSTANTS
    Processes,
    Major          \* the major version of each release, in order

VARIABLES
    applied,       \* pgmigrations: the migrations 1..applied
    versions,      \* schema_version, ordered by applied_at
    proc,          \* each process: where it is, its release, --count=1
    short          \* history: a rollback or a counted run has left migrations out

schemaVars == <<applied, versions, proc, short>>

-----------------------------------------------------------------------------

Releases == 1..Len(Major)

Down == [at |-> "down", rel |-> 1, tool |-> FALSE, counted |-> FALSE]

Step(p, at) == proc' = [proc EXCEPT ![p].at = at]
Stop(p) == proc' = [proc EXCEPT ![p] = Down]

\* getCurrentVersion
CurrentVersion == IF versions = <<>> THEN 0 ELSE Last(versions)

\* Mutant: a database behind by a major version is migrated anyway.
CompatibleUpwards(r) ==
    /\ CurrentVersion # 0
    /\ Major[CurrentVersion] <= Major[r]

\* checkCompatibility: a version is recorded, and its major is the code's.
Compatible(r) ==
    /\ CurrentVersion # 0
    /\ Major[CurrentVersion] = Major[r]

\* Mutant: a release that records itself again gets a second row.
RecordedTwice(r) == Append(versions, r)

\* setVersion: the row is inserted, or its applied_at becomes now.
Recorded(r) == Append(RemoveFirst(versions, r), r)

\* A database nobody has migrated, or one at the first release.
Init ==
    /\ \E first \in {0, 1} :
          /\ applied = first
          /\ versions = IF first = 0 THEN <<>> ELSE <<1>>
    /\ proc = [p \in Processes |-> Down]
    /\ short = FALSE

\* runMigrations up: a fatal incompatibility throws, and the process exits.
CheckBefore(p) ==
    /\ proc[p].at = "down"
    /\ \E r \in Releases, tool, counted \in BOOLEAN :
          /\ counted => tool
          /\ Compatible(r)
          /\ proc' = [proc EXCEPT ![p] =
                [at |-> "migrate", rel |-> r, tool |-> tool, counted |-> counted]]
    /\ UNCHANGED <<applied, versions, short>>

\* An older release finds every migration of its own applied already.
Migrate(p) ==
    LET target == IF proc[p].counted THEN Min({applied + 1, proc[p].rel})
                  ELSE proc[p].rel
    IN  /\ proc[p].at = "migrate"
        /\ applied' = Max({applied, target})
        /\ short' = (short \/ applied' < proc[p].rel)
        /\ Step(p, "record")
        /\ UNCHANGED versions

MigrateFails(p) ==
    /\ proc[p].at = "migrate"
    /\ Stop(p)
    /\ UNCHANGED <<applied, versions, short>>

AfterRecord(p) == IF proc[p].tool THEN Stop(p) ELSE Step(p, "verify")

\* The code's own version is recorded, whatever was applied.
RecordVersion(p) ==
    /\ proc[p].at = "record"
    /\ versions' = Recorded(proc[p].rel)
    /\ AfterRecord(p)
    /\ UNCHANGED <<applied, short>>

\* "the migration itself succeeded, version recording is a bonus"
RecordFails(p) ==
    /\ proc[p].at = "record"
    /\ AfterRecord(p)
    /\ UNCHANGED <<applied, versions, short>>

\* validateSchemaCompatibility rethrows only a message that contains
\* FATAL, and the message of a fatal result does not: every answer passes.
Verify(p) ==
    /\ proc[p].at = "verify"
    /\ Step(p, "running")
    /\ UNCHANGED <<applied, versions, short>>

Crash(p) ==
    /\ proc[p].at # "down"
    /\ Stop(p)
    /\ UNCHANGED <<applied, versions, short>>

\* migrate.ts --down undoes one migration and does not touch the version;
\* undoing the first drops the table.
Rollback ==
    /\ applied > 0
    /\ applied' = applied - 1
    /\ versions' = IF applied = 1 THEN <<>> ELSE versions
    /\ short' = TRUE
    /\ UNCHANGED proc

Next ==
    \/ Rollback
    \/ \E p \in Processes :
          \/ CheckBefore(p) \/ Migrate(p) \/ MigrateFails(p) \/ RecordVersion(p)
          \/ RecordFails(p) \/ Verify(p) \/ Crash(p)

Spec == Init /\ [][Next]_schemaVars

-----------------------------------------------------------------------------

TypeOK ==
    /\ applied \in 0..Len(Major)
    /\ versions \in Seq(Releases) /\ IsInjective(versions)
    /\ proc \in [Processes ->
          [at : {"down", "migrate", "record", "verify", "running"},
           rel : Releases, tool : BOOLEAN, counted : BOOLEAN]]
    /\ short \in BOOLEAN

(***************************************************************************)
(* Through any overlap of deployments, crashes, failed migrations and lost *)
(* version writes: unless an operator left migrations out, the recorded    *)
(* version never promises a migration that was not applied, and a service  *)
(* that runs shares its major version with everything applied, although    *)
(* the check is made before the migrations of others and never after.      *)
(***************************************************************************)
SchemaFits ==
    ~short =>
        /\ CurrentVersion <= applied
        /\ \A p \in Processes :
              proc[p].at = "running" => Major[proc[p].rel] = Major[applied]

=============================================================================
