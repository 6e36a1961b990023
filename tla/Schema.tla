------------------------------- MODULE Schema -------------------------------
(***************************************************************************)
(* The tables of the database and the two ways in which they come about:   *)
(* create_all over the declared models (models.py, database.py), which     *)
(* every database probe calls, and the Alembic revisions 0001 and 0002.    *)
(* Columns matter in one place: workflow_runs.version_hash, which          *)
(* revision 0002 adds to a table that revision 0001 has created.           *)
(***************************************************************************)

RunTables == {"workflow_runs", "step_executions"}

RuntimeTables == {"schedules", "webhook_registrations", "workflow_definitions",
                  "idempotency_records", "execution_events"}

\* Base.metadata
Models == RunTables \cup RuntimeTables

Schemas == [tables : SUBSET Models, versionHash : BOOLEAN,
            revision : {"base", "0001", "0002"}]

Empty == [tables |-> {}, versionHash |-> FALSE, revision |-> "base"]

\* What the queries of storage_db.py need.
Usable(s) == Models \subseteq s.tables /\ s.versionHash

-----------------------------------------------------------------------------
(* create_all: tables that are not there are created, the others are left   *)
(* as they are.                                                             *)

Missing(s) == Models \ s.tables

\* Faulty variant of Created: a model module that nobody imports.
CreatedWithoutRuntime(s, missing) ==
    [s EXCEPT !.tables = @ \cup (missing \cap RunTables),
              !.versionHash = @ \/ "workflow_runs" \in missing]

Created(s, missing) ==
    [s EXCEPT !.tables = @ \cup missing,
              !.versionHash = @ \/ "workflow_runs" \in missing]

-----------------------------------------------------------------------------
(* The revisions.  CREATE TABLE and ADD COLUMN fail on what exists.         *)

Fits0001(s) == s.tables \cap RunTables = {}

Upgrade0001(s) ==
    [s EXCEPT !.tables = @ \cup RunTables, !.revision = "0001"]

Fits0002(s) ==
    /\ "workflow_runs" \in s.tables /\ ~s.versionHash
    /\ s.tables \cap RuntimeTables = {}

Upgrade0002(s) ==
    [s EXCEPT !.tables = @ \cup RuntimeTables, !.versionHash = TRUE,
              !.revision = "0002"]

\* Faulty variant of Downgrade0002: the column stays.
Downgrade0002Tables(s) ==
    [s EXCEPT !.tables = @ \ RuntimeTables, !.revision = "0001"]

Downgrade0002(s) ==
    [s EXCEPT !.tables = @ \ RuntimeTables, !.versionHash = FALSE,
              !.revision = "0001"]

Downgrade0001(s) ==
    [s EXCEPT !.tables = @ \ RunTables, !.revision = "base"]

\* alembic upgrade head: the pending revisions, in one transaction.
CanUpgrade(s) ==
    CASE s.revision = "base" -> Fits0001(s) /\ Fits0002(Upgrade0001(s))
      [] s.revision = "0001" -> Fits0002(s)
      [] s.revision = "0002" -> TRUE

Upgraded(s) ==
    CASE s.revision = "base" -> Upgrade0002(Upgrade0001(s))
      [] s.revision = "0001" -> Upgrade0002(s)
      [] s.revision = "0002" -> s

\* The databases a deployment starts from.
AtRevision(r) ==
    CASE r = "base" -> Empty
      [] r = "0001" -> Upgrade0001(Empty)
      [] r = "0002" -> Upgraded(Empty)
=============================================================================
