------------------------- MODULE ShadowLogMigration -------------------------
(***************************************************************************)
(* ShadowLog._migrate (shadow_log.py): bringing the SQLite schema to       *)
(* version 4 when a process opens the database.  The daemon and the replay *)
(* command are separate processes that may open it at the same time.       *)
(*                                                                         *)
(* What is a transaction follows Python's sqlite3 module, not the "with"   *)
(* block: executescript commits what is open and then runs each of its     *)
(* statements on its own; ALTER TABLE is on its own unless an INSERT has   *)
(* opened a transaction before it; an INSERT opens one that ends at the    *)
(* next executescript or at the end of the block.  Each action below is    *)
(* one such transaction; inside one, a crash leaves nothing.               *)
(***************************************************************************)
EXTENDS Naturals

CONSTANTS
  Procs,       \* the processes that open the database
  MaxCrashes   \* bound: processes killed in the middle

ASSUME CrashBound == MaxCrashes \in Nat

VARIABLES
  schema,    \* the tables and the later columns the database has
  versions,  \* the rows of schema_versions
  step,      \* where each process is, "closed" or "open" outside _migrate
  crashes    \* crashes so far

migrationVars == <<schema, versions, step, crashes>>

Tables == {"raw_events", "event_state", "daemon_checkpoints"}
Columns == {"dispatch_target", "error_details"}
Schema == Tables \cup Columns \cup {"llm_metrics"}

(* The schemas that releases before this one left behind, by version; 0 is  *)
(* a new database.                                                          *)
Released(v) ==
  CASE v = 0 -> {}
    [] v = 1 -> Tables
    [] v = 2 -> Tables \cup {"dispatch_target"}
    [] v = 3 -> Tables \cup Columns
    [] v = 4 -> Schema

CurrentVersion == CHOOSE v \in versions \cup {0} : \A w \in versions \cup {0} : w <= v

MigrationInit ==
  /\ \E v \in 0 .. 4 :
       /\ schema = Released(v)
       /\ versions = 0 .. v \ {0}
  /\ step = [p \in Procs |-> "closed"]
  /\ crashes = 0

Goto(p, s) == step' = [step EXCEPT ![p] = s]

(* The current version decides where the process enters the ladder; from    *)
(* there it walks down on its own idea of the version.                      *)
ReadVersion(p) ==
  /\ step[p] = "closed"
  /\ Goto(p, CASE CurrentVersion = 0 -> "create raw_events"
               [] CurrentVersion = 1 -> "add dispatch_target"
               [] CurrentVersion = 2 -> "add error_details"
               [] CurrentVersion = 3 -> "create llm_metrics"
               [] CurrentVersion = 4 -> "open")
  /\ UNCHANGED <<schema, versions, crashes>>

(* One transaction: add the objects and the version rows, or, if one of     *)
(* them exists already, raise and change nothing.                           *)
Apply(p, at, objects, rows, next) ==
  /\ step[p] = at
  /\ UNCHANGED crashes
  /\ IF objects \cap schema = {} /\ rows \cap versions = {}
       THEN /\ schema' = schema \cup objects
            /\ versions' = versions \cup rows
            /\ Goto(p, next)
       ELSE /\ Goto(p, "closed")
            /\ UNCHANGED <<schema, versions>>

(* executescript of the first version: one table after the other.  The      *)
(* table event_state is created with dispatch_target.                       *)
CreateTables(p) ==
  \/ Apply(p, "create raw_events", {"raw_events"}, {}, "create event_state")
  \/ Apply(p, "create event_state", {"event_state", "dispatch_target"}, {}, "create daemon_checkpoints")
  \/ Apply(p, "create daemon_checkpoints", {"daemon_checkpoints"}, {}, "to version 3")

(* From version 1: the ALTER stands alone. *)
AddDispatchTarget(p) ==
  Apply(p, "add dispatch_target", {"dispatch_target"}, {}, "to version 3")

(* INSERT 2, ALTER, INSERT 3: one transaction that the next executescript   *)
(* commits.                                                                 *)
ToVersion3(p) ==
  Apply(p, "to version 3", {"error_details"}, {2, 3}, "create llm_metrics")

(* A slip, not the code: the version the database has is inserted again. *)
AddErrorDetailsAgain(p) ==
  \/ Apply(p, "add error_details", {"error_details"}, {}, "insert 3")
  \/ Apply(p, "insert 3", {}, {2, 3}, "create llm_metrics")

(* From version 2 the ALTER comes first, and stands alone. *)
AddErrorDetails(p) ==
  \/ Apply(p, "add error_details", {"error_details"}, {}, "insert 3")
  \/ Apply(p, "insert 3", {}, {3}, "create llm_metrics")

(* Slips, not the code: a version number that is not the next one, and a    *)
(* table that is not created.                                               *)
ToVersion5(p) ==
  \/ Apply(p, "create llm_metrics", {"llm_metrics"}, {}, "insert 4")
  \/ Apply(p, "insert 4", {}, {5}, "open")

ToVersion4WithoutTable(p) ==
  \/ Apply(p, "create llm_metrics", {}, {}, "insert 4")
  \/ Apply(p, "insert 4", {}, {4}, "open")

ToVersion4(p) ==
  \/ Apply(p, "create llm_metrics", {"llm_metrics"}, {}, "insert 4")
  \/ Apply(p, "insert 4", {}, {4}, "open")

Close(p) ==
  /\ step[p] = "open"
  /\ Goto(p, "closed")
  /\ UNCHANGED <<schema, versions, crashes>>

Kill(p) ==
  /\ step[p] \notin {"closed", "open"}
  /\ crashes < MaxCrashes
  /\ crashes' = crashes + 1
  /\ Goto(p, "closed")
  /\ UNCHANGED <<schema, versions>>

Migrate(p) ==
  \/ ReadVersion(p) \/ CreateTables(p) \/ AddDispatchTarget(p) \/ ToVersion3(p)
  \/ AddErrorDetails(p) \/ ToVersion4(p)

MigrationNext == \E p \in Procs : Migrate(p) \/ Close(p) \/ Kill(p)

MigrationSpec == MigrationInit /\ [][MigrationNext]_migrationVars

(* A process that is started runs, and one that raised is started again.    *)
FairMigrationSpec ==
  MigrationSpec /\ \A p \in Procs : WF_migrationVars(Migrate(p))

-----------------------------------------------------------------------------
Steps ==
  {"closed", "create raw_events", "create event_state", "create daemon_checkpoints",
   "add dispatch_target", "to version 3", "add error_details", "insert 3",
   "create llm_metrics", "insert 4", "open"}

MigrationTypeOK ==
  /\ schema \subseteq Schema
  /\ versions \subseteq 1 .. 4
  /\ step \in [Procs -> Steps]
  /\ crashes \in Nat

(* A process that got through _migrate has every table and column, also if  *)
(* other processes migrated at the same time or were killed half way.       *)
OpenMeansComplete == \A p \in Procs : step[p] = "open" => schema = Schema

(* An object the database has was made once and is never made again or lost: *)
(* a version that is recorded has its whole schema.                          *)
VersionMeansSchema == Released(CurrentVersion) \subseteq schema

(* As long as no process is killed, every process that keeps trying gets its *)
(* database open, however many of them migrate it at the same time.          *)
EveryoneOpens == \A p \in Procs : []<>(step[p] = "open" \/ crashes > 0)
=============================================================================
