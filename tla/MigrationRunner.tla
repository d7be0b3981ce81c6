-------------------------- MODULE MigrationRunner --------------------------
(***************************************************************************)
(* The schema migrations (backend/apps/migrations/run-migration.js and the *)
(* five files it applies).                                                 *)
(*                                                                         *)
(* A file is executed as one transaction and registered afterwards by a    *)
(* second call, so the runner may die between the two; a later run applies *)
(* the file again, which its IF NOT EXISTS clauses allow.  000_base is     *)
(* executed at every start and registers 001 itself, on the strength of a  *)
(* comment that says a previous runner has applied it; whether it has is   *)
(* not looked at, so an empty database gets the row without the tables.    *)
(***************************************************************************)
EXTENDS Naturals, Sequences, FiniteSets

CONSTANTS MaxCrashes    \* bound on failed calls and crashes of the runner

ASSUME RunnerAssumption == MaxCrashes \in Nat

VARIABLES
    tables,         \* groups of tables in the database
    registered,     \* the rows of _migrations
    runner,         \* step, index in Files, the files read as applied
    crashes,
    legacy          \* history: the tables found before the first run

migVars == <<tables, registered, runner, crashes, legacy>>

Files == <<"base", "events", "required", "nonces", "core">>

\* What each file creates, and which tables its foreign keys refer to.
Creates(file) == {file}
RefersTo(file) == IF file = "required" THEN {"core"} ELSE {}

MigrationTypeOK ==
    /\ tables \subseteq {Files[i] : i \in DOMAIN Files}
    /\ registered \subseteq {Files[i] : i \in DOMAIN Files}
    /\ runner.at \in 1 .. Len(Files) + 1
    /\ runner.step \in {"idle", "base", "select", "exec", "record"}

Stopped == [step |-> "idle", at |-> 1, applied |-> {}]

\* Any database without the runner's own table, from an empty one to that of the
\* deployed service; what refers to other tables is not there without them.
Databases == { db \in SUBSET {"events", "required", "nonces", "core"} :
               \A file \in db : RefersTo(file) \subseteq db }

MigrationInit(databases) ==
    /\ legacy \in databases
    /\ tables = legacy
    /\ registered = {}
    /\ runner = Stopped
    /\ crashes = 0

\* Mutant: the exit code of a failed file is not looked at.
ExitsNever == runner' = IF runner.step = "exec"
                        THEN [runner EXCEPT !.step = "record"] ELSE Stopped

Exits == runner' = Stopped

\* A statement that fails makes the runner exit, as a crash does.
Crash ==
    /\ runner # Stopped /\ crashes < MaxCrashes
    /\ crashes' = crashes + 1
    /\ Exits
    /\ UNCHANGED <<tables, registered, legacy>>

RunMigration ==
    /\ runner = Stopped
    /\ registered # {Files[i] : i \in DOMAIN Files}
    /\ runner' = [Stopped EXCEPT !.step = "base"]
    /\ UNCHANGED <<tables, registered, crashes, legacy>>

ExecBase ==
    /\ runner.step = "base"
    /\ tables' = tables \cup Creates("base")
    /\ registered' = registered \cup {"events"}
    /\ runner' = [runner EXCEPT !.step = "select"]
    /\ UNCHANGED <<crashes, legacy>>

\* The loop over the files skips those that were registered at the start.
NextPending(from, applied) ==
    CHOOSE i \in from .. Len(Files) + 1 :
        /\ i = Len(Files) + 1 \/ Files[i] \notin applied
        /\ \A j \in from .. i - 1 : Files[j] \in applied

Advance(from, applied) ==
    LET i == NextPending(from, applied)
    IN  runner' = IF i > Len(Files) THEN Stopped
                  ELSE [step |-> "exec", at |-> i, applied |-> applied]

\* The error of a failed select is not looked at: no file counts as applied.
SelectApplied ==
    /\ runner.step = "select"
    /\ \/ Advance(1, registered) /\ UNCHANGED crashes
       \/ /\ crashes < MaxCrashes /\ crashes' = crashes + 1
          /\ Advance(1, {})
    /\ UNCHANGED <<tables, registered, legacy>>

File == Files[runner.at]

ExecFile ==
    /\ runner.step = "exec"
    /\ \/ /\ RefersTo(File) \subseteq tables
          /\ tables' = tables \cup Creates(File)
          /\ runner' = [runner EXCEPT !.step = "record"]
       \/ /\ ~(RefersTo(File) \subseteq tables)
          /\ Exits
          /\ UNCHANGED tables
    /\ UNCHANGED <<registered, crashes, legacy>>

\* filename is UNIQUE: a file that has its row already ends the run.
RecordMigration ==
    /\ runner.step = "record"
    /\ \/ /\ File \notin registered
          /\ registered' = registered \cup {File}
          /\ Advance(runner.at + 1, runner.applied)
       \/ File \in registered /\ Exits /\ UNCHANGED registered
    /\ UNCHANGED <<tables, crashes, legacy>>

MigrationNext ==
    \/ RunMigration \/ ExecBase \/ SelectApplied \/ ExecFile \/ RecordMigration
    \/ Crash

-----------------------------------------------------------------------------
(***************************************************************************)
(* "applies any pending ones in order", run-migration.js:8: wherever runs   *)
(* were cut off, failed or read nothing of what was applied, each          *)
(* registered file exists in the database - but for 001, which 000_base    *)
(* registers unseen, where the database did not have it to begin with -    *)
(* and no other file is registered before its predecessors.                *)
(***************************************************************************)
RegisteredMigrationsExist ==
    /\ registered \subseteq tables \cup ({"events"} \ legacy)
    /\ \A i, j \in DOMAIN Files :
          /\ i < j /\ Files[j] \in registered /\ Files[j] # "events"
          => Files[i] \in registered

=============================================================================
