------------------------------ MODULE Startup ------------------------------
(***************************************************************************)
(* How instances of the service come up: migrations, the check of the      *)
(* model provider, the pool (app.py, migration_runner.py).                 *)
(*                                                                         *)
(* create_app applies the migrations before there is an application, so    *)
(* an instance whose migration raises exits, and is started again by what  *)
(* runs it.  Nothing keeps two instances from migrating at once: every     *)
(* statement is a transaction, each migration creates only what does not   *)
(* exist, and its name is recorded in a transaction of its own.            *)
(***************************************************************************)
EXTENDS Naturals, FiniteSets

CONSTANTS
    Instances,      \* processes of the service
    Migrations,     \* how many files there are, in their order 1, 2, ...
    MaxCrashes      \* crashes and shutdowns of instances (bound)

ASSUME StartupAssumption == Migrations \in Nat /\ MaxCrashes \in Nat

VARIABLES
    phase,      \* of each instance, see Phases
    file,       \* the migration it is at; 0 is ask_service_migrations itself
    sawGap,     \* when it began to apply that, the database did not have it
    applied,    \* what is in the schema of the database
    recorded,   \* the names in ask_service_migrations
    ready,      \* app.state.ready
    crashes     \* so far

startupVars == <<phase, file, sawGap, applied, recorded, ready, crashes>>

Files == 1 .. Migrations
Phases == {"down", "lookup", "apply", "applying", "record", "startup", "warm",
           "serving"}

StartupInit ==
    /\ phase = [i \in Instances |-> "down"]
    /\ file = [i \in Instances |-> 0]
    /\ sawGap = [i \in Instances |-> FALSE]
    /\ applied = {} /\ recorded = {}
    /\ ready = [i \in Instances |-> FALSE]
    /\ crashes = 0

Become(i, p) == phase' = [phase EXCEPT ![i] = p]

-----------------------------------------------------------------------------
(* run_migrations.                                                         *)

\* The process starts, and begins with the table of migrations.
Start(i) ==
    /\ phase[i] = "down"
    /\ Become(i, "apply")
    /\ file' = [file EXCEPT ![i] = 0]
    /\ UNCHANGED <<sawGap, applied, recorded, ready, crashes>>

\* Only the application's own memory tells which migrations are done.
LookUpForgotten(i) ==
    /\ phase[i] = "lookup"
    /\ IF file[i] > Migrations THEN Become(i, "startup") ELSE Become(i, "apply")
    /\ UNCHANGED <<file, sawGap, applied, recorded, ready, crashes>>

\* A migration that has a name in the table is skipped.
LookUp(i) ==
    /\ phase[i] = "lookup"
    /\ IF file[i] > Migrations THEN Become(i, "startup") /\ UNCHANGED file
       ELSE IF file[i] \in recorded
       THEN UNCHANGED phase /\ file' = [file EXCEPT ![i] = @ + 1]
       ELSE Become(i, "apply") /\ UNCHANGED file
    /\ UNCHANGED <<sawGap, applied, recorded, ready, crashes>>

\* The transaction takes time, in which another instance may commit the same.
BeginApply(i) ==
    /\ phase[i] = "apply"
    /\ Become(i, "applying")
    /\ sawGap' = [sawGap EXCEPT ![i] = file[i] \notin applied]
    /\ UNCHANGED <<file, applied, recorded, ready, crashes>>

\* The name is inserted first, and the migration applied by the next start.
CommitName(i) ==
    /\ phase[i] = "applying"
    /\ applied' = IF file[i] = 0 THEN {0} ELSE applied
    /\ recorded' = recorded \union ({file[i]} \ {0})
    /\ Become(i, "lookup") /\ file' = [file EXCEPT ![i] = @ + 1]
    /\ UNCHANGED <<sawGap, ready, crashes>>

CommitApply(i) ==
    /\ phase[i] = "applying"
    /\ applied' = applied \union {file[i]}
    /\ IF file[i] = 0
       THEN Become(i, "lookup") /\ file' = [file EXCEPT ![i] = 1]
       ELSE Become(i, "record") /\ UNCHANGED file
    /\ UNCHANGED <<sawGap, recorded, ready, crashes>>

\* "if not exists" looks before it creates: what another instance has created
\* meanwhile is an error, and the transaction is rolled back.
CollideApply(i) ==
    /\ phase[i] = "applying"
    /\ sawGap[i] /\ file[i] \in applied
    /\ Become(i, "down")
    /\ UNCHANGED <<file, sawGap, applied, recorded, ready, crashes>>

\* A name that another instance has inserted meanwhile violates the primary key.
RecordMigration(i) ==
    /\ phase[i] = "record"
    /\ IF file[i] \in recorded
       THEN Become(i, "down") /\ UNCHANGED <<file, recorded>>
       ELSE /\ recorded' = recorded \union {file[i]}
            /\ Become(i, "lookup") /\ file' = [file EXCEPT ![i] = @ + 1]
    /\ UNCHANGED <<sawGap, applied, ready, crashes>>

-----------------------------------------------------------------------------
(* The application.                                                        *)

\* The provider is validated; if that fails the instance serves what it can, and
\* is not ready.
ValidateProvider(i) ==
    /\ phase[i] = "startup"
    /\ Become(i, "warm")
    /\ \E valid \in BOOLEAN : ready' = [ready EXCEPT ![i] = valid]
    /\ UNCHANGED <<file, sawGap, applied, recorded, crashes>>

\* The pool is filled in the background, and the instance serves.
WarmUp(i) ==
    /\ phase[i] = "warm"
    /\ Become(i, "serving")
    /\ UNCHANGED <<file, sawGap, applied, recorded, ready, crashes>>

\* A crash, anywhere, or a shutdown, which says that the service is not ready and
\* terminates the pool.
GoDown(i) ==
    /\ phase[i] # "down" /\ crashes < MaxCrashes
    /\ crashes' = crashes + 1
    /\ Become(i, "down")
    /\ ready' = [ready EXCEPT ![i] = FALSE]
    /\ UNCHANGED <<file, sawGap, applied, recorded>>

Advance(i) ==
    \/ Start(i) \/ LookUp(i) \/ BeginApply(i) \/ CommitApply(i) \/ CollideApply(i)
    \/ RecordMigration(i) \/ ValidateProvider(i) \/ WarmUp(i)

-----------------------------------------------------------------------------
StartupNext == \E i \in Instances : Advance(i) \/ GoDown(i)

StartupSpec == StartupInit /\ [][StartupNext]_startupVars

\* Processes run, and what runs them starts an instance again that has exited.
StartupFairness == \A i \in Instances : WF_startupVars(Advance(i))

-----------------------------------------------------------------------------
(* Properties.                                                             *)

\* Every variable has its type.
StartupTypeOK ==
    /\ phase \in [Instances -> Phases]
    /\ file \in [Instances -> 0 .. Migrations + 1]
    /\ sawGap \in [Instances -> BOOLEAN]
    /\ applied \subseteq 0 .. Migrations /\ recorded \subseteq Files
    /\ ready \in [Instances -> BOOLEAN]
    /\ crashes \in 0 .. MaxCrashes

\* Whatever instances crash or collide, a migration is in the schema only with
\* all before it, a name in ask_service_migrations is that of a migration in the
\* schema, and an instance that is ready or serves finds all of them.
ServesMigrated ==
    /\ \A f \in applied : 0 .. f \subseteq applied
    /\ recorded \subseteq applied
    /\ \A i \in Instances :
           ready[i] \/ phase[i] = "serving" => recorded = Files

\* Every instance that is started comes up: a collision with another, or a crash
\* between a migration and its record, costs a restart, but not every restart.
ComesUp == \A i \in Instances : phase[i] # "down" ~> [](phase[i] = "serving")
=============================================================================
