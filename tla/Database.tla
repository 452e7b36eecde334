------------------------------ MODULE Database ------------------------------
(***************************************************************************)
(* One PostgreSQL database and the programs that work on it: application   *)
(* instances whose lifecycle hook checks it and runs the migrations they   *)
(* embed (mads-common/src/database), and `mads db migrate`, `rollback` and *)
(* `generate` on the migration files of the project                        *)
(* (mads-cli/src/database.rs).                                             *)
(*                                                                         *)
(* Diesel and PostgreSQL are external: a migration is applied or reverted  *)
(* in one transaction that also writes the table of applied versions,      *)
(* whose key refuses a version that is there already; a statement that     *)
(* creates a table that exists or drops one that does not fails.           *)
(***************************************************************************)
EXTENDS Naturals, Sequences, FiniteSetsExt

CONSTANTS
  Instances,       \* application processes
  Declarations,    \* sets of tables the entity sources declare at some time
  MaxMigrations,   \* bound: migrations generated in one behaviour
  MaxPoolSize      \* bound: largest database.pool_size configured

ASSUME DatabaseAssumption ==
  /\ MaxMigrations \in Nat /\ MaxPoolSize \in Nat \ {0}
  /\ Instances \cap {"migrate", "rollback"} = {}   \* the names of the commands' sessions

VARIABLES
  migrations,  \* the files under migrations/, in version order
  applied,     \* versions in the table of applied migrations
  schema,      \* tables that exist
  generating,  \* the plan `db generate` has made and not yet published
  step,        \* how far the migration closure of a session has come
  source,      \* the session's migration source: how many of the files it has
  todo,        \* versions the closure has still to apply, or the one to revert
  phase,       \* each instance: its lifecycle, seen from the database hook
  settings,    \* each instance: the DatabaseConfig and source it was built with
  closed,      \* each instance: its pool is closed
  waiting,     \* each instance: a Database::run() waits in pool.get()
  closures,    \* each instance: closures of run() on the blocking threads
  reverted,    \* history: versions reverted since the instance read `applied`
  overlapped   \* history: a rollback and a migrate have overlapped

sessionVars == <<step, source, todo>>
poolVars == <<closed, waiting, closures>>
databaseVars == <<migrations, applied, schema>>
vars == <<databaseVars, generating, sessionVars, phase, settings, poolVars,
          reverted, overlapped>>

Sessions == Instances \cup {"migrate", "rollback"}
Phases == {"absent", "refused", "created", "checking", "migrating", "started",
           "running", "failed", "stopped", "dropped"}
NoPlan == [pending |-> FALSE]

-----------------------------------------------------------------------------
(***************************************************************************)
(* What an application is given: DatabaseConfig::from_config, the explicit *)
(* bootstrap, which replaces the official default, and evaluate() of that  *)
(* default.  An unresolved url is an exact "${NAME}".                      *)
(***************************************************************************)
Setup == [provided : BOOLEAN, required : BOOLEAN,
          url : {"missing", "empty", "unresolved", "resolved"},
          pool_size : 0 .. MaxPoolSize,
          migrate : {"true", "false", "other"}, embedded : BOOLEAN]

ConfigAccepted(setup) ==
  setup.url = "resolved" /\ setup.pool_size > 0 /\ setup.migrate # "other"

SourcePresent(setup) == setup.migrate = "true" => setup.embedded

Evaluation(setup) ==
  CASE setup.provided -> "overridden"
    [] ~setup.provided /\ ~setup.required -> "skipped"
    [] OTHER -> IF ConfigAccepted(setup) /\ SourcePresent(setup)
                THEN "active" ELSE "failed"

Bootstrapped(setup) ==
  \/ setup.provided /\ ConfigAccepted(setup) /\ SourcePresent(setup)
  \/ Evaluation(setup) = "active"

-----------------------------------------------------------------------------
Init ==
  /\ migrations = <<>>
  /\ applied = {}
  /\ schema = {}
  /\ generating = NoPlan
  /\ step = [s \in Sessions |-> "idle"]
  /\ source = [s \in Sessions |-> 0]
  /\ todo = [s \in Sessions |-> {}]
  /\ phase = [i \in Instances |-> "absent"]
  /\ settings = [i \in Instances |-> [pool_size |-> 1, migrate |-> FALSE, embedded |-> FALSE]]
  /\ closed = [i \in Instances |-> FALSE]
  /\ waiting = [i \in Instances |-> FALSE]
  /\ closures = [i \in Instances |-> 0]
  /\ reverted = [i \in Instances |-> {}]
  /\ overlapped = FALSE

(***************************************************************************)
(* `db generate`: the desired tables are read, then the live ones, and the *)
(* difference is published as one migration; an empty difference publishes *)
(* nothing.                                                                *)
(***************************************************************************)
Difference(desired, live) ==
  [creates |-> desired \ live, drops |-> live \ desired]

Generate(desired) ==
  /\ generating = NoPlan
  /\ Len(migrations) < MaxMigrations
  /\ Difference(desired, schema) # [creates |-> {}, drops |-> {}]
  /\ generating' = [pending |-> TRUE, plan |-> Difference(desired, schema),
                    desired |-> desired, basis |-> applied]
  /\ UNCHANGED <<databaseVars, sessionVars, phase, settings, poolVars,
                 reverted, overlapped>>

PublishGenerated ==
  /\ generating # NoPlan
  /\ migrations' = Append(migrations,
       [creates |-> generating.plan.creates, drops |-> generating.plan.drops,
        desired |-> generating.desired, basis |-> generating.basis])
  /\ generating' = NoPlan
  /\ UNCHANGED <<applied, schema, sessionVars, phase, settings, poolVars,
                 reverted, overlapped>>

-----------------------------------------------------------------------------
(***************************************************************************)
(* The closures that work on migrations.  run_pending_migrations reads the *)
(* applied versions, then applies what the source has beyond them, lowest  *)
(* version first; revert_last_migration reads them and reverts the highest *)
(* version its source has among them.                                      *)
(***************************************************************************)
SourceVersions(s) == 1 .. source[s]

Applies(v) ==
  /\ v \notin applied
  /\ migrations[v].creates \cap schema = {}
  /\ migrations[v].drops \subseteq schema

Reverts(v) ==
  /\ migrations[v].drops \cap schema = {}
  /\ migrations[v].creates \subseteq schema

ReadPending(s) ==
  /\ s # "rollback"
  /\ step[s] = "reading"
  /\ step' = [step EXCEPT ![s] = "working"]
  /\ todo' = [todo EXCEPT ![s] = SourceVersions(s) \ applied]
  /\ reverted' = [i \in Instances |-> IF i = s THEN {} ELSE reverted[i]]
  /\ UNCHANGED <<databaseVars, generating, source, phase, settings, poolVars, overlapped>>

Overlaps(s) ==
  \E other \in Sessions \ {s} :
    step[other] # "idle" /\ "rollback" \in {s, other}

ApplyNext(s) ==
  /\ s # "rollback"
  /\ step[s] = "working"
  /\ todo[s] # {}
  /\ Applies(Min(todo[s]))
  /\ LET v == Min(todo[s])
     IN  /\ applied' = applied \cup {v}
         /\ schema' = (schema \ migrations[v].drops) \cup migrations[v].creates
         /\ todo' = [todo EXCEPT ![s] = @ \ {v}]
  /\ overlapped' = (overlapped \/ Overlaps(s))
  /\ UNCHANGED <<migrations, generating, step, source, phase, settings, poolVars, reverted>>

WorkFinished(s) == step[s] = "working" /\ todo[s] = {}

WorkFails(s) ==
  /\ s # "rollback"
  /\ step[s] = "working"
  /\ todo[s] # {}
  /\ ~Applies(Min(todo[s]))

CommandReturns(s) ==
  /\ step' = [step EXCEPT ![s] = "idle"]
  /\ source' = [source EXCEPT ![s] = 0]
  /\ todo' = [todo EXCEPT ![s] = {}]

\* Seeded fault: the lowest applied version of the source is reverted.
LatestLowest(versions) == Min(versions)

Latest(versions) == Max(versions)

ReadLatest ==
  /\ step["rollback"] = "reading"
  /\ LET mine == applied \cap SourceVersions("rollback")
     IN  IF mine = {}
         THEN CommandReturns("rollback")      \* NoMigrationRun
         ELSE /\ step' = [step EXCEPT !["rollback"] = "working"]
              /\ todo' = [todo EXCEPT !["rollback"] = {Latest(mine)}]
              /\ UNCHANGED source
  /\ UNCHANGED <<databaseVars, generating, phase, settings, poolVars,
                 reverted, overlapped>>

RevertLatest ==
  /\ step["rollback"] = "working"
  /\ \E v \in todo["rollback"] :
       IF Reverts(v)
       THEN /\ applied' = applied \ {v}
            /\ schema' = (schema \ migrations[v].creates) \cup migrations[v].drops
            /\ reverted' = [i \in Instances |->
                              IF settings[i].migrate THEN reverted[i] \cup {v} ELSE {}]
            /\ overlapped' = (overlapped \/ Overlaps("rollback"))
       ELSE UNCHANGED <<applied, schema, reverted, overlapped>>
  /\ CommandReturns("rollback")
  /\ UNCHANGED <<migrations, generating, phase, settings, poolVars>>

(***************************************************************************)
(* `db migrate` and `db rollback`: the files are loaded, then the database *)
(* is opened; it is closed whatever the operation returned.                *)
(***************************************************************************)
Command(s) ==
  /\ s \in {"migrate", "rollback"}
  /\ step[s] = "idle"
  /\ migrations # <<>>
  /\ step' = [step EXCEPT ![s] = "reading"]
  /\ source' = [source EXCEPT ![s] = Len(migrations)]
  /\ UNCHANGED <<databaseVars, generating, todo, phase, settings, poolVars,
                 reverted, overlapped>>

MigrateReturns ==
  /\ WorkFinished("migrate") \/ WorkFails("migrate")
  /\ CommandReturns("migrate")
  /\ UNCHANGED <<databaseVars, generating, phase, settings, poolVars,
                 reverted, overlapped>>

-----------------------------------------------------------------------------
(***************************************************************************)
(* An application is built with the migrations the files hold at that time *)
(* embedded in it, and started.                                            *)
(***************************************************************************)
Build(i, setup) ==
  /\ phase[i] = "absent"
  /\ IF Bootstrapped(setup)
     THEN /\ phase' = [phase EXCEPT ![i] = "created"]
          /\ settings' = [settings EXCEPT ![i] =
               [pool_size |-> setup.pool_size, migrate |-> setup.migrate = "true",
                embedded |-> setup.embedded]]
          /\ source' = [source EXCEPT ![i] = IF setup.embedded THEN Len(migrations) ELSE 0]
     ELSE /\ phase' = [phase EXCEPT ![i] = "refused"]
          /\ UNCHANGED <<settings, source>>
  /\ UNCHANGED <<databaseVars, generating, step, todo, poolVars, reverted, overlapped>>

Start(i) ==
  /\ phase[i] = "created"
  /\ phase' = [phase EXCEPT ![i] = "checking"]
  /\ UNCHANGED <<databaseVars, generating, sessionVars, settings, poolVars,
                 reverted, overlapped>>

FailStart(i) ==
  /\ phase' = [phase EXCEPT ![i] = "failed"]
  /\ closed' = [closed EXCEPT ![i] = TRUE]

CheckFails(i) ==
  /\ phase[i] = "checking"
  /\ FailStart(i)
  /\ UNCHANGED <<databaseVars, generating, sessionVars, settings, waiting,
                 closures, reverted, overlapped>>

\* Seeded fault: a start that was migrated once is not migrated again.
CheckSucceedsWhenEmpty(i) ==
  /\ phase[i] = "checking"
  /\ IF settings[i].migrate /\ settings[i].embedded /\ applied = {}
     THEN /\ phase' = [phase EXCEPT ![i] = "migrating"]
          /\ step' = [step EXCEPT ![i] = "reading"]
     ELSE /\ phase' = [phase EXCEPT ![i] = "started"]
          /\ UNCHANGED step
  /\ UNCHANGED <<databaseVars, generating, source, todo, settings, closed,
                 waiting, closures, reverted, overlapped>>

CheckSucceeds(i) ==
  /\ phase[i] = "checking"
  /\ CASE ~settings[i].migrate ->
            /\ phase' = [phase EXCEPT ![i] = "started"]
            /\ UNCHANGED <<step, closed>>
       [] settings[i].migrate /\ settings[i].embedded ->
            /\ phase' = [phase EXCEPT ![i] = "migrating"]
            /\ step' = [step EXCEPT ![i] = "reading"]
            /\ UNCHANGED closed
       [] OTHER -> FailStart(i) /\ UNCHANGED step      \* take_migrations
  /\ UNCHANGED <<databaseVars, generating, source, todo, settings, waiting,
                 closures, reverted, overlapped>>

(***************************************************************************)
(* The closure ends.  A start that is still waiting for it goes on or      *)
(* fails; a start whose future was dropped learns nothing.                 *)
(***************************************************************************)
StartupMigrated(i) ==
  /\ WorkFinished(i)
  /\ step' = [step EXCEPT ![i] = "idle"]
  /\ phase' = [phase EXCEPT ![i] = IF @ = "migrating" THEN "started" ELSE @]
  /\ UNCHANGED <<databaseVars, generating, source, todo, settings, poolVars,
                 reverted, overlapped>>

\* Seeded fault: a failed migration is tried again, for as long as it fails.
StartupMigrationRetried(i) ==
  /\ WorkFails(i)
  /\ step' = [step EXCEPT ![i] = "reading"]
  /\ todo' = [todo EXCEPT ![i] = {}]
  /\ UNCHANGED <<databaseVars, generating, source, phase, settings, poolVars,
                 reverted, overlapped>>

StartupMigrationFails(i) ==
  /\ WorkFails(i)
  /\ step' = [step EXCEPT ![i] = "idle"]
  /\ todo' = [todo EXCEPT ![i] = {}]
  /\ IF phase[i] = "migrating" THEN FailStart(i) ELSE UNCHANGED <<phase, closed>>
  /\ UNCHANGED <<databaseVars, generating, source, settings, waiting, closures,
                 reverted, overlapped>>

(***************************************************************************)
(* The rest of LifecycleManager: later hooks start, or one of them fails   *)
(* and this hook is stopped; shutdown() stops it; and the caller may drop  *)
(* the future of start(), after which shutdown() is refused.               *)
(***************************************************************************)
LaterHooksStart(i) ==
  /\ phase[i] = "started"
  /\ phase' = [phase EXCEPT ![i] = "running"]
  /\ UNCHANGED <<databaseVars, generating, sessionVars, settings, poolVars,
                 reverted, overlapped>>

\* Seeded fault: only a shutdown closes the pool, not the rollback of a start.
StopAfterRunning(i) ==
  /\ phase[i] \in {"started", "running"}
  /\ phase' = [phase EXCEPT ![i] = IF @ = "started" THEN "failed" ELSE "stopped"]
  /\ closed' = [closed EXCEPT ![i] = phase[i] = "running"]
  /\ UNCHANGED <<databaseVars, generating, sessionVars, settings, waiting,
                 closures, reverted, overlapped>>

Stop(i) ==
  /\ phase[i] \in {"started", "running"}
  /\ phase' = [phase EXCEPT ![i] = IF @ = "started" THEN "failed" ELSE "stopped"]
  /\ closed' = [closed EXCEPT ![i] = TRUE]
  /\ UNCHANGED <<databaseVars, generating, sessionVars, settings, waiting,
                 closures, reverted, overlapped>>

DropStart(i) ==
  /\ phase[i] \in {"checking", "migrating", "started"}
  /\ phase' = [phase EXCEPT ![i] = "dropped"]
  /\ UNCHANGED <<databaseVars, generating, sessionVars, settings, poolVars,
                 reverted, overlapped>>

\* The process ends: the server rolls the open transaction back.
Crash(i) ==
  /\ phase[i] # "absent"
  /\ phase' = [phase EXCEPT ![i] = "absent"]
  /\ settings' = [settings EXCEPT ![i] =
                   [pool_size |-> 1, migrate |-> FALSE, embedded |-> FALSE]]
  /\ step' = [step EXCEPT ![i] = "idle"]
  /\ source' = [source EXCEPT ![i] = 0]
  /\ todo' = [todo EXCEPT ![i] = {}]
  /\ closed' = [closed EXCEPT ![i] = FALSE]
  /\ waiting' = [waiting EXCEPT ![i] = FALSE]
  /\ closures' = [closures EXCEPT ![i] = 0]
  /\ reverted' = [reverted EXCEPT ![i] = {}]
  /\ UNCHANGED <<databaseVars, generating, overlapped>>

-----------------------------------------------------------------------------
(***************************************************************************)
(* Database::run(): a connection of the pool, then the operation as a      *)
(* blocking closure.  Dropping the future of run() takes it out of the     *)
(* queue, but a closure that runs goes on and keeps its connection.        *)
(***************************************************************************)
InUse(i) == closures[i] + (IF step[i] = "idle" THEN 0 ELSE 1)

Run(i) ==
  /\ phase[i] \in {"started", "running", "dropped"}
  /\ ~closed[i]
  /\ ~waiting[i]
  /\ waiting' = [waiting EXCEPT ![i] = TRUE]
  /\ UNCHANGED <<databaseVars, generating, sessionVars, phase, settings, closed,
                 closures, reverted, overlapped>>

Acquire(i) ==
  /\ waiting[i]
  /\ ~closed[i]
  /\ InUse(i) < settings[i].pool_size
  /\ waiting' = [waiting EXCEPT ![i] = FALSE]
  /\ closures' = [closures EXCEPT ![i] = @ + 1]
  /\ UNCHANGED <<databaseVars, generating, sessionVars, phase, settings, closed,
                 reverted, overlapped>>

\* PoolError: the pool was closed while run() waited; or run() is dropped.
LeaveQueue(i) ==
  /\ waiting[i]
  /\ waiting' = [waiting EXCEPT ![i] = FALSE]
  /\ UNCHANGED <<databaseVars, generating, sessionVars, phase, settings, closed,
                 closures, reverted, overlapped>>

ClosureEnds(i) ==
  /\ closures[i] > 0
  /\ closures' = [closures EXCEPT ![i] = @ - 1]
  /\ UNCHANGED <<databaseVars, generating, sessionVars, phase, settings, closed,
                 waiting, reverted, overlapped>>

-----------------------------------------------------------------------------
Progress(s) ==
  \/ ReadPending(s)
  \/ ApplyNext(s)

Startup(i) ==
  \/ Start(i) \/ CheckSucceeds(i) \/ CheckFails(i)
  \/ StartupMigrated(i) \/ StartupMigrationFails(i)
  \/ LaterHooksStart(i)

Next ==
  \/ \E desired \in Declarations : Generate(desired)
  \/ PublishGenerated
  \/ \E s \in Sessions : Command(s) \/ Progress(s)
  \/ MigrateReturns
  \/ ReadLatest
  \/ RevertLatest
  \/ \E i \in Instances :
       \/ \E setup \in Setup : Build(i, setup)
       \/ Startup(i) \/ Stop(i) \/ DropStart(i) \/ Crash(i)
       \/ Run(i) \/ Acquire(i) \/ LeaveQueue(i) \/ ClosureEnds(i)

(***************************************************************************)
(* A blocking closure runs on a thread of its own, a future that is not    *)
(* dropped is polled, and a closed pool wakes those who wait for it.       *)
(* Building, serving, stopping, dropping and crashing are left to chance.  *)
(***************************************************************************)
Fairness ==
  \A i \in Instances :
    /\ WF_vars(Progress(i) \/ Startup(i))
    /\ WF_vars(Acquire(i))
    /\ WF_vars(closed[i] /\ LeaveQueue(i))
    /\ WF_vars(ClosureEnds(i))

Spec == Init /\ [][Next]_vars /\ Fairness

-----------------------------------------------------------------------------
\* An instance that has come through the start of the database hook with
\* migrations enabled finds every migration it embeds in the database, except
\* those a rollback has taken back since it looked, whatever other instances
\* and commands did meanwhile (lifecycle.rs, DatabaseLifecycle::start).
StartedMeansMigrated ==
  \A i \in Instances :
    phase[i] \in {"started", "running"} /\ settings[i].migrate =>
      SourceVersions(i) \subseteq applied \cup reverted[i]

\* A start that fails, in this hook or a later one, and a shutdown leave the
\* pool closed and no migration of that start at work, and nothing else closes
\* a pool (lifecycle.rs, start and stop; lifecycle.rs of mads-core, rollback).
PoolFollowsLifecycle ==
  \A i \in Instances :
    /\ phase[i] \in {"failed", "stopped"} => closed[i] /\ step[i] = "idle"
    /\ closed[i] => phase[i] \in {"failed", "stopped"}

\* A start never gets as far as migrations it was not given: a setup without
\* them is refused while the application is built (lifecycle.rs, validate and
\* take_migrations; auto_configuration.rs, evaluate).
StartFindsItsMigrations ==
  \A i \in Instances :
    phase[i] = "checking" /\ settings[i].migrate => settings[i].embedded

\* As long as no rollback overlaps another migration session, the applied
\* versions have no gap: migrations go up and down in version order
\* (migration.rs, run_pending_migrations and revert_last_migration).
GapsNeedAnOverlap ==
  ~overlapped => \A v \in applied : 1 .. v \subseteq applied

\* Generating and then applying closes the circle: on the database it was
\* generated from, a migration leaves exactly the tables the entities asked for
\* (mads-cli/src/database.rs, generate; diff.rs, plan_diff).
GeneratedReachesDesired ==
  \A v \in 1 .. Len(migrations) :
    v \in applied /\ applied = migrations[v].basis \cup {v} =>
      schema = migrations[v].desired

\* Every start of the hook comes to an end, also one whose migrations fail or
\* find the database changed, and every run() that waits for a connection gets
\* one or an error (lifecycle.rs, start; pool.rs, run and close).
OperationsReturn ==
  \A i \in Instances :
    /\ phase[i] \in {"checking", "migrating"} ~> phase[i] \notin {"checking", "migrating"}
    /\ waiting[i] ~> ~waiting[i]

\* The start of the hook does all it is asked to: it has the migrations it is
\* to apply, and has applied them once it is through.
StartIsComplete == StartedMeansMigrated /\ StartFindsItsMigrations

\* The history of the database is consistent: versions without gaps as long as
\* sessions do not overlap, and generated migrations that do what they are for.
HistoryIsConsistent == GapsNeedAnOverlap /\ GeneratedReachesDesired

=============================================================================
