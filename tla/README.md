# A specification of MADS

MADS is a Rust framework: an application declares providers, modules, routes and
hooks with attribute macros; the framework selects and orders the providers, builds
them, starts the lifecycle hooks, serves HTTP and shuts everything down again. A
command-line tool, `mads`, runs an application in a watch-and-rebuild loop, inspects
it in a child process, and plans and publishes database migrations.

This directory models the parts of it that have state and an order of events, checks
them with TLC on small instances, and proves most of their safety properties for every
value of the constants with TLAPS. `PROJECT.json` maps every definition to the lines of
`src/` it stands for; the paths below are relative to `src/`.

## 1. The system and its parts

| Component | State it keeps | Operations | Hard behaviours | Module |
|---|---|---|---|---|
| Lifecycle manager (`mads-core/src/lifecycle.rs`) | registered hooks, state Created .. Failed | `add_hook`, `start`, `shutdown` | hooks that fail in the middle, rollback, dropped futures, hooks registered late | `Lifecycle`, `NestedScopes`, `LifecycleProofs` |
| HTTP runtime (`mads-common/src/server.rs`) | the phase of one run, requests in flight, the stop signals | `run`, `serve`, drain, stop | stop before the server listens, a failed bind after a successful start, two errors at once | `HttpRuntime`, `LifecycleProofs` |
| Application builder (`mads-core/src/builder.rs`) | values by type, report | `provide`, `construct`, `root`, `build` | values provided, declared and defaulted at once; failing and dropped constructors | `ApplicationBuild` |
| Provider graph (`mads-core/src/graph/`) | resolved nodes and edges, cycles, plan | resolution, cycle search, planning | double edges, unreachable parts, an assertion that holds only if the cycle search is exact | `ProviderGraph`, `ApplicationBuild`, `BuildProofs` |
| Auto-configuration (`mads-core/src/auto_configuration/`) | decisions, virtual providers | evaluation, selection | rival defaults, a default that replaces a missing declaration and fails | `ProviderGraph` |
| Module graph and scope (`mads-core/src/graph/{module,scope}.rs`) | reachable modules, import edges, selected providers | `build_module_graph`, `select_scoped_providers` | visibility through providers no module owns, a second selection after the defaults | `ModuleScope`, `ScopeProofs` |
| Development supervisor (`mads-cli/src/{dev,dev_state,process,watch}.rs`) | phase, pending impact, build child, application child | watch, debounce, build, start, restart, stop | edits during builds, exits during stops, Ctrl-C at any time | `DevState`, `DevSupervisor`, `CliProofs` |
| Migration publication (`mads-cli/src/database/publish.rs`) | the files on disk | stage, write, sync, rename, clean up | power loss, process death, rival publishers, clean-up by path | `MigrationPublish`, `CliProofs` |
| Database pool and hook (`mads-common/src/database/`) | pool, migrations taken once | check, migrate, close, `run` | failure after the pool was opened, closures that outlive their future, rollback beside a migration | `Database`, `DatabaseProofs` |
| Schema generation (`mads-cli/src/database.rs`, `database/{schema,catalog,diff,sql}.rs`) | declared and live schema | `db generate`: load, read, plan, render | order of statements, inverses, what is lost without a word | `SchemaDiff`, `Database`, `SchemaProofs` |
| Inspection (`mads-cli/src/inspection.rs`, `mads-common/src/inspection.rs`) | acknowledgement and response files, child process | handshake, timeouts, termination, report | an answer that races its deadline, a report that differs from the run it foretells | `Inspection`, `Settings`, `RulesProofs` |
| Routes, HTTP scope, router (`mads-common/src/{http_scope,route,router}.rs`, the HTTP macros) | selected controllers, bindings, validated routes, installed routes | expand, scope, bind, validate, install | conflicts across controllers, ownership by nearest module, a second pass that must agree with the first | `HttpRouting`, `RequestProofs` |
| Passport (`mads-common/src/passport/`) | credential, principal, context of a request | extract, verify, validate, authorize | policies inherited field by field, which refusal is reported | `HttpRouting`, `GuardedRequests`, `RequestProofs` |
| JWT (`mads-common/src/jwt/`) | keys, lifetimes | sign, verify, rotate | both ends of `u64`, keys replaced under tokens in use | `JwtTokens`, `RulesProofs` |
| Configuration and settings (`mads-core/src/config.rs`, `mads-common/src/{server_config,cors}.rs`) | layered values | load, merge, interpolate, evaluate defaults | precedence and shapes, variables that are overridden | `Settings`, `RulesProofs` |
| Command line (`mads-cli/src/{command,project,cargo,lib,watch}.rs`) | none that changes | parse, select, build, watch set | ambiguity, nested packages | `CommandLine`, `RulesProofs` |
| Errors, response cookies, rendering, most of the macros | none that changes | values and renderings | - | see section 7 |

**How they interact.** `mads dev` (development supervisor) runs `cargo build` and the
application as children, and stops the application by creating a file that the HTTP
runtime polls. In the application, the macros register descriptors; the builder narrows
them to a root module's scope, adds defaults from auto-configuration, resolves them
into a provider graph, plans it and runs the constructors in plan order. Defaults such
as the database register infrastructure hooks on the builder's lifecycle manager,
application code registers the others. The HTTP runtime owns the finished application:
it starts the manager, binds, serves, drains and shuts the manager down. Before that it
builds the router: the HTTP scope of the application decides which controllers and guards
count, every guard is bound to a strategy, and a request passes the bound strategy before
its handler. `mads routes`, `graph` and `doctor` start the same program, which finds in its
environment that it is to report instead of serve and answers through two files. The
migration publisher writes the directories whose contents the database hook, `db migrate`
and `db rollback` work on later.

`PROJECT.json` lists every component, with what is left out of it, and under "hazards"
each place where a test is hard to write, with the properties that cover it.

## 2. Modules

    NestedScopes  <-- refined by --  Lifecycle  <-- composed in --  HttpRuntime
                                                                  ^
                                                           LifecycleProofs

    DevState <-- DevSupervisor <-- CliProofs --> MigrationPublish

    Database <-- DatabaseProofs

    ProviderGraph <-- ApplicationBuild <-- MCApplicationBuild
          ^                ^
          |            BuildProofs
          |
          +---- ModuleScope <-- MCModuleScope
                     ^
                ScopeProofs

    HttpRouting <-- GuardedRequests <-- MCGuardedRequests
                          ^
                    RequestProofs

    SchemaDiff, JwtTokens, Settings, CommandLine <-- MCRules, Inspection <-- RulesProofs
          ^                                                                      |
     SchemaProofs <--------------------------------------------------------------+

### Lifecycle (mads-core/src/lifecycle.rs)
`hooks` is the vector of registrations with their group, `state` the manager's state; `call`,
`index`, `started` and `failure` are the locals of the call in progress, `result` what the last
one returned. `AddHook` and `AddInfrastructureHook` register; `Start` is the guard and the sort of
`start()` (infrastructure first, then by owner, stable); `StartHook` and `StartHookFails` await one
hook; `RollbackHook`, `RollbackDone` run the rollback; `Shutdown`, `ShutdownHook`, `ShutdownDone` are
`shutdown()`; `StartRejected` and `ShutdownRejected` the refusals. `DropCall` is the caller dropping
the future at an await: the manager stays in Starting or Stopping for ever, as in the code.
The hooks are external: each call of one may succeed or fail. `resource` is a history variable:
what each hook has been through, so that properties speak of the hooks and not of the
manager's idea of them; a call out of turn makes it "misused".

`LateRegistration` tells whether hooks are registered after `start()`. `MadsApplication`
does not let its users do so, and the theorems and the run assume FALSE; the manager
itself is exported and does (section 6).

### NestedScopes
What the manager promises, without its fields: a stack. A hook is opened on top or
fails to open, and closed only from the top. `Lifecycle` implements it under the
mapping that takes the hooks which are up, in start order, to the stack.

### HttpRuntime (mads-common/src/server.rs)
One `run()` or `serve()`, composed with `Lifecycle`: preflight (`Prepare`), `StartApplication` and
its outcomes, `Bind`, `Accept`, `Respond`, a stop requested (`RequestStop`: Ctrl-C or the shutdown file
of `mads dev`) and noticed (`ShutdownSignal`), `Drained`, `StopApplication`, and `Finish`, which
combines the two errors. axum is external: it accepts until its shutdown
future resolves and then waits for the requests in flight. Its `serve` may return an error
in its type although axum 0.8 never does; the code handles it, so the model does.
Before the signal handler is polled for the first time Ctrl-C has its default effect and kills
the process (`CtrlCTooEarly`).

### DevState and DevSupervisor (mads-cli/src/dev_state.rs, dev.rs, process.rs, watch.rs)
`DevState` translates the state machine: one operator for each `handle_*`, which sets the
fields and the list of actions that follow. `DevSupervisor` is the loop around it: the
watch task and its channels, the debounce, `select!` over Ctrl-C, changes, the
end of the build and the periodic process check, and the execution of the actions
one at a time, each of which may fail and leave through the error path that cancels the
build and stops the application. Sources and configuration have version numbers, and a build or a process carries the
versions it has seen. `attempted` (the sources the last build read) and `failed` (a build has failed since the
application was last started) are history variables.

### MigrationPublish (mads-cli/src/database/publish.rs)
The disk is a directory tree, volatile and durable: a `write` changes the volatile
content, `sync_all` makes a file durable, syncing a directory its entries, and a power loss
keeps any state between the durable and the volatile one. Each file operation is a step and may fail.
Publishers are concurrent processes and use paths, so one
may find what another created. `sync_directory` answers `Ok` where the file system cannot synchronize a directory: then the disk
stays as it is, and the history variable `skipped` notes the publisher and the step. `Drop` and `DropParent` are the guard, which removes by path; a
process may die (`Dies`) between any two steps.

### ProviderGraph, ApplicationBuild, MCApplicationBuild
`ProviderGraph` has the operators: which declarations are duplicate, ambiguous or
missing, which defaults are evaluated, selected or in conflict, nodes and edges.
`ApplicationBuild` is the builder as a state machine: `Provide` and `Construct`,
then `Analyze`, one step per iteration of the depth-first cycle search (`Search...`) and of Kahn's
algorithm (`PlanStep`), then the appliers (`ApplyDefault`), one constructor a step (`ConstructStep`), and
after a failing one the search for the path that explains it (`Explain...`). A constructor resolves
each dependency it declares (which is what the macro generates) and then may fail or
be dropped. Types are numbers in the order of (name, origin, location) in which the code
sorts them, and `Ith` takes from a set of them the one at a position. The reference definition `Obtainable` (what can be constructed at
all) is the least set closed under what a declaration needs.

### ModuleScope, MCModuleScope (mads-core/src/graph/module.rs, scope.rs, builder.rs)
The analysis of a build with a root module, up to the plan. `calls`, `visited`, `nodes` and `imports` are
the recursion and the `BuildState` of `build_module_graph()`: `VisitRoot`, `Import` (one iteration over the direct
imports) and `Leave`. `work`, `processed` and `refused` are the locals of `select_scoped_providers()`:
`StartScope` queues what reachable modules own and `SelectNext` takes one item, a provider with the module on
whose behalf it is wanted. `DecideDefaults` evaluates auto-configuration on the first selection (`initial`) and
starts the second, in which what the defaults provide is not looked for; `EndScope` ends it, and
`Diagnostics` is what the builder then reports. A Rust path is a sequence of segments, so that ownership is the longest
prefix; the empty one is a descriptor without a namespace. The work queue is a set: its order shows only in the order of
diagnostics. `MCModuleScope` has the programs, in families: every import graph of three modules,
faulty module metadata, and placements of two to four providers.

### HttpRouting, GuardedRequests, MCGuardedRequests (mads-common: http_scope.rs, route.rs, router.rs, passport/; mads-common-macros)
`app` is what is linked into a program: modules, contracts with the attributes of their traits and methods,
controllers, strategies and providers. `Expand` is what `#[routes]`, `#[guard]` and `#[controller]` do at compile time:
refuse, or emit descriptors (`Effective` is the guard a method ends up with). Then come the phases of `build_router`:
`SelectScope` (the controllers in reach and, for every route, the module its guard is judged in), `BindGuards` (the strategies visible
there; none, several or one of the wrong principal is a refusal), `ValidateController`, one controller a step, with
`seen_routes`, and the generated registrars, one route a step (`InstallRoute`, `FinishController`), which walk the
declarations a second time and must agree with what was validated. Axum is external: it panics on a second
string for one shape of path.

`GuardedRequests` sends one request to a router that has been built. `Arrive` finds its route; `Extract`, `Verify`, `Validate`,
`Authorize` and `Handle` are the awaits of the guard's service. A token is a model value with the verdict of its verification (what gives
that verdict is `JwtTokens`), a custom strategy may accept, refuse or fail. The predicates of a guard are names: a principal has the set
of those that hold of it, and the adapter generated for one is false of a principal of another type (`Satisfied`). `MCGuardedRequests` has the programs,
in families: two contracts over every pair of short paths, malformed attributes, contracts without
methods, every pair of a trait's and a method's guard with roles, permissions or predicates in either, and strategies in every place and with every fault.

### Database (mads-common/src/database, mads-cli/src/database.rs)
`applied` and `schema` are the database, `migrations` the files. A session works on them in a blocking closure: `ReadPending`
and `ApplyNext` (one migration, one transaction), or `ReadLatest` and `RevertLatest`. `Build` is what the default or the explicit bootstrap
makes of every setup of `database.*`; `Start`, `CheckSucceeds`, `CheckFails`, `StartupMigrated` and
`StartupMigrationFails` are the hook's `start()`, `Stop` its `stop()`, as the lifecycle manager calls them; `DropStart` drops the future, and the
closure works on. `Run`, `Acquire`, `LeaveQueue` and `ClosureEnds` are `Database::run()` on a pool of `pool_size`
connections. `Generate` and `PublishGenerated` plan a migration from the schema of one moment and publish it later; `Command` starts
`db migrate` or `db rollback`; `Crash` ends a process anywhere. A schema is a set of tables here: columns are `SchemaDiff`'s business.
`reverted` and `overlapped` are history variables.

### Inspection (mads-cli/src/inspection.rs, mads-common/src/inspection.rs)
`cli` is the next step of `inspect_application`, `child` that of the application process. Every look of the polling
loop is a step of its own (`LookAtAcknowledgement`, `LookAtReport`, `LookAtChild`, `LookAtExit`, `LookAtClock`), and the child moves between
any two. It publishes a file by `WriteTemporary`, rename and `RemoveTemporary`, each of which may
fail, may crash or hang anywhere, and its `main()` may ignore what `Mads::run` returned. `program` distinguishes the applications that a target can name,
one that answers for itself included. `DeadlinePasses` is the clock.

### Rules without steps: SchemaDiff, JwtTokens, Settings, CommandLine, MCRules
Pure functions of the code, as operators. `SchemaDiff` reads declarations (`Declared`) and catalog rows (`LiveTables`), plans (`Up`, `Down`), refuses
(`PlanAccepted`) and warns, and has what PostgreSQL does with each operation (`Succeeds`, `Result`; external). A change of type succeeds if
PostgreSQL has the cast that the rendered `USING column::type` asks for (`CastExists`): `integer` to `text[]` has none, and `timestamp` to `time`
has one and none back, so that a migration may be applied and not reverted. The tables are empty, and nothing else depends on the columns dropped or retyped
(`Independent`): with rows, or a view or key on the column, PostgreSQL may refuse more. `JwtTokens` accepts a
`PassportConfig`, signs and verifies, with `u64::MAX` as the constant `MaxSeconds`. `Settings` loads and merges sources, evaluates
the four official defaults, and composes them into `Inspect` (what `mads doctor` reports) and `StandardRunPrepares` (what
`Mads::run` does before it binds). `CommandLine` goes from the arguments over the target to the exit code, and classifies paths for `mads dev`.

`MCRules` asks one question per behaviour: `topic` and `input` are chosen from the cases of one rule, and the
properties compare the answer with a definition that is written another way. These are
invariants over bounded inputs, not over interleavings.

### LifecycleProofs, DatabaseProofs, CliProofs, BuildProofs, ScopeProofs, RequestProofs, SchemaProofs, RulesProofs
Section 5. Each extends the module it is about: `LifecycleProofs` the runtime and with it the manager, `CliProofs` the supervisor
and the publisher of the CLI, `SchemaProofs` the rules of `db generate`, `RulesProofs` the rules with their cases, and `Inspection`.

## 3. What is checked

| Run | Instance | Distinct states | Shows |
|---|---|---|---|
| `lifecycle` | 2 owners, 4 hooks | 24 154 | hook protocol, nesting, state matches hooks, termination, refinement of `NestedScopes` |
| `http_runtime` | 1 owner, 3 hooks, 2 requests in flight | 3 020 | requests see only a running application; every exit stops it; no error hides another and the first failing hook is the one named; a stop request ends the run |
| `dev` | 2 source edits, 1 configuration edit | 101 935 | the state machine agrees with the children it has, and leaves none; no edit is lost; Ctrl-C ends the loop; edits get built |
| `publish` | 2 publishers, 2 stamps, 1 power loss | 1 425 266 | what is visible is complete, success is durable where directories can be synchronized, failure is invisible; what is published stays |
| `build` | up to 4 types, the catalogs of `MCApplicationBuild`, rival defaults, 2 held values | 1 270 581 | dependencies found; no collision; cycles reported are real and what is let through can be planned; accepted iff constructible, failures explained |
| `scope` | 3 modules, 4 types, 2 defaults, the programs of `MCModuleScope` | 373 839 | module boundaries hold in what is accepted; nothing required is missing; import graph, scope and second selection are exact |
| `inspection` | one inspection, five kinds of application | 2 060 | a standard answer is never found malformed; nothing outlives the inspection; it returns |
| `web` | the programs and requests of `MCGuardedRequests` | 250 559 | what is validated can be installed; only what the root reaches is served; handlers run authorized; answers say whose fault it was |
| `database` | 1 instance beside `db generate`, `migrate` and `rollback`; 2 migrations; pool of 1 | 293 696 | a started instance is migrated; the pool follows the lifecycle; versions without gaps, migrations that do what they are for; operations return |
| `rules` | the cases of `MCRules` | 254 530 | each rule equals its reference definition |
| `routes_panic`, `watch_lock` | the same instances as `web` and `rules` | - | the two findings of section 6 |

Several properties are conjunctions of named parts, each with a comment of its own: `StateMatchesChildren` (`OneApplication`,
`OneBuild`, `NothingLeftBehind`), `NoEditIsLost` (`NoLostRebuild`, `NoStaleConfiguration`), `PublicationIsAtomic`
(`PublishedIsComplete`, `SuccessIsDurable`, `FailureLeavesNothing`), `PlanningIsSound` (`PlanningNeverPanics`, `CyclesAreReal`),
`BuildIsFaithful` (`AcceptsExactlyBuildable`, `BuiltFromDeclarations`, `FailureIsExplained`), `ScopeIsExact` (`ImportGraphIsExact`,
`ScopeIsLeast`, `SelectionIsStable`), `InstallationIsSound` (`InstallationNeverFails`, `RoutesAreUnambiguous`), `StartIsComplete`
(`StartedMeansMigrated`, `StartFindsItsMigrations`), `HistoryIsConsistent` (`GapsNeedAnOverlap`, `GeneratedReachesDesired`) and
`InspectionIsTruthful` (`InspectionForetellsRun`, `FailuresAreDiagnosed`). The type invariants (`TypeOK`, `DevTypeOK`, ...) are definitions that the
proofs use; no run lists them.

**The bounds and why they are enough.**
- `MaxHooks = 4` with two owners and two levels: a sort with two equal keys, one before and
  one after them, and a failure at the first, a middle and the last position of both directions.
- `MaxInflight = 2`: one request that ends before and one that outlasts the stop.
  One owner, because the order of owners is the business of `lifecycle`.
- `MaxVersion = 2`, `MaxConfig = 1`: an edit during a build, and another during the rebuild it causes, with a
  change of configuration before, between or after; the pending impact keeps only the strongest change, so a third finds the machine in
  a state that was already reached.
- Two publishers: conflicts are pairwise, over one path. Both equal and different stamps are initial
  states. One power loss: the program does nothing after a restart that
  depends on the one before.
- Three types, over which every set of at most two dependencies and one named twice is tried, let two declared ones compete for
  one that is held, missing or defaulted; catalogs of four types have cycles that share a node, diamonds and chains into
  a cycle. `MaxHeld = 2` values held before `build()`.
- Three modules: an import cycle of every length, a shared import, a module below another and one that is not imported.
  Up to four providers: two in different modules that meet at an unowned one, which asks for a fourth; two rivals of one type of which
  a module may see both, one or none. Both defaults may be selected, fail or be skipped.

- `Inspection` has no bound: the state of one inspection is finite, `RunAgain` included.
- `web`: two controllers, two contracts and two methods are what a conflict takes, at paths of at most two segments, where a literal, a capture
  and a capture of another name can meet. Three modules make one that is nested and one that is imported or not.
  One request: requests share nothing but the router.
- `database`: one instance beside the commands, each of which is a session of its own, so that two migrations, or a migration and
  a rollback, overlap. Two migrations give an order, a gap and a highest version. A pool of one connection is exhausted by the
  migration itself or by one closure.
- `rules`: a table with two columns that come, go and change beside its key, and up to four tables with foreign keys for the order of
  drops; 16 seconds of time, whose both ends saturate; two configuration keys in two sources, of either shape; every command line
  of up to four words of a vocabulary of seven; a workspace with a nested package and one beside it.

**Deadlock** is checked in `Lifecycle`, `ApplicationBuild` and `ModuleScope`. The other programs end: a run or a
supervisor returns, an inspection has its result, a request its answer, a rule its question, and an instance whose start was dropped
waits for nothing. Their cfgs switch the check off; the liveness properties, or the
invariants over the returned state, say what an end must look like.

## 4. Fairness

- `Lifecycle`: WF of the step of a call under way. The caller polls the future, and hooks return. A hook
  that hangs is the application's fault and makes `start()` hang in the code too. Nothing is assumed
  of the caller's choice to call, and `DropCall` is not fair.
- `HttpRuntime`: WF of the runtime's own step (tokio polls it; the shutdown file is polled every
  50 ms) and of `Respond` (handlers return: the drain has no timeout in the code). A stop is never
  forced to come.
- `DevSupervisor`: WF of the steps of the loop and of the watch task, SF of the branches of
  `select!`: tokio polls the branches in random order, so a branch that is ready again and again is
  taken. Cargo terminates. Edits stop at `MaxVersion`, which `EditsAreBuilt`
  depends on: the debounce has no upper bound (dev.rs:84), so a file that is written again within every quiet period
  postpones the rebuild for ever. That is listed as a hazard without a property.
- `Inspection`: WF of the CLI's step (it sleeps 25 ms between looks and is not suspended) and of the clock. Nothing is
  assumed of the application, which may hang anywhere: that is what the deadlines are for.
- `Database`: per instance, WF of its session or its start (a blocking closure has a thread of its own; a future that is not
  dropped is polled), of a connection that is free for the one who waits, of the error that a closed pool gives those who wait,
  and of closures that end. Building, serving, stopping, dropping and crashing are left to chance.
- `GuardedRequests`, `MigrationPublish`, `ApplicationBuild`, `ModuleScope` and `MCRules` have safety properties only.

## 5. What is proved

`tlapm` checks every leaf; nothing is assumed except the named assumptions on constants.

**LifecycleProofs** (for every set of owners and every `MaxHooks`; `LateRegistration = FALSE`)
- `TypeCorrect`, `ProtocolKept`, `StateFaithful`, `OrderKept`: the invariants `TypeOK`,
  `HookProtocol`, `StateMatchesHooks`, `EarlierHooksStayUp`.
- None of the last three is inductive: that a stop finds a hook which is up depends on where the loop stands. The
  inductive invariant adds `Numbering` (every registration has a sequence number of its own),
  `CallMatchesState` (which call can be under way in which state) and `Levels`: the hooks that are up
  are exactly the first n of the start order, where n is read off the loop variable.
- `NestedScopesImplemented` (`ImplementsNestedScopes`): the refinement, step by step. When the hooks up are the first n of the
  order (`Levels`), a step on hook n + 1 opens its resource or fails to, a step on hook n closes it, and no other hook is ever
  stepped; registration, sorting, refusals, and a dropped call change no resource.
- `FirstFailureReported` (`ReportsFirstFailure`): invariant `FailureTracked`, what `failure` holds while a loop is under way.

**LifecycleProofs, the HTTP runtime** (for every set of owners, `MaxHooks` and `MaxInflight`; `LateRegistration` may be either, as `run()` registers
nothing after the preflight)
- `RequestsAreServed`, `RunsReturnStopped`, `FailuresReported`: `RequestsSeeRunningApplication`, `ReturnedRunIsStopped`,
  `NoFailureLost`. Each step of the runtime takes a step of the manager or leaves it alone (`ManagerStep`), so the invariants of
  the manager hold along the runtime too; what is added is which phase of `run()` goes with which state and
  call of the manager (`BeforeServing`, `Serving`, `Ending`).

**DatabaseProofs** (for every set of instances, of tables and declarations, and every bound; no instance has the
name of a command's session)
- `PoolFollows` (`PoolFollowsLifecycle`), `StartsAreComplete` (`StartIsComplete`), `HistoryConsistent` (`HistoryIsConsistent`).
- Inductive invariant: `DatabaseTypeOK /\ SessionInv /\ HookInv /\ MigratedInv /\ OrderInv /\ SchemaInv`. `MigratedInv` says that what a
  closure has taken from its list is applied or was reverted since; `OrderInv` says the same of every session without an
  overlap, where nothing is reverted. `SchemaInv` is the idea behind `GeneratedReachesDesired`: whatever the order in which
  versions came and went, a table exists exactly if the applied versions that create it outnumber those that drop
  it by one. So a plan made on a set of versions means the same each time that set is applied again.

**CliProofs, migration publication** (for every set of publishers and stamps and every `MaxPowerLosses`)
- `PublicationAtomic` (`PublicationIsAtomic`) and the action property `PublishedKept` (`PublishedIsKept`).
- Inductive invariant: `PublishTypeOK /\ EntriesInv /\ DiskInv /\ LockInv /\ WrittenInv /\ PublishedInv /\ ReturnInv /\ ReportInv /\ ParentInv`. The clean-up
  removes by path, and with one timestamp two publishers share their paths. While nothing is published under a timestamp, its staging
  path is a lock: the publisher at work is the one whose directory is there (`LockInv`), so what it renames is what it wrote
  and, unless the call was skipped, synchronized (`WrittenInv`). After that, publishers may remove each other's staging directories, and none of them can publish.

**CliProofs, the development supervisor** (for any number of edits and changes of configuration)
- `ChildrenAreKnown` (`StateMatchesChildren`) and `EditsReachTheBuild` (`NoEditIsLost`).
- Inductive invariant: `DevTypeOK /\ ListInv /\ KnownInv /\ NothingLeftBehind /\ NoLostRebuild /\ NoStaleConfiguration`. `ListInv` enumerates what
  the list of pending actions can be, and the situation of the two children that goes with each list (`Settled`, `Starting`,
  `Replacing`, `Leaving`). `NoLostRebuild` and `NoStaleConfiguration` are inductive with the rest: every hop of an edit
  from the watcher's channel to the build keeps it somewhere.

**BuildProofs** (for every set of types, catalogs, defaults and values held)
- `NoCollision` (`InsertionNeverCollides`): no value inserted by an applier or a constructor meets an
  earlier one of its type. The code panics or reports there, and the argument goes across three functions: what
  is held is filtered out of the nodes, a default is selected only for a type that is neither held nor
  declared, rivals for one output are all rejected, and each node is planned once.
- `DependenciesFound` (`ConstructorsFindDependencies`): when a constructor runs, each declared dependency is
  held, selected as a default or earlier in the plan. It rests on `Counting` (the counter of a node is the number of its edges
  to nodes not yet planned, a double edge counted twice) and `Ordered` (the plan lists no node before its dependencies).
- Inductive invariant: `Shape /\ Analysis /\ Yielding /\ Counting /\ Ordered /\ Holding /\ InsertionNeverCollides`.
- `PlanningSound` (`PlanningIsSound`). Invariant `SearchInv`: the frames of the search are the nodes in progress, in an order in which each
  has an edge to the next (`StackInv`), so that an edge to a node in progress closes a path, and the canonical form of a cycle is a
  rotation of it (`Rotated`, `ClosedCycle`). The nodes that are finished have edges only to finished ones, and while no cycle was
  found every set of them has a member without an edge into the set (`Grounded`). A search without cycles ends with all nodes grounded;
  Kahn's ready set can then be empty only when everything is placed (`AllPlaced`), which is the assertion of `plan::create`.
- `BuildFaithful` (`BuildIsFaithful`). A problem among the declarations or a cycle leaves a set of providers none of which can come first
  (`ProblemsBlock`, `CyclesBlock`), and a complete plan is an order of construction (`OrderedIsBuildable`): together `AcceptsExactlyBuildable`.
  `Holding` at the end of the plan gives `BuiltFromDeclarations`. For `FailureIsExplained`, invariant `ExplainInv`: each queued path follows
  edges, and a visited node is queued or has been expanded. A queue that ran dry would leave the failed provider unvisited; of the
  unvisited ones the last in the plan has a consumer, later in the plan, which was visited (`SearchIsComplete`).

**ScopeProofs** (for every set of modules, types, defaults and programs with finitely many modules and providers)
- `BoundariesKept` (`BoundariesRespected`): the selection checks an access one edge at a time and carries the requesting module
  through providers that no module owns. The invariant `SelectionInv` says that every item is a declared provider in a
  context that is its owner, if it has one (`Sound`), that what a processed item may use has been queued or
  processed (`Followed`), and that nothing is selected before its phase (`Quiet`). In an accepted program nothing was refused and no
  two providers in scope have one type, so the set of providers that were processed or are allowed in the context of a module
  is closed under the steps of `Carried`, and every carried provider is allowed.
- `RequirementsMet` (`AcceptedIsComplete`): with no refusal and no failed default the covered requirements are empty, so
  each dependency outside the graph would have been reported.
- `ScopeExact` (`ScopeIsExact`), in three parts.
  - `GraphExact`, invariant `GraphInv`: the frames of the traversal are distinct modules, each at the import that the next frame is of
    (`Stacked`); the modules left import only modules left, in no cycle (`Left`); the edges are exactly the imports handled, each once
    (`Recorded`). An import of a module on the stack gives a set of modules in which each imports another (`CycleRefutes`); a
    traversal that ends has a closed, well-founded set of sound modules with the root in it, which is the closure (`TraversalCompletes`).
  - `SelectionLeast`, invariants `Began` and `Required`: no smaller set of items has those of the owned providers and what the items done
    require. So at its end the selection is the least closed set of items (`IsSelection`).
  - `SelectionStable`, invariant `Remembered`: a default is selected only for a type that no provider of the first selection has, so
    that making it available removes nothing from the items the first selection started at or went through (`AvailableAnyway`). The
    first selection is therefore the least closed set of the second too, and there is one (`OneSelection`).
- `ContextsAreKnown` (`ScopeTypeOK`): every context an item carries is a node of the module graph, which is what `boundary_error()` expects
  of it ("provider work context is always a reachable module", scope.rs:246).

**RequestProofs** (for every program, every token and every request)
- Assumed of a program is that it compiles and links (`ApplicationsAssumption`): a contract that a controller implements is there
  and found by its name, a controller is itself a managed provider of its own module path (its macro submits both descriptors), and
  a trait has no two active methods of one name. Assumed of a token is that its verification has one of three outcomes
  (`TokensAssumption`), of a request that its headers and cookies are lists (`RequestsAssumption`).
- `ValidatedCanBeInstalled` (`InstallationIsSound`). What has to be shown is that three passes over the same declarations agree:
  what the macro accepts is what the validation accepts (`AcceptedIsValid`, which reasons about the join of two paths),
  each registrar meets its list position by position (`RegistrarMeetsItsList`), and every guard it installs is one the preflight has
  bound in the same context (`GuardBound`). Shapes are kept apart by the keys in `seen_routes` (`KeysKeepShapesApart`).
- `RootedServesItsReach` (`OnlyReachableIsServed`). Routes are selected by an identity that does not name the contract, so a route
  out of reach could pass for one of the same method, path and name in reach. `SelectedAtItsPosition` shows that it cannot: two
  such routes of one controller would have had one key, and the validation refuses them.
- `OnlyAuthorizedAreHandled` (`HandlersRunAuthorized`) and `AnswersBlameTheRightSide` (`AnswersFollowCause`): invariant `RequestInv`,
  what the layer has established at each stage and with each answer, on top of the invariant of the router, which ties the binding
  in the layer to the attributes of the method and its trait (`RouteOfRequest`).
- Inductive invariant: `AppInv /\ ScopeInv /\ BindingsInv /\ ValidatedInv /\ RouterInv`, and `RequestInv` for the request. The module also
  proves what `FlattenSeq` returns (`Flattened`): its recursive function has a solution, by a minimal counterexample
  on the length of the list.

**SchemaProofs** (for every database, every desired schema and every set of foreign keys; there are no cases here)
- `UpLists`: a plan lists exactly the operations that the difference asks for, each once: a creation or drop for each table of one side,
  and for each table of both an addition, removal, change of type and change of nullability per column. The
  plan is six passes over sorted names, filtered columns and `FlattenSeq`; `Lists(s, S)` says that a sequence lists a set without repetition, and each
  pass is shown to (`PassLists`). Drops come children first (`DropOrderHas`).
- `PlansExact` (stated by `Exact`): `up.sql` succeeds exactly if each type change has a cast (`Castless` is the set of those that have none). Then planning
  again plans nothing, other namespaces are untouched, and `down.sql` succeeds after it and restores the shape exactly if the casts exist the other
  way too (`InverseCastless`). Every type change is among the warnings (`RetypedWarned`), so what can fail has been announced. Assumed are a database with finitely many tables whose columns have different names
  (`DatabaseOK`) and hold what PostgreSQL can hold (`Held`), a desired schema it stores as it is declared (`Settled`), references only to
  tables that are there, that the planner accepts (`PlanAccepted`), and that nothing depends on a column which is dropped or takes another type (`Independent`). The invariant of the run is `Reached(.., D, ..)`: which tables
  there are and what each of their columns is when exactly the operations of the set D are done. Each kind of operation takes `Reached`
  from D to D with that operation (`ForwardStep`) and its inverse takes it back (`BackwardStep`), in whatever order the others are
  done; only drops need an order. At D = {} this is the captured database (`NothingDone`), at the whole plan the desired one (`EverythingDone`).
- `PlanWarns` (stated by `Warned`): a table and column that no operation names is as it was (`StatesUntouched`), what an operation names is warned of, and a
  column that is gone, with its table or alone, or is of another type afterwards has the warning of its own step.
- `DesiredOK`: source files that are loaded make such a schema, `StorableSettled`: a declaration that is stored as it is declared is settled.
- The recursive functions behind `FlattenSeq`, `DropOrder` and `Run` are unfolded by showing that their equations have solutions, by a minimal
  counterexample (`LeastExists`), since the provers have no induction over operators.

**RulesProofs** (the rules, in general where they have parameters, and then for the cases of `MCRules`)
- `MigrationsExact` (`MigrationsAreExact`) and `LossesWarned` (`LossesAreWarned`): every case of `DiffCases` is files and a database that
  `SchemaProofs` speaks of (`DiffCaseOK`).
- `TokensSurviveRotation`, for any two configurations, token, lifetime, skew and clock of `JwtTokens`: a token is accepted exactly when the ring still has
  its key, of the same algorithm and under its key id, in its window of time, with its kind, issuer and audience. `RotationsKeepTokens` (`RotationKeepsTokens`) is
  this of the cases, for every clock that reaches the times they name (`MaxSeconds >= 10`).
- `LastSourcesWin` (`LaterSourcesWin`): the configuration is the fold over the two standard sources, which `FoldOfTwoExists` unfolds; for any
  files and environment a key has the value of the last source that sets it, with its variables replaced.
- `InspectionForetells` and `InspectionsAreTruthful` (`InspectionIsTruthful`), for any application, files and environment: `RowsAndDiagnostics` and the
  lemmas beside it follow each of the four defaults from its settings to its row and its diagnostic.
- `InspectionInvariance`: the inductive invariant `InspectionInv` of the inspection protocol. It has what each step of the command implies about the child
  and the two files, and that an empty directory has none of them (`CliSteps`); what a program which follows the protocol has
  written at each of its steps (`StandardFiles`); and `StandardAnswerIsAccepted`. From it `StandardAnswersAccepted` (`StandardAnswerIsAccepted`), `InspectionsLeaveNothing` (`NothingOutlivesInspection`), and
  `ReportsAreEarned`.
- `LinesParse` and `LinesAccepted`, for any command and any line of words: what is accepted is pairs of a selector and a value, each selector at
  most once, up to the end or, for `run` and `dev`, to a `--`, after which everything is the application's. The parser is a fold; `ParsedInSteps` gives its state after each word, and
  `ReadTo` is the invariant of that state. `CommandsReachTargets` (`CommandReachesItsTarget`) adds the selection (`OneMember`, `OneTarget`), Cargo's
  messages (`CollectedInSteps`, `BuildsMake`) and the exit code (`OutcomeOfCase`). It is proved of lines of any length
  in the words of the cases.
- `ReachableIsNeeded`, for any project with finitely many packages, cycles among them included: the packages that are reached are the least set that has the
  selected one and whatever its members depend on. The invariant of the fold, `Reaching`, counts: a round that is not closed yet has found one package more.
- `ChangesAreClassified`, for any such workspace in which packages differ in their roots, and any file of it: a build for exactly what `BuildReads`, a restart for
  `mads.toml`, and all of that is reported by the directories watched. `OwnersDecide` shows that the deepest root above a file is found, and that
  excluding the packages which are not needed is excluding what belongs to them. `WatchesFollowBuilds` (`WatchFollowsBuild`) is this of the cases. Roots and files
  are sequences of the names in the cases, of any length.

**Only model-checked**
- Liveness under fairness, which is out of the prover's reach: `CallsComplete`, `StopEndsRun`, `CtrlCEnds`, `EditsAreBuilt`,
  `InspectionReturns`, `OperationsReturn`.
- That the cases of `MCRules` are enough to tell a wrong rule from the right one: this is what TLC is for there.

## 6. Where the code and its documents differ

With a run:
1. `routes_panic`: `GET /users/:id` and `DELETE /users/:user_id` pass the validation, whose key has the method in it (route.rs:786), and Axum,
   which does not allow two names for one capture position, panics while the router is built. The rustdoc of `build_router` promises
   an error before any route is installed (router.rs:28-31).
2. `watch_lock`: when the package in the workspace root is not a dependency of the selected one, it owns the workspace's `Cargo.toml`
   and `Cargo.lock` and `classify()` ignores them (watch.rs:98); docs/CLI.md:61 lists both in the watch set. `WatchFollowsBuild` excepts these two files of
   such a root.

Without a run, met while modelling; the properties are stated so as to be true of the code:

3. builder.rs:338 promises shutdown "in reverse registration order"; `start()` sorts the registrations first, so shutdown follows
   the reverse of the start order (`EarlierHooksStayUp`).
4. lifecycle.rs:156 promises "reverse successful startup order"; a hook added to a running manager is
   stopped without having been started. `MadsApplication` gives no access to do so, the exported `LifecycleManager` does (`LateRegistration`).
5. docs/CLI.md:68 says a configuration change restarts the existing build; one that arrives during a build
   is forgotten when that build fails (dev_state.rs:118). A unit test pins this choice. `NoStaleConfiguration` excepts it by the variable `failed`.
6. A child that publishes its report and exits between the CLI's look for the file and its look for the child is refused as
   having exited (mads-cli/src/inspection.rs:187-213), though its report is there. `StandardAnswerIsAccepted` is about the contents of
   an answer and not about this.
7. A declared bare `char`, an array of arrays and a nullable column of a primary key are stored by PostgreSQL as something else, so that
   `db generate` plans the same change again each time. docs/CLI.md:160 limits what is synthesized; `Storable` excepts them.
8. A table that another, undeclared namespace refers to is planned for removal, and its drop fails when the migration is applied: the
   catalog of other namespaces is not read (`ForeignToPlan`).
9. An application without routes passes `mads doctor`, and `Mads::run` refuses it (MADS031); `InspectionForetellsRun` is about the others.
   `database.migrate = true` can be fulfilled only by a program with its own entry point, as `Mads::run` embeds no migrations; doctor says so too.
10. Every path with a component `target` is ignored by the watch set, a source directory of that name included (watch.rs:219).

## 7. What is not modelled, and why

- Bytes and wording: diagnostics are sets of codes with the type they concern; SQL text, reports, tables, log lines, error envelopes and
  error texts are left out. A consequence: two types of one name, whose cycles the code reports once (cycle.rs:26), are not told apart.
- Macros and generated code, apart from what a generated constructor does, the HTTP attributes and their registrars.
- The cookies of a response (cookie.rs): header text, with no state between requests. The extractors of handler arguments, and the
  `PassportGuard` that a hand-written Axum route builds (guard.rs:461-838): it has no descriptor, no scope and no preflight.
- In `SchemaDiff`: rows, and so casts that fail on a value and `SET NOT NULL` or `ADD COLUMN` that fail on rows; views, generated columns and
  whatever else may depend on a column; the types are eight bases, which have all the kinds of cast: none, one way, both ways, by way of text.
- Key files, PEM and signatures in `JwtTokens`; TOML, dotenv and URL syntax in `Settings`; Cargo's own resolution in `CommandLine`.
- In `DevSupervisor`: the 3 s between the graceful and the forced stop of the child (one step with both outcomes), Ctrl-C
  before the first `select!`. What an event's paths mean is `CommandLine`'s; here it arrives as its impact.
- In `ModuleScope`: the ownership records kept for reports, the read-only snapshot (`graph/inspection.rs`), the check of
  namespaces in a build without a root, and the cycles of providers, which `ApplicationBuild` has. `ApplicationBuild` takes any
  catalog, so those enumerated stand for what a selection leaves as well; the two are not composed.
- In `MigrationPublish`: the entry of a new `migrations/` in the project root is never synced by the code; `SuccessIsDurable`
  excludes behaviours that lost it (variable `lost`) and the hazard list names it. What a skipped synchronization
  (variable `skipped`) leaves after a power loss is not promised either: of such a publisher only that its migration is there and
  complete while the power stays, and that no file of another appears in it.
- In `Database`: columns and data; migrations written by hand; two databases; `db status`, which only reads. The other hooks of
  an application appear as the outcome of its start (`LaterHooksStart`, `Stop`).
- In `GuardedRequests`: bodies, extractors and Axum's choice among routes, except that it has exactly one route to choose.

## 8. Plan

The model covers what the code keeps state for, and every safety property of a state machine with constants is proved, as are the
rules of `MCRules`. What is left is the hand-over from `ModuleScope` to `ApplicationBuild`: that the declarations in scope of an
accepted program are a catalog as `CatalogsAssumption` has it, so that the theorems about `build()` hold of them.
