--------------------------- MODULE DevSupervisor ---------------------------
(***************************************************************************)
(* `mads dev`: the watch task, its two channels, the event loop, the       *)
(* Cargo child and the application child (dev.rs, watch.rs, cargo.rs,      *)
(* process.rs) around the state machine of DevState.                       *)
(*                                                                         *)
(* The loop executes the pending actions one after the other, then waits   *)
(* in tokio::select! for a stop, a change, the build or a process check.   *)
(* Edits, watch events, Cargo and the application go on meanwhile.         *)
(***************************************************************************)
EXTENDS DevState

VARIABLES
  source,       \* version of the files a rebuild reads
  config,       \* version of .env and mads.toml
  events,       \* notify events not yet received by next_change()
  impact,       \* next_change(): impact gathered since the last quiet period
  changes,      \* the channel from the watch task to the loop
  build,        \* the BuildTask, if any
  attempted,    \* newest source version a build has read, or been refused for
  application,  \* ProductionDevDriver.application
  interrupted,  \* Ctrl-C was received
  failed,       \* history: a build has failed since the application was started
  loop          \* the event loop: running, failing, or how it returned

worldVars == <<source, config, events, impact, changes>>
devVars == <<stateVars, worldVars, build, attempted, application, interrupted, failed,
             loop>>

NoTask == [kind |-> "none"]
CargoReading == [kind |-> "reading"]              \* CargoBuild, sources not yet read
CargoCompiling(v) == [kind |-> "compiling", version |-> v]
FailedBuild == [kind |-> "failed"]                \* FailedBuild: Cargo was not spawned
BuildTask == {NoTask, CargoReading, FailedBuild} \cup {CargoCompiling(v) : v \in Version}

NoApplication == [kind |-> "none"]
Running(v, c) == [kind |-> "running", version |-> v, config |-> c]
Exited == [kind |-> "exited"]                     \* ended, and not yet waited for
Application == {NoApplication, Exited} \cup {Running(v, c) : v, c \in Version}

Loops == {"running", "failing", "ok", "error"}

DevInit ==
  /\ StateInit
  /\ source = 0
  /\ config = 0
  /\ events = <<>>
  /\ impact = "None"
  /\ changes = <<>>
  /\ build = NoTask
  /\ attempted = NoBuild
  /\ application = NoApplication
  /\ interrupted = FALSE
  /\ failed = FALSE
  /\ loop = "running"

-----------------------------------------------------------------------------
(***************************************************************************)
(* The world: edits, seen by the watcher as one event each.                *)
(***************************************************************************)
EditSource ==
  /\ source < MaxVersion
  /\ source' = source + 1
  /\ events' = Append(events, "Rebuild")
  /\ UNCHANGED <<stateVars, config, impact, changes, build, attempted, application,
                 interrupted, failed, loop>>

EditConfig ==
  /\ config < MaxConfig
  /\ config' = config + 1
  /\ events' = Append(events, "Restart")
  /\ UNCHANGED <<stateVars, source, impact, changes, build, attempted, application,
                 interrupted, failed, loop>>

WatcherFails ==
  /\ ~ \E i \in DOMAIN events : events[i] = "Error"
  /\ ~ \E i \in DOMAIN changes : changes[i] = "Error"
  /\ loop = "running"
  /\ events' = Append(events, "Error")
  /\ UNCHANGED <<stateVars, source, config, impact, changes, build, attempted,
                 application, interrupted, failed, loop>>

CtrlC ==
  /\ ~interrupted
  /\ loop = "running"
  /\ interrupted' = TRUE
  /\ UNCHANGED <<stateVars, worldVars, build, attempted, application, failed, loop>>

ApplicationExits ==
  /\ application.kind = "running"
  /\ application' = Exited
  /\ UNCHANGED <<stateVars, worldVars, build, attempted, interrupted, failed, loop>>

CargoReads ==
  /\ build = CargoReading
  /\ build' = CargoCompiling(source)
  /\ attempted' = source
  /\ UNCHANGED <<stateVars, worldVars, application, interrupted, failed, loop>>

(***************************************************************************)
(* The watch task: next_change() gathers impacts until 150 ms pass without *)
(* one, then sends their merge; it ends by sending the watcher's error. An *)
(* event classified as ChangeImpact::None leaves no trace in it.           *)
(***************************************************************************)
Gather ==
  /\ loop = "running"
  /\ events # <<>>
  /\ Head(events) # "Error"
  /\ impact' = Merge(impact, Head(events))
  /\ events' = Tail(events)
  /\ UNCHANGED <<stateVars, source, config, changes, build, attempted, application,
                 interrupted, failed, loop>>

QuietPeriod ==
  /\ loop = "running"
  /\ impact # "None"
  /\ changes' = Append(changes, impact)
  /\ impact' = "None"
  /\ UNCHANGED <<stateVars, source, config, events, build, attempted, application,
                 interrupted, failed, loop>>

WatchTaskEnds ==
  /\ loop = "running"
  /\ events # <<>>
  /\ Head(events) = "Error"
  /\ changes' = Append(changes, "Error")
  /\ events' = Tail(events)
  /\ impact' = "None"
  /\ UNCHANGED <<stateVars, source, config, build, attempted, application, interrupted, failed,
                 loop>>

(***************************************************************************)
(* execute_actions(): each takes the first action; an error leaves the     *)
(* loop with the remaining actions dropped.                                *)
(***************************************************************************)
Executing(kind) ==
  /\ loop = "running"
  /\ actions # <<>>
  /\ Head(actions).kind = kind

Executed == actions' = Tail(actions)

decidedVars == <<last_successful, application_running, build_running, pending, shutting_down>>

ExecuteBuild ==
  /\ Executing("Build")
  /\ \/ build' = CargoReading /\ UNCHANGED attempted
     \/ build' = FailedBuild /\ attempted' = source
  /\ Executed
  /\ UNCHANGED <<decidedVars, worldVars, application, interrupted, failed, loop>>

ExecuteStart ==
  /\ Executing("Start")
  /\ application.kind = "none"
  /\ application' = Running(Head(actions).built, config)
  /\ failed' = FALSE
  /\ Executed
  /\ UNCHANGED <<decidedVars, worldVars, build, attempted, interrupted, loop>>

StartRefused ==
  /\ Executing("Start")
  /\ actions' = <<>>
  /\ loop' = "failing"
  /\ UNCHANGED <<decidedVars, worldVars, build, attempted, application, interrupted, failed>>

ExecuteStop ==
  /\ Executing("Stop")
  /\ application' = NoApplication
  /\ Executed
  /\ UNCHANGED <<decidedVars, worldVars, build, attempted, interrupted, failed, loop>>

ExecuteRestart ==
  /\ Executing("Restart")
  /\ application' = NoApplication
  /\ actions' = <<StartOf(Head(actions).built)>> \o Tail(actions)
  /\ UNCHANGED <<decidedVars, worldVars, build, attempted, interrupted, failed, loop>>

StopFails ==
  /\ Executing("Stop") \/ Executing("Restart")
  /\ application.kind # "none"
  /\ application' = NoApplication
  /\ actions' = <<>>
  /\ loop' = "failing"
  /\ UNCHANGED <<decidedVars, worldVars, build, attempted, interrupted, failed>>

ExecuteExit ==
  /\ Executing("Exit")
  /\ actions' = <<>>
  /\ loop' = "ok"
  /\ UNCHANGED <<decidedVars, worldVars, build, attempted, application, interrupted, failed>>

(***************************************************************************)
(* tokio::select!, reached when every action is executed.                  *)
(***************************************************************************)
Selecting == loop = "running" /\ actions = <<>>

SelectShutdown ==
  /\ Selecting
  /\ interrupted
  /\ \/ /\ build' = NoTask
        /\ Transition(HandleShutdown, TRUE)
        /\ UNCHANGED loop
     \/ /\ build.kind \notin {"none", "failed"}
        /\ build' = NoTask
        /\ loop' = "failing"
        /\ UNCHANGED stateVars
  /\ UNCHANGED <<worldVars, attempted, application, interrupted, failed>>

SelectChange ==
  /\ Selecting
  /\ changes # <<>>
  /\ changes' = Tail(changes)
  /\ IF Head(changes) = "Error"
       THEN loop' = "failing" /\ UNCHANGED stateVars
       ELSE Transition(HandleChange(Head(changes)), FALSE) /\ UNCHANGED loop
  /\ UNCHANGED <<source, config, events, impact, build, attempted, application, interrupted, failed>>

SelectBuildSucceeded ==
  /\ Selecting
  /\ build.kind = "compiling"
  /\ build' = NoTask
  /\ Transition(HandleBuildSucceeded(build.version), FALSE)
  /\ UNCHANGED <<worldVars, attempted, application, interrupted, failed, loop>>

SelectBuildFailed ==
  /\ Selecting
  /\ build.kind \in {"compiling", "failed"}
  /\ build' = NoTask
  /\ \/ /\ Transition(HandleBuildFailed, FALSE)
        /\ failed' = TRUE
        /\ UNCHANGED loop
     \/ build.kind = "compiling" /\ loop' = "failing" /\ UNCHANGED <<stateVars, failed>>
  /\ UNCHANGED <<worldVars, attempted, application, interrupted>>

SelectProcessCheck ==
  /\ Selecting
  /\ application.kind = "exited"
  /\ application' = NoApplication
  /\ Transition(HandleApplicationExited, FALSE)
  /\ UNCHANGED <<worldVars, build, attempted, interrupted, failed, loop>>

ProcessCheckFails ==
  /\ Selecting
  /\ application.kind # "none"
  /\ loop' = "failing"
  /\ UNCHANGED <<stateVars, worldVars, build, attempted, application, interrupted, failed>>

(***************************************************************************)
(* After a loop that ended with an error.                                  *)
(***************************************************************************)
CleanUp ==
  /\ loop = "failing"
  /\ build' = NoTask
  /\ application' = NoApplication
  /\ loop' = "error"
  /\ UNCHANGED <<stateVars, worldVars, attempted, interrupted, failed>>

-----------------------------------------------------------------------------
World == EditSource \/ EditConfig \/ WatcherFails \/ CtrlC \/ ApplicationExits
WatchTask == Gather \/ QuietPeriod \/ WatchTaskEnds
Execute ==
  \/ ExecuteBuild \/ ExecuteStart \/ StartRefused \/ ExecuteStop \/ ExecuteRestart
  \/ StopFails \/ ExecuteExit
SelectBuild == SelectBuildSucceeded \/ SelectBuildFailed

DevNext ==
  \/ World \/ CargoReads \/ WatchTask \/ Execute
  \/ SelectShutdown \/ SelectChange \/ SelectBuild \/ SelectProcessCheck
  \/ ProcessCheckFails \/ CleanUp

(***************************************************************************)
(* Fairness: the watch task and the actions make progress (stop() forces   *)
(* an end after 3 s), Cargo ends, and select! polls its branches in random *)
(* order, so that none is passed over for ever.                            *)
(***************************************************************************)
DevFairness ==
  /\ WF_devVars(WatchTask)
  /\ WF_devVars(CargoReads)
  /\ WF_devVars(Execute)
  /\ WF_devVars(CleanUp)
  /\ SF_devVars(SelectShutdown)
  /\ SF_devVars(SelectChange)
  /\ SF_devVars(SelectBuild)
  /\ SF_devVars(SelectProcessCheck)

DevSpec == DevInit /\ [][DevNext]_devVars /\ DevFairness

-----------------------------------------------------------------------------
\* The state machine, the channels, the children and the loop keep their types.
DevTypeOK ==
  /\ DevStateTypeOK
  /\ source \in Version
  /\ config \in Version
  /\ events \in Seq({"Restart", "Rebuild", "Error"})
  /\ impact \in Impacts
  /\ changes \in Seq({"Restart", "Rebuild", "Error"})
  /\ build \in BuildTask
  /\ attempted \in Version \cup {NoBuild}
  /\ application \in Application
  /\ interrupted \in BOOLEAN /\ failed \in BOOLEAN
  /\ loop \in Loops

Moves(action) == action.kind \in {"Start", "Stop", "Restart"}

\* Whether a child process will be there once the first n actions are executed.
PresentAfter(n) ==
  \/ /\ \A j \in DOMAIN actions : j <= n => ~Moves(actions[j])
     /\ application.kind # "none"
  \/ \E j \in DOMAIN actions :
       /\ j <= n
       /\ actions[j].kind \in {"Start", "Restart"}
       /\ \A k \in DOMAIN actions : j < k /\ k <= n => ~Moves(actions[k])

\* What DevState believes of the application is what the driver holds once the
\* pending actions are executed, and no Start among them meets a process: the
\* error "attempted to start a second application process" is unreachable.
OneApplication ==
  loop = "running" =>
    /\ application_running = PresentAfter(Len(actions))
    /\ \A j \in DOMAIN actions : actions[j].kind = "Start" => ~PresentAfter(j - 1)

\* A build is asked for only when none runs (the debug_assert of
\* execute_actions), and DevState knows of a build exactly while there is one.
OneBuild ==
  loop = "running" =>
    LET asked == {j \in DOMAIN actions : actions[j].kind = "Build"} IN
    /\ asked # {} => build = NoTask
    /\ build_running = (asked # {} \/ build # NoTask)

\* However the loop returns, no application and no Cargo child is left.
NothingLeftBehind ==
  loop \in {"ok", "error"} => application = NoApplication /\ build = NoTask

\* The state machine and the driver agree on both children: at most one
\* application and one build, each known exactly while it is there, and none
\* left once the supervisor has returned.
StateMatchesChildren == OneApplication /\ OneBuild /\ NothingLeftBehind

Awaited(wanted) ==
  \/ \E i \in DOMAIN events : events[i] \in wanted
  \/ impact \in wanted
  \/ \E i \in DOMAIN changes : changes[i] \in wanted
  \/ pending \in wanted

WatchBroken ==
  \/ \E i \in DOMAIN events : events[i] = "Error"
  \/ \E i \in DOMAIN changes : changes[i] = "Error"

\* No source edit is lost: while a version has not been tried, something that
\* will try it is on its way through the watcher, the channel, DevState or
\* Cargo, whatever is built, started, stopped or failing meanwhile.
NoLostRebuild ==
  loop = "running" /\ ~shutting_down /\ ~WatchBroken /\ attempted # source =>
    \/ Awaited({"Rebuild"})
    \/ build = CargoReading
    \/ \E j \in DOMAIN actions : actions[j].kind = "Build"

\* A configuration edit reaches the application: one that runs with an older
\* configuration is about to be replaced, or a build has failed since it was
\* started, which is the only way to lose the restart. "A change to the selected package's
\* `mads.toml` or `.env` restarts the existing build."
NoStaleConfiguration ==
  /\ loop = "running" /\ ~shutting_down /\ ~WatchBroken
  /\ application.kind = "running" /\ application.config # config
  /\ ~failed
  => \/ Awaited({"Restart", "Rebuild"})
     \/ build # NoTask
     \/ \E j \in DOMAIN actions : actions[j].kind \in {"Start", "Restart", "Build"}

\* Ctrl-C ends the supervisor, whatever it is doing.
CtrlCEnds == interrupted ~> loop \in {"ok", "error"}

\* Once edits stop, the sources as they are get built (or the loop ends).
EditsAreBuilt == attempted # source ~> attempted = source \/ loop # "running"

\* No edit is lost on its way to the application, of the sources or of the
\* configuration, except the restart that a failed build discards.
NoEditIsLost == NoLostRebuild /\ NoStaleConfiguration

=============================================================================
