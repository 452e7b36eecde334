----------------------------- MODULE HttpRuntime -----------------------------
(***************************************************************************)
(* The HTTP runtime of mads-common around the lifecycle of one application *)
(* (server.rs): preflight, start the hooks, bind, serve until a stop is    *)
(* requested, drain, stop the hooks, and combine the errors met.           *)
(*                                                                         *)
(* Stops are requested by Ctrl-C or, under `mads dev`, by a shutdown file. *)
(* The file stays: it may be there long before the server looks at it. A   *)
(* Ctrl-C is caught only once the server has polled shutdown_signal(); in  *)
(* an earlier phase it ends the process.                                   *)
(***************************************************************************)
EXTENDS Lifecycle

CONSTANT MaxInflight   \* bound: requests being handled at the same time

ASSUME MaxInflightAssumption == MaxInflight \in Nat \ {0}

VARIABLES
  phase,      \* how far run() or serve() has come
  listening,  \* the TcpListener is bound and accepting
  inflight,   \* requests accepted and not yet answered
  stopping,   \* a stop has been requested
  operation,  \* how bind and serve ended: the `operation` given to finish()
  outcome     \* what run() or serve() returned

runtimeVars == <<phase, listening, inflight, stopping, operation, outcome>>

allVars == <<lifecycleVars, runtimeVars>>

Phases == {"preparing", "starting", "binding", "serving", "draining",
           "finishing", "returned", "killed"}
Operations == {"pending", "ok", "bind", "serve"}
Outcomes == {"none", "ok", "bootstrap", "lifecycle", "bind", "serve",
             "operation_and_shutdown"}

RuntimeInit ==
  /\ Init
  /\ phase = "preparing"
  /\ listening = FALSE
  /\ inflight = 0
  /\ stopping = FALSE
  /\ operation = "pending"
  /\ outcome = "none"

(***************************************************************************)
(* Preparation: hooks are registered while the application is built; the   *)
(* build, the route scope, the router or the binding may be refused.       *)
(***************************************************************************)
Prepare ==
  /\ phase = "preparing"
  /\ AddHook \/ AddInfrastructureHook
  /\ UNCHANGED runtimeVars

PreflightFails ==
  /\ phase = "preparing"
  /\ phase' = "returned"
  /\ outcome' = "bootstrap"
  /\ UNCHANGED <<lifecycleVars, listening, inflight, stopping, operation>>

PreflightSucceeds ==
  /\ phase = "preparing"
  /\ Start
  /\ phase' = "starting"
  /\ UNCHANGED <<listening, inflight, stopping, operation, outcome>>

(***************************************************************************)
(* application.start(): a failure is returned as it is, after its rollback *)
(* and without a call to shutdown().                                       *)
(***************************************************************************)
StartApplication ==
  /\ phase = "starting"
  /\ StartHook \/ StartHookFails \/ RollbackHook
  /\ UNCHANGED runtimeVars

StartFailed ==
  /\ phase = "starting"
  /\ RollbackDone
  /\ phase' = "returned"
  /\ outcome' = "lifecycle"
  /\ UNCHANGED <<listening, inflight, stopping, operation>>

ApplicationStarted ==
  /\ phase = "starting"
  /\ StartDone
  /\ phase' = "binding"
  /\ UNCHANGED <<listening, inflight, stopping, operation, outcome>>

(***************************************************************************)
(* The listener, and axum::serve with its graceful shutdown: the listener  *)
(* is closed first, then the accepted requests are waited for.             *)
(***************************************************************************)
Bind ==
  /\ phase = "binding"
  /\ phase' = "serving"
  /\ listening' = TRUE
  /\ UNCHANGED <<lifecycleVars, inflight, stopping, operation, outcome>>

\* Seeded fault: a bind error is returned with `?`.
BindFailsWithoutFinish ==
  /\ phase = "binding"
  /\ phase' = "returned"
  /\ outcome' = "bind"
  /\ operation' = "bind"
  /\ UNCHANGED <<lifecycleVars, listening, inflight, stopping>>

BindFails ==
  /\ phase = "binding"
  /\ Shutdown
  /\ phase' = "finishing"
  /\ operation' = "bind"
  /\ UNCHANGED <<listening, inflight, stopping, outcome>>

Accept ==
  /\ listening
  /\ inflight < MaxInflight
  /\ inflight' = inflight + 1
  /\ UNCHANGED <<lifecycleVars, phase, listening, stopping, operation, outcome>>

Respond ==
  /\ inflight > 0
  /\ phase # "killed"
  /\ inflight' = inflight - 1
  /\ UNCHANGED <<lifecycleVars, phase, listening, stopping, operation, outcome>>

RequestStop ==
  /\ phase \notin {"returned", "killed"}
  /\ ~stopping
  /\ stopping' = TRUE
  /\ UNCHANGED <<lifecycleVars, phase, listening, inflight, operation, outcome>>

\* Seeded fault: serving ends on the signal, without waiting for requests.
ShutdownSignalAborts ==
  /\ phase = "serving"
  /\ stopping
  /\ Shutdown
  /\ phase' = "finishing"
  /\ operation' = "ok"
  /\ listening' = FALSE
  /\ UNCHANGED <<inflight, stopping, outcome>>

\* Seeded fault: requests are drained with the listener still accepting.
ShutdownSignalKeepsListening ==
  /\ phase = "serving"
  /\ stopping
  /\ phase' = "draining"
  /\ UNCHANGED <<lifecycleVars, listening, inflight, stopping, operation, outcome>>

ShutdownSignal ==
  /\ phase = "serving"
  /\ stopping
  /\ phase' = "draining"
  /\ listening' = FALSE
  /\ UNCHANGED <<lifecycleVars, inflight, stopping, operation, outcome>>

Drained ==
  /\ phase = "draining"
  /\ inflight = 0
  /\ Shutdown
  /\ phase' = "finishing"
  /\ operation' = "ok"
  /\ UNCHANGED <<listening, inflight, stopping, outcome>>

ServeFails ==
  /\ phase = "serving"
  /\ Shutdown
  /\ phase' = "finishing"
  /\ operation' = "serve"
  /\ listening' = FALSE
  /\ UNCHANGED <<inflight, stopping, outcome>>

(***************************************************************************)
(* finish(): stop the hooks whatever the operation was, then combine.      *)
(***************************************************************************)
StopApplication ==
  /\ phase = "finishing"
  /\ ShutdownHook
  /\ UNCHANGED runtimeVars

\* Seeded fault: the shutdown error replaces the operation's.
FinishDropsOperation ==
  /\ phase = "finishing"
  /\ ShutdownDone
  /\ phase' = "returned"
  /\ outcome' = IF result' = "ok" THEN operation ELSE "lifecycle"
  /\ UNCHANGED <<listening, inflight, stopping, operation>>

Finish ==
  /\ phase = "finishing"
  /\ ShutdownDone
  /\ phase' = "returned"
  /\ outcome' = CASE operation = "ok" /\ result' = "ok" -> "ok"
                  [] operation = "ok" /\ result' # "ok" -> "lifecycle"
                  [] operation # "ok" /\ result' = "ok" -> operation
                  [] operation # "ok" /\ result' # "ok" -> "operation_and_shutdown"
  /\ UNCHANGED <<listening, inflight, stopping, operation>>

(***************************************************************************)
(* Ctrl-C before shutdown_signal() is first polled: the default action.    *)
(***************************************************************************)
CtrlCTooEarly ==
  /\ phase \in {"preparing", "starting", "binding"}
  /\ phase' = "killed"
  /\ stopping' = TRUE
  /\ UNCHANGED <<lifecycleVars, listening, inflight, operation, outcome>>

-----------------------------------------------------------------------------
RuntimeStep ==
  \/ PreflightFails \/ PreflightSucceeds
  \/ StartApplication \/ StartFailed \/ ApplicationStarted
  \/ Bind \/ BindFails
  \/ ShutdownSignal \/ Drained
  \/ StopApplication \/ Finish

RuntimeNext ==
  \/ Prepare \/ RuntimeStep \/ Accept \/ Respond \/ RequestStop
  \/ ServeFails \/ CtrlCTooEarly

(***************************************************************************)
(* Fairness: the runtime's task is polled, the file is polled every 50 ms, *)
(* and the handler of an accepted request returns.                         *)
(***************************************************************************)
RuntimeFairness == WF_allVars(RuntimeStep) /\ WF_allVars(Respond)

RuntimeSpec == RuntimeInit /\ [][RuntimeNext]_allVars /\ RuntimeFairness

-----------------------------------------------------------------------------
\* The runtime's state and outcomes are those the code can represent.
RuntimeTypeOK ==
  /\ TypeOK
  /\ phase \in Phases
  /\ listening \in BOOLEAN
  /\ inflight \in 0 .. MaxInflight
  /\ stopping \in BOOLEAN
  /\ operation \in Operations
  /\ outcome \in Outcomes

\* A request is handled only by an application whose hooks are all up: the
\* listener is bound after start() and the requests are drained before
\* shutdown(). Only a serving failure leaves requests behind.
RequestsSeeRunningApplication ==
  (listening \/ inflight > 0) /\ operation # "serve" =>
    state = "Running" /\ \A i \in DOMAIN hooks : Up(i)

\* However run() or serve() returns, no hook is left up and nothing listens:
\* "Once lifecycle startup succeeds, every exit path attempts shutdown."
ReturnedRunIsStopped ==
  phase = "returned" =>
    /\ ~listening
    /\ \A i \in DOMAIN hooks : ~Up(i)
    /\ state = IF outcome = "bootstrap" THEN "Created" ELSE "Stopped"

\* The outcome names every failure met: a bind or serve failure, and a hook
\* that failed to start or to stop, are never lost to one another, and of the
\* hooks it names the first that failed.
NoFailureLost ==
  /\ ReportsFirstFailure
  /\ phase = "returned" /\ outcome # "bootstrap" =>
       LET broken == \E i \in DOMAIN hooks :
                       resource[hooks[i].sequence] \in {"start_failed", "stop_failed"}
       IN  outcome = CASE operation = "pending" -> "lifecycle"
                       [] operation = "ok" -> IF broken THEN "lifecycle" ELSE "ok"
                       [] OTHER -> IF broken THEN "operation_and_shutdown" ELSE operation

\* A stop requested in any phase, before the hooks have started included, ends
\* the run.
StopEndsRun == stopping ~> phase \in {"returned", "killed"}

=============================================================================
