------------------------------ MODULE DevState ------------------------------
(***************************************************************************)
(* The state machine of `mads dev` (dev_state.rs). transition() consumes   *)
(* one event and returns the actions the supervisor has to execute before  *)
(* it looks at the next event. A BuiltApplication is the version of the    *)
(* sources it was built from.                                              *)
(***************************************************************************)
EXTENDS Integers, Sequences

CONSTANTS
  MaxVersion,  \* bound: edits of the sources
  MaxConfig    \* bound: edits of the configuration

ASSUME MaxVersionAssumption == MaxVersion \in Nat /\ MaxConfig \in 0 .. MaxVersion

VARIABLES
  last_successful,      \* DevState.last_successful, NoBuild for None
  application_running,  \* DevState.application_running
  build_running,        \* DevState.build_running
  pending,              \* DevState.pending: impact seen during a build
  shutting_down,        \* DevState.shutting_down
  actions               \* actions returned and not yet executed

stateVars == <<last_successful, application_running, build_running, pending,
               shutting_down, actions>>

Version == 0 .. MaxVersion
NoBuild == -1

(***************************************************************************)
(* ChangeImpact and its derived order; merge() is the maximum.             *)
(***************************************************************************)
Impacts == {"None", "Restart", "Rebuild"}
Rank == [None |-> 0, Restart |-> 1, Rebuild |-> 2]
Merge(a, b) == IF Rank[a] >= Rank[b] THEN a ELSE b

Build == [kind |-> "Build"]
StartOf(built) == [kind |-> "Start", built |-> built]
Stop == [kind |-> "Stop"]
RestartOf(built) == [kind |-> "Restart", built |-> built]
Exit == [kind |-> "Exit"]

DevAction ==
  {Build, Stop, Exit} \cup {StartOf(v) : v \in Version} \cup {RestartOf(v) : v \in Version}

(***************************************************************************)
(* DevState::new() followed by transition(DevEvent::Start).                *)
(***************************************************************************)
StateInit ==
  /\ last_successful = NoBuild
  /\ application_running = FALSE
  /\ build_running = TRUE
  /\ pending = "None"
  /\ shutting_down = FALSE
  /\ actions = <<Build>>

StartBuild ==
  /\ build_running' = TRUE
  /\ actions' = IF build_running THEN <<>> ELSE <<Build>>

RestartLastSuccessful ==
  IF last_successful = NoBuild
    THEN actions' = <<>> /\ UNCHANGED application_running
    ELSE /\ actions' = IF application_running THEN <<RestartOf(last_successful)>>
                                             ELSE <<StartOf(last_successful)>>
         /\ application_running' = TRUE

ChangeWhileBuilding(impact) ==
  /\ pending' = Merge(pending, impact)
  /\ actions' = <<>>
  /\ UNCHANGED <<application_running, build_running>>

ChangeWhileIdle(impact) ==
  /\ \/ impact = "None" /\ actions' = <<>> /\ UNCHANGED <<application_running, build_running>>
     \/ impact = "Restart" /\ RestartLastSuccessful /\ UNCHANGED build_running
     \/ impact = "Rebuild" /\ StartBuild /\ UNCHANGED application_running
  /\ UNCHANGED pending

\* Seeded fault: an impact seen during a build replaces the one pending.
HandleChangeReplaces(impact) ==
  /\ IF build_running THEN /\ pending' = impact
                           /\ actions' = <<>>
                           /\ UNCHANGED <<application_running, build_running>>
                      ELSE ChangeWhileIdle(impact)
  /\ UNCHANGED last_successful

HandleChange(impact) ==
  /\ IF build_running THEN ChangeWhileBuilding(impact) ELSE ChangeWhileIdle(impact)
  /\ UNCHANGED last_successful

\* Seeded fault: a build equal to the last one does not replace the process.
HandleBuildSucceededKeepsEqual(built) ==
  /\ pending' = "None"
  /\ last_successful' = built
  /\ application_running' = TRUE
  /\ actions' = (CASE ~application_running -> <<StartOf(built)>>
                   [] application_running /\ built # last_successful -> <<Stop, StartOf(built)>>
                   [] OTHER -> <<>>)
                  \o (IF pending = "Rebuild" THEN <<Build>> ELSE <<>>)
  /\ build_running' = (pending = "Rebuild")

\* Seeded fault: the old process is not stopped before the new one starts.
HandleBuildSucceededKeepsOld(built) ==
  /\ pending' = "None"
  /\ last_successful' = built
  /\ application_running' = TRUE
  /\ actions' = <<StartOf(built)>> \o (IF pending = "Rebuild" THEN <<Build>> ELSE <<>>)
  /\ build_running' = (pending = "Rebuild")

HandleBuildSucceeded(built) ==
  /\ pending' = "None"
  /\ last_successful' = built
  /\ application_running' = TRUE
  /\ actions' = (IF application_running THEN <<Stop>> ELSE <<>>)
                  \o <<StartOf(built)>>
                  \o (IF pending = "Rebuild" THEN <<Build>> ELSE <<>>)
  /\ build_running' = (pending = "Rebuild")

HandleBuildFailed ==
  /\ pending' = "None"
  /\ actions' = IF pending = "Rebuild" THEN <<Build>> ELSE <<>>
  /\ build_running' = (pending = "Rebuild")
  /\ UNCHANGED <<last_successful, application_running>>

HandleApplicationExited ==
  /\ application_running' = FALSE
  /\ actions' = <<>>
  /\ UNCHANGED <<last_successful, build_running, pending>>

\* Seeded fault: Exit follows Stop only.
HandleShutdownWithoutExit ==
  /\ build_running' = FALSE
  /\ pending' = "None"
  /\ application_running' = FALSE
  /\ actions' = IF application_running THEN <<Stop, Exit>> ELSE <<>>
  /\ UNCHANGED last_successful

HandleShutdown ==
  /\ build_running' = FALSE
  /\ pending' = "None"
  /\ application_running' = FALSE
  /\ actions' = (IF application_running THEN <<Stop>> ELSE <<>>) \o <<Exit>>
  /\ UNCHANGED last_successful

(***************************************************************************)
(* transition(): nothing happens once shutting down.                       *)
(***************************************************************************)
Transition(handler, stops) ==
  IF shutting_down
    THEN /\ actions' = <<>>
         /\ UNCHANGED <<last_successful, application_running, build_running, pending,
                        shutting_down>>
    ELSE handler /\ shutting_down' = stops

DevStateTypeOK ==
  /\ last_successful \in Version \cup {NoBuild}
  /\ application_running \in BOOLEAN
  /\ build_running \in BOOLEAN
  /\ pending \in Impacts
  /\ shutting_down \in BOOLEAN
  /\ actions \in Seq(DevAction)

=============================================================================
