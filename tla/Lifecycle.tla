------------------------------ MODULE Lifecycle ------------------------------
(***************************************************************************)
(* LifecycleManager of mads-core: hooks are registered by the builder,     *)
(* sorted and started one at a time, rolled back when one of them fails    *)
(* to start, and stopped in the opposite direction at shutdown.            *)
(*                                                                         *)
(* start() and shutdown() are async functions over `&mut self`: at most    *)
(* one of them is in progress, every hook call in them is an await point,  *)
(* and at an await point the caller may drop the future.                   *)
(***************************************************************************)
EXTENDS Integers, Sequences, Functions

CONSTANTS
  Owners,           \* owner names of infrastructure hooks, as ranks in str order
  MaxHooks,         \* bound: hooks registered in one behaviour
  LateRegistration  \* TRUE: add_hook is also called on a manager already started

ASSUME OwnersAssumption == Owners \subseteq Nat
ASSUME MaxHooksAssumption == MaxHooks \in Nat
ASSUME LateRegistrationAssumption == LateRegistration \in BOOLEAN

VARIABLES
  state,          \* LifecycleManager.state
  hooks,          \* LifecycleManager.hooks: the registrations, sorted by start()
  next_sequence,  \* LifecycleManager.next_sequence
  call,           \* the async call in progress, and the loop of it that runs
  index,          \* position in hooks that loop has reached
  started,        \* the local Vec `started` of start(): positions started so far
  failure,        \* sequence number of the hook whose failure the call reports
  result,         \* what the last finished call returned
  resource        \* what each hook, named by its sequence number, has been through

lifecycleVars ==
  <<state, hooks, next_sequence, call, index, started, failure, result, resource>>

States == {"Created", "Starting", "Running", "Stopping", "Stopped"}
Calls == {"none", "start", "rollback", "shutdown"}
Results == {"none", "ok", "invalid_transition", "startup_failed",
            "shutdown_failed", "dropped"}
HookStates == {"idle", "up", "start_failed", "stopped", "stop_failed",
               "interrupted", "misused"}

NoHook == -1
Application == -1       \* HookGroup::Application; Infrastructure(owner) is the owner
HookGroup == Owners \cup {Application}
Sequence == 0 .. MaxHooks - 1
RegisteredHook == [group : HookGroup, sequence : Sequence]

-----------------------------------------------------------------------------
(***************************************************************************)
(* The comparator of start(): infrastructure before application, owners    *)
(* by name, and the registration sequence within one group.                *)
(***************************************************************************)
Before(left, right) ==
  \/ /\ left.group # Application
     /\ right.group # Application
     /\ \/ left.group < right.group
        \/ left.group = right.group /\ left.sequence < right.sequence
  \/ /\ left.group # Application
     /\ right.group = Application
  \/ /\ left.group = Application
     /\ right.group = Application
     /\ left.sequence < right.sequence

Sorted(s) == \A i, j \in DOMAIN s : i < j => Before(s[i], s[j])

(***************************************************************************)
(* start() and stop() as a hook sees them: it is started once, while idle, *)
(* and stopped once, while up; any other call is a misuse of the resource. *)
(***************************************************************************)
StartedAs(hook, outcome) ==
  resource' = [resource EXCEPT ![hook.sequence] =
                 IF @ # "idle" THEN "misused" ELSE outcome]

Stop(hook, ok) ==
  resource' = [resource EXCEPT ![hook.sequence] =
                 IF @ # "up" THEN "misused"
                 ELSE IF ok THEN "stopped" ELSE "stop_failed"]

-----------------------------------------------------------------------------
Init ==
  /\ state = "Created"
  /\ hooks = <<>>
  /\ next_sequence = 0
  /\ call = "none"
  /\ index = 0
  /\ started = <<>>
  /\ failure = NoHook
  /\ result = "none"
  /\ resource = [s \in Sequence |-> "idle"]

(***************************************************************************)
(* Registration. MadsBuilder::build() hands the manager to Mads, which     *)
(* registers nothing more; the exported LifecycleManager itself accepts    *)
(* hooks in every state (LateRegistration).                                *)
(***************************************************************************)
Register(group) ==
  /\ call = "none"
  /\ state = "Created" \/ LateRegistration
  /\ next_sequence < MaxHooks
  /\ hooks' = Append(hooks, [group |-> group, sequence |-> next_sequence])
  /\ next_sequence' = next_sequence + 1
  /\ UNCHANGED <<state, call, index, started, failure, result, resource>>

AddHook == Register(Application)

AddInfrastructureHook == \E owner \in Owners : Register(owner)

(***************************************************************************)
(* start(): the state check, the sort, then one hook per await.            *)
(***************************************************************************)
Start ==
  /\ call = "none"
  /\ state = "Created"
  /\ state' = "Starting"
  /\ \E order \in Bijection(DOMAIN hooks, DOMAIN hooks) :
       /\ hooks' = [i \in DOMAIN hooks |-> hooks[order[i]]]
       /\ Sorted(hooks')
  /\ call' = "start"
  /\ index' = 1
  /\ started' = <<>>
  /\ failure' = NoHook
  /\ UNCHANGED <<next_sequence, result, resource>>

StartHook ==
  /\ call = "start"
  /\ index \in DOMAIN hooks
  /\ StartedAs(hooks[index], "up")
  /\ started' = Append(started, index)
  /\ index' = index + 1
  /\ UNCHANGED <<state, hooks, next_sequence, call, failure, result>>

\* Seeded fault: the hook is pushed onto `started` before its start is known.
StartHookFailsAfterPush ==
  /\ call = "start"
  /\ index \in DOMAIN hooks
  /\ StartedAs(hooks[index], "start_failed")
  /\ failure' = hooks[index].sequence
  /\ call' = "rollback"
  /\ started' = Append(started, index)
  /\ UNCHANGED <<state, hooks, next_sequence, index, result>>

\* Seeded fault: the failure is returned without stopping what was started.
StartHookFailsWithoutRollback ==
  /\ call = "start"
  /\ index \in DOMAIN hooks
  /\ StartedAs(hooks[index], "start_failed")
  /\ failure' = hooks[index].sequence
  /\ call' = "rollback"
  /\ started' = <<>>
  /\ UNCHANGED <<state, hooks, next_sequence, index, result>>

StartHookFails ==
  /\ call = "start"
  /\ index \in DOMAIN hooks
  /\ StartedAs(hooks[index], "start_failed")
  /\ failure' = hooks[index].sequence
  /\ call' = "rollback"
  /\ UNCHANGED <<state, hooks, next_sequence, index, started, result>>

\* Seeded fault: the rollback runs in start order, without rev().
RollbackHookForward ==
  /\ call = "rollback"
  /\ started # <<>>
  /\ \E ok \in BOOLEAN : Stop(hooks[Head(started)], ok)
  /\ started' = Tail(started)
  /\ UNCHANGED <<state, hooks, next_sequence, call, index, failure, result>>

RollbackHook ==
  /\ call = "rollback"
  /\ started # <<>>
  /\ \E ok \in BOOLEAN : Stop(hooks[started[Len(started)]], ok)
  /\ started' = SubSeq(started, 1, Len(started) - 1)
  /\ UNCHANGED <<state, hooks, next_sequence, call, index, failure, result>>

RollbackDone ==
  /\ call = "rollback"
  /\ started = <<>>
  /\ state' = "Stopped"
  /\ call' = "none"
  /\ result' = "startup_failed"
  /\ UNCHANGED <<hooks, next_sequence, index, started, failure, resource>>

StartDone ==
  /\ call = "start"
  /\ index = Len(hooks) + 1
  /\ state' = "Running"
  /\ call' = "none"
  /\ started' = <<>>
  /\ result' = "ok"
  /\ UNCHANGED <<hooks, next_sequence, index, failure, resource>>

(***************************************************************************)
(* shutdown(): every registration from the last to the first; the first    *)
(* failure is kept and the loop goes on.                                   *)
(***************************************************************************)
Shutdown ==
  /\ call = "none"
  /\ state = "Running"
  /\ state' = "Stopping"
  /\ call' = "shutdown"
  /\ index' = Len(hooks)
  /\ failure' = NoHook
  /\ UNCHANGED <<hooks, next_sequence, started, result, resource>>

\* Seeded fault: the first failure is returned at once, as `?` would.
ShutdownHookReturnsEarly ==
  /\ call = "shutdown"
  /\ index \in DOMAIN hooks
  /\ \E ok \in BOOLEAN :
       /\ Stop(hooks[index], ok)
       /\ failure' = IF ok THEN failure ELSE hooks[index].sequence
       /\ call' = IF ok THEN call ELSE "none"
       /\ result' = IF ok THEN result ELSE "shutdown_failed"
  /\ index' = index - 1
  /\ UNCHANGED <<state, hooks, next_sequence, started>>

\* Seeded fault: the loop of shutdown() runs in start order, without rev().
ShutdownHookForward ==
  /\ call = "shutdown"
  /\ index \in DOMAIN hooks
  /\ LET hook == hooks[Len(hooks) + 1 - index] IN
       \E ok \in BOOLEAN :
         /\ Stop(hook, ok)
         /\ failure' = IF ~ok /\ failure = NoHook THEN hook.sequence ELSE failure
  /\ index' = index - 1
  /\ UNCHANGED <<state, hooks, next_sequence, call, started, result>>

ShutdownHook ==
  /\ call = "shutdown"
  /\ index \in DOMAIN hooks
  /\ \E ok \in BOOLEAN :
       /\ Stop(hooks[index], ok)
       /\ failure' = IF ~ok /\ failure = NoHook THEN hooks[index].sequence
                                                ELSE failure
  /\ index' = index - 1
  /\ UNCHANGED <<state, hooks, next_sequence, call, started, result>>

ShutdownDone ==
  /\ call = "shutdown"
  /\ index = 0
  /\ state' = "Stopped"
  /\ call' = "none"
  /\ result' = IF failure = NoHook THEN "ok" ELSE "shutdown_failed"
  /\ UNCHANGED <<hooks, next_sequence, index, started, failure, resource>>

(***************************************************************************)
(* The early returns of start() and shutdown(): MADS010, nothing changes.  *)
(***************************************************************************)
StartRejected ==
  /\ call = "none"
  /\ state # "Created"
  /\ result' = "invalid_transition"
  /\ UNCHANGED <<state, hooks, next_sequence, call, index, started, failure, resource>>

ShutdownRejected ==
  /\ call = "none"
  /\ state # "Running"
  /\ result' = "invalid_transition"
  /\ UNCHANGED <<state, hooks, next_sequence, call, index, started, failure, resource>>

(***************************************************************************)
(* The caller drops the future while a hook's own future is pending: that  *)
(* hook is left half way, and the manager in Starting or Stopping.         *)
(***************************************************************************)
DropCall ==
  /\ call # "none"
  /\ \E i \in DOMAIN hooks :
       /\ \/ call \in {"start", "shutdown"} /\ i = index
          \/ call = "rollback" /\ started # <<>> /\ i = started[Len(started)]
       /\ resource' = [resource EXCEPT ![hooks[i].sequence] = "interrupted"]
  /\ call' = "none"
  /\ started' = <<>>
  /\ result' = "dropped"
  /\ UNCHANGED <<state, hooks, next_sequence, index, failure>>

CallStep ==
  \/ StartHook \/ StartHookFails \/ RollbackHook \/ RollbackDone \/ StartDone
  \/ ShutdownHook \/ ShutdownDone

Next ==
  \/ AddHook \/ AddInfrastructureHook
  \/ Start \/ StartRejected \/ Shutdown \/ ShutdownRejected
  \/ CallStep \/ DropCall

(***************************************************************************)
(* Fairness: a hook's future completes, and the runtime polls the call.    *)
(***************************************************************************)
Spec == Init /\ [][Next]_lifecycleVars /\ WF_lifecycleVars(CallStep)

-----------------------------------------------------------------------------
(***************************************************************************)
(* Properties                                                              *)
(***************************************************************************)

\* The fields of LifecycleManager and the locals of its calls keep their types.
TypeOK ==
  /\ state \in States
  /\ hooks \in Seq(RegisteredHook)
  /\ next_sequence \in 0 .. MaxHooks
  /\ call \in Calls
  /\ index \in 0 .. MaxHooks + 1
  /\ started \in Seq(1 .. MaxHooks)
  /\ failure \in Sequence \cup {NoHook}
  /\ result \in Results
  /\ resource \in [Sequence -> HookStates]

Up(i) == resource[hooks[i].sequence] = "up"

\* Start, rollback and shutdown between them call stop() on a hook only while
\* it is up and start() only while it is idle, whichever hooks fail and
\* whichever call is dropped: no hook is stopped twice, or stopped although
\* its start failed.
HookProtocol == \A s \in Sequence : resource[s] # "misused"

\* While a hook is up, every hook that start() orders before it is up:
\* rollback and shutdown undo the start order exactly, so an application hook
\* never runs without the infrastructure hooks, nor an owner's hook without
\* the earlier owners'.
EarlierHooksStayUp ==
  \A i, j \in DOMAIN hooks : Before(hooks[i], hooks[j]) /\ Up(j) => Up(i)

\* An application that reports Running has every hook up, and one that
\* reports Stopped has none up: a failed stop() neither ends the loop early
\* nor makes the rollback skip the hooks before it.
StateMatchesHooks ==
  /\ state = "Running" => \A i \in DOMAIN hooks : Up(i)
  /\ state = "Stopped" => \A i \in DOMAIN hooks : ~Up(i)

\* The error a stopped application returned is about the hook that failed
\* first in time: the hook that did not start, whatever failed in the rollback
\* after it, or else the last hook in order whose stop() failed.
ReportsFirstFailure ==
  state = "Stopped" =>
    \A i \in DOMAIN hooks :
      LET h == hooks[i].sequence IN
      /\ resource[h] = "start_failed" => failure = h
      /\ result = "ok" => resource[h] # "stop_failed"
      /\ /\ resource[h] = "stop_failed"
         /\ \A j \in DOMAIN hooks :
              j > i => resource[hooks[j].sequence] \notin {"start_failed", "stop_failed"}
         => failure = h

\* Every start() and shutdown() that is not dropped ends, and leaves the
\* manager Running or Stopped, however many hooks fail.
CallsComplete ==
  /\ call \in {"start", "rollback"} ~>
       call = "none" /\ (state \in {"Running", "Stopped"} \/ result = "dropped")
  /\ call = "shutdown" ~>
       call = "none" /\ (state = "Stopped" \/ result = "dropped")

(***************************************************************************)
(* Refinement of NestedScopes: a resource is open while its hook is up,    *)
(* and the positions of two hooks are the order in which they were opened. *)
(***************************************************************************)
UpHooks == {i \in DOMAIN hooks : Up(i)}

OpenResources == {hooks[i].sequence : i \in UpHooks}

OpenedBefore ==
  {<<hooks[p[1]].sequence, hooks[p[2]].sequence>> :
     p \in {q \in UpHooks \X UpHooks : q[1] < q[2]}}

UsedResources == {s \in Sequence : resource[s] # "idle"}

Scopes == INSTANCE NestedScopes WITH
  Resources <- Sequence, open <- OpenResources,
  below <- OpenedBefore, used <- UsedResources

\* The manager implements nested scopes: whatever fails, and wherever a call
\* is dropped, a hook is opened at most once and only the hook opened last
\* among those still up is ever closed.
ImplementsNestedScopes == Scopes!ScopesSpec

=============================================================================
