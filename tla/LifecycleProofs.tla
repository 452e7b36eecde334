--------------------------- MODULE LifecycleProofs ---------------------------
(***************************************************************************)
(* Proofs about Lifecycle, for every set of owners and number of hooks,    *)
(* when no hook is registered after start() (what Mads guarantees), and    *)
(* about HttpRuntime, which drives the manager, for every bound on the     *)
(* requests in flight.                                                     *)
(***************************************************************************)
EXTENDS HttpRuntime, TLAPS

(***************************************************************************)
(* The inductive invariant. Every registration has a sequence number of    *)
(* its own, so a step on one hook leaves the other hooks alone; the hooks  *)
(* that are up are the first `Level` of the list, a number that each call  *)
(* keeps in a variable of its own.                                         *)
(***************************************************************************)
Numbering ==
  /\ Len(hooks) = next_sequence
  /\ \A i \in DOMAIN hooks : hooks[i].sequence < next_sequence
  /\ \A i, j \in DOMAIN hooks : hooks[i].sequence = hooks[j].sequence => i = j

UpTo(n) == \A i \in DOMAIN hooks : Up(i) <=> i <= n

CallMatchesState ==
  /\ call \in {"start", "rollback"} => state = "Starting"
  /\ call = "shutdown" => state = "Stopping"

Levels ==
  /\ state = "Created" => \A s \in Sequence : resource[s] = "idle"
  /\ state # "Created" => Sorted(hooks)
  /\ call = "start" =>
       /\ index \in 1 .. Len(hooks) + 1
       /\ started = [j \in 1 .. index - 1 |-> j]
       /\ UpTo(index - 1)
       /\ \A i \in DOMAIN hooks : i >= index => resource[hooks[i].sequence] = "idle"
  /\ call = "rollback" =>
       /\ Len(started) <= Len(hooks)
       /\ started = [j \in 1 .. Len(started) |-> j]
       /\ UpTo(Len(started))
  /\ call = "shutdown" => index \in 0 .. Len(hooks) /\ UpTo(index)
  /\ \E n \in 0 .. Len(hooks) : UpTo(n)
  /\ state = "Running" => UpTo(Len(hooks))
  /\ state = "Stopped" => UpTo(0)

IInv == TypeOK /\ Numbering /\ CallMatchesState /\ Levels /\ HookProtocol

-----------------------------------------------------------------------------
\* A new manager satisfies the inductive invariant.
LEMMA InitEstablishes == Init => IInv
  BY MaxHooksAssumption
     DEF Init, IInv, TypeOK, Numbering, CallMatchesState, Levels, HookProtocol, UpTo, Up,
         Sorted, States, Calls, Results, HookStates, RegisteredHook, Sequence, NoHook

\* Every registration of a well-typed list has a sequence number of the domain.
LEMMA HookSequence ==
  ASSUME NEW hs \in Seq(RegisteredHook)
  PROVE  /\ Len(hs) \in Nat
         /\ DOMAIN hs = 1 .. Len(hs)
         /\ \A i \in DOMAIN hs : hs[i] \in RegisteredHook /\ hs[i].sequence \in Sequence
  <1>1. \A r \in RegisteredHook : r.sequence \in Sequence
    BY DEF RegisteredHook
  <1>. QED  BY <1>1

\* The comparator of start() never puts two registrations before each other.
LEMMA BeforeIsAsymmetric ==
  ASSUME NEW left \in RegisteredHook, NEW right \in RegisteredHook, Before(left, right)
  PROVE  ~ Before(right, left)
  <1>1. HookGroup \subseteq Int /\ Sequence \subseteq Int
    BY OwnersAssumption, MaxHooksAssumption DEF HookGroup, Application, Sequence
  <1>2. \A r \in RegisteredHook : r.group \in HookGroup /\ r.sequence \in Sequence
    BY DEF RegisteredHook
  <1>3. /\ left.group \in Int /\ left.sequence \in Int
        /\ right.group \in Int /\ right.sequence \in Int
    BY <1>1, <1>2
  <1>. QED  BY <1>3 DEF Before

\* Reordering a list of registrations keeps its type and its length.
LEMMA Reordering ==
  ASSUME NEW hs \in Seq(RegisteredHook), NEW order \in [DOMAIN hs -> DOMAIN hs]
  PROVE  LET hr == [i \in DOMAIN hs |-> hs[order[i]]] IN
         hr \in Seq(RegisteredHook) /\ Len(hr) = Len(hs)
  <1>1. DOMAIN hs = 1 .. Len(hs) /\ Len(hs) \in Nat
    OBVIOUS
  <1>2. [i \in 1 .. Len(hs) |-> hs[order[i]]] \in Seq(RegisteredHook)
    BY <1>1
  <1>. QED  BY <1>1, <1>2

\* A call to stop() or start() on the hook at position k changes that hook alone.
LEMMA OtherHooksUnchanged ==
  ASSUME TypeOK, Numbering, NEW k \in DOMAIN hooks, NEW x \in HookStates,
         hooks' = hooks, resource' = [resource EXCEPT ![hooks[k].sequence] = x]
  PROVE  /\ resource' \in [Sequence -> HookStates]
         /\ resource'[hooks[k].sequence] = x
         /\ \A i \in DOMAIN hooks : i # k =>
              resource'[hooks[i].sequence] = resource[hooks[i].sequence]
  <1>1. \A i \in DOMAIN hooks : hooks[i].sequence \in Sequence
    BY HookSequence DEF TypeOK
  <1>. QED  BY <1>1 DEF TypeOK, Numbering

\* add_hook and add_infrastructure_hook on a manager not yet started keep it.
LEMMA RegisterPreserves ==
  ASSUME IInv, state = "Created", NEW group \in HookGroup, Register(group)
  PROVE  IInv'
  <1>. USE MaxHooksAssumption DEF Register
  <1>1. TypeOK'
    BY DEF IInv, TypeOK, RegisteredHook, Sequence
  <1>2. Numbering'
    <2>1. /\ hooks \in Seq(RegisteredHook)
          /\ next_sequence = Len(hooks)
          /\ \A i \in DOMAIN hooks : hooks[i].sequence < next_sequence
      BY DEF IInv, TypeOK, Numbering
    <2>2. \A i \in 1 .. Len(hooks) : hooks[i].sequence \in Nat
      BY <2>1, HookSequence DEF Sequence
    <2>3. /\ Len(hooks') = Len(hooks) + 1
          /\ DOMAIN hooks' = 1 .. Len(hooks) + 1
          /\ DOMAIN hooks = 1 .. Len(hooks)
          /\ \A i \in 1 .. Len(hooks) : hooks'[i] = hooks[i]
          /\ hooks'[Len(hooks) + 1].sequence = next_sequence
      BY <2>1
    <2>4. \A i \in DOMAIN hooks' : hooks'[i].sequence < next_sequence'
      BY <2>1, <2>2, <2>3
    <2>5. ASSUME NEW i \in DOMAIN hooks', NEW j \in DOMAIN hooks',
                 hooks'[i].sequence = hooks'[j].sequence
          PROVE  i = j
      BY <2>1, <2>2, <2>3, <2>5 DEF IInv, Numbering
    <2>. QED  BY <2>1, <2>3, <2>4, <2>5 DEF Numbering
  <1>3. Levels'
    <2>1. \A s \in Sequence : resource'[s] = "idle"
      BY DEF IInv, Levels
    <2>2. \A i \in DOMAIN hooks' : hooks'[i].sequence \in Sequence
      BY <1>1, HookSequence DEF TypeOK
    <2>3. UpTo(0)'
      BY <1>1, <2>1, <2>2 DEF UpTo, Up, TypeOK
    <2>4. 0 \in 0 .. Len(hooks')
      BY <1>1 DEF TypeOK
    <2>. QED  BY <2>1, <2>3, <2>4 DEF IInv, Levels
  <1>. QED  BY <1>1, <1>2, <1>3 DEF IInv, CallMatchesState, HookProtocol

\* start() keeps it: sorting renames positions, and no hook is up yet.
LEMMA StartPreserves == IInv /\ Start => IInv'
  <1>. SUFFICES ASSUME IInv, Start PROVE IInv'
    OBVIOUS
  <1>. USE MaxHooksAssumption
  <1>1. PICK order \in Bijection(DOMAIN hooks, DOMAIN hooks) :
          /\ hooks' = [i \in DOMAIN hooks |-> hooks[order[i]]]
          /\ Sorted(hooks')
    BY DEF Start
  <1>2. /\ order \in [DOMAIN hooks -> DOMAIN hooks]
        /\ \A i, j \in DOMAIN hooks : order[i] = order[j] => i = j
    BY <1>1 DEF Bijection, Injection, Surjection, IsInjective
  <1>3. /\ hooks' \in Seq(RegisteredHook)
        /\ Len(hooks') = Len(hooks)
        /\ DOMAIN hooks' = DOMAIN hooks
    BY <1>1, <1>2, Reordering DEF IInv, TypeOK
  <1>4. TypeOK'
    BY <1>3 DEF IInv, TypeOK, Start, States, Calls, NoHook
  <1>5. Numbering'
    <2>1. Len(hooks') = next_sequence'
      BY <1>3 DEF IInv, Numbering, Start
    <2>2. \A i \in DOMAIN hooks' : hooks'[i] = hooks[order[i]] /\ order[i] \in DOMAIN hooks
      BY <1>1, <1>2, <1>3
    <2>3. Numbering /\ next_sequence' = next_sequence
      BY DEF IInv, Start
    <2>. QED  BY <1>2, <1>3, <2>1, <2>2, <2>3 DEF Numbering
  <1>6. Levels'
    <2>1. \A s \in Sequence : resource'[s] = "idle"
      BY DEF IInv, Levels, Start
    <2>2. \A i \in DOMAIN hooks' : hooks'[i].sequence \in Sequence
      BY <1>4, HookSequence DEF TypeOK
    <2>3. UpTo(0)'
      BY <1>3, <1>4, <2>1, <2>2 DEF UpTo, Up, TypeOK
    <2>4. 0 \in 0 .. Len(hooks')
      BY <1>4 DEF TypeOK
    <2>5. started' = [j \in 1 .. index' - 1 |-> j] /\ index' \in 1 .. Len(hooks') + 1
      BY <1>4 DEF Start, TypeOK
    <2>6. UpTo(index - 1)'
      BY <2>3 DEF Start, UpTo
    <2>. QED  BY <1>1, <2>1, <2>2, <2>3, <2>4, <2>5, <2>6 DEF IInv, Levels, Start
  <1>. QED  BY <1>4, <1>5, <1>6 DEF IInv, CallMatchesState, HookProtocol, Start

(***************************************************************************)
(* The hook steps: each moves the level by at most one.                    *)
(***************************************************************************)
\* In the loop of start(), the hook that is reached is idle and those before it are up.
LEMMA StartLoop ==
  ASSUME IInv, call = "start", index \in DOMAIN hooks
  PROVE  /\ hooks \in Seq(RegisteredHook) /\ DOMAIN hooks = 1 .. Len(hooks)
         /\ Len(hooks) \in 0 .. MaxHooks
         /\ resource[hooks[index].sequence] = "idle"
         /\ hooks[index].sequence \in Sequence
         /\ UpTo(index - 1)
         /\ started = [j \in 1 .. index - 1 |-> j]
  <1>1. hooks \in Seq(RegisteredHook) /\ Len(hooks) \in 0 .. MaxHooks
    BY DEF IInv, TypeOK, Numbering
  <1>2. DOMAIN hooks = 1 .. Len(hooks) /\ hooks[index].sequence \in Sequence
    BY <1>1, HookSequence
  <1>. QED  BY <1>1, <1>2 DEF IInv, Levels

\* A successful hook start raises the level of the hooks that are up by one.
LEMMA StartHookPreserves == IInv /\ StartHook => IInv'
  <1>. SUFFICES ASSUME IInv, StartHook PROVE IInv'
    OBVIOUS
  <1>. USE MaxHooksAssumption
  <1>1. /\ hooks \in Seq(RegisteredHook) /\ DOMAIN hooks = 1 .. Len(hooks)
        /\ Len(hooks) \in 0 .. MaxHooks
        /\ index \in DOMAIN hooks
        /\ resource[hooks[index].sequence] = "idle"
        /\ hooks[index].sequence \in Sequence
        /\ UpTo(index - 1)
        /\ started = [j \in 1 .. index - 1 |-> j]
    BY StartLoop DEF StartHook
  <1>2. resource' = [resource EXCEPT ![hooks[index].sequence] = "up"]
    BY <1>1, HookSequence DEF StartHook, StartedAs, IInv, TypeOK
  <1>3. /\ resource' \in [Sequence -> HookStates]
        /\ resource'[hooks[index].sequence] = "up"
        /\ \A i \in DOMAIN hooks : i # index =>
             resource'[hooks[i].sequence] = resource[hooks[i].sequence]
    BY <1>1, <1>2, OtherHooksUnchanged DEF IInv, HookStates, StartHook
  <1>4. started' = [j \in 1 .. index |-> j] /\ index' = index + 1 /\ hooks' = hooks
    BY <1>1 DEF StartHook
  <1>5. started' \in Seq(1 .. MaxHooks)
    BY <1>1, <1>4
  <1>6. TypeOK'
    BY <1>1, <1>3, <1>4, <1>5 DEF IInv, TypeOK, StartHook
  <1>7. UpTo(index - 1)'
    <2>. SUFFICES ASSUME NEW i \in DOMAIN hooks
                  PROVE  resource'[hooks[i].sequence] = "up" <=> i <= index
      BY <1>1, <1>4 DEF UpTo, Up
    <2>1. CASE i = index
      BY <1>1, <1>3, <2>1
    <2>2. CASE i # index
      BY <1>1, <1>3, <2>2 DEF UpTo, Up
    <2>. QED  BY <2>1, <2>2
  <1>8. \A i \in DOMAIN hooks' : i >= index' => resource'[hooks'[i].sequence] = "idle"
    <2>1. \A i \in DOMAIN hooks : i >= index => resource[hooks[i].sequence] = "idle"
      BY DEF IInv, Levels, StartHook
    <2>2. index' = index + 1 /\ index \in Nat /\ DOMAIN hooks \subseteq Nat
      BY <1>1, <1>4
    <2>3. \A i \in DOMAIN hooks : i >= index' => i >= index /\ i # index
      BY <2>2
    <2>. QED  BY <1>3, <1>4, <2>1, <2>3
  <1>9. Levels'
    BY <1>1, <1>4, <1>7, <1>8 DEF IInv, CallMatchesState, Levels, StartHook
  <1>10. HookProtocol'
    BY <1>1, <1>2 DEF IInv, TypeOK, HookProtocol
  <1>. QED  BY <1>6, <1>9, <1>10 DEF IInv, Numbering, CallMatchesState, StartHook

\* A failed hook start leaves the level and turns the call into a rollback.
LEMMA StartHookFailsPreserves == IInv /\ StartHookFails => IInv'
  <1>. SUFFICES ASSUME IInv, StartHookFails PROVE IInv'
    OBVIOUS
  <1>. USE MaxHooksAssumption
  <1>1. /\ hooks \in Seq(RegisteredHook) /\ DOMAIN hooks = 1 .. Len(hooks)
        /\ Len(hooks) \in 0 .. MaxHooks
        /\ index \in DOMAIN hooks
        /\ resource[hooks[index].sequence] = "idle"
        /\ hooks[index].sequence \in Sequence
        /\ UpTo(index - 1)
        /\ started = [j \in 1 .. index - 1 |-> j]
    BY StartLoop DEF StartHookFails
  <1>2. resource' = [resource EXCEPT ![hooks[index].sequence] = "start_failed"]
    BY <1>1 DEF StartHookFails, StartedAs, IInv, TypeOK
  <1>3. /\ resource' \in [Sequence -> HookStates]
        /\ resource'[hooks[index].sequence] = "start_failed"
        /\ \A i \in DOMAIN hooks : i # index =>
             resource'[hooks[i].sequence] = resource[hooks[i].sequence]
    BY <1>1, <1>2, OtherHooksUnchanged DEF IInv, HookStates, StartHookFails
  <1>4. Len(started) = index - 1
    BY <1>1
  <1>5. TypeOK'
    BY <1>1, <1>3 DEF IInv, TypeOK, StartHookFails, Calls
  <1>6. UpTo(Len(started))'
    BY <1>1, <1>3, <1>4 DEF UpTo, Up, StartHookFails
  <1>7. Levels'
    BY <1>1, <1>4, <1>6 DEF IInv, CallMatchesState, Levels, StartHookFails
  <1>8. HookProtocol'
    BY <1>1, <1>2 DEF IInv, TypeOK, HookProtocol
  <1>. QED  BY <1>5, <1>7, <1>8 DEF IInv, Numbering, CallMatchesState, StartHookFails

\* A rollback step stops the topmost hook that is up, whether stop() fails or not.
LEMMA RollbackHookPreserves == IInv /\ RollbackHook => IInv'
  <1>. SUFFICES ASSUME IInv, RollbackHook PROVE IInv'
    OBVIOUS
  <1>. DEFINE k == Len(started)
  <1>. USE MaxHooksAssumption
  <1>1. /\ hooks \in Seq(RegisteredHook) /\ DOMAIN hooks = 1 .. Len(hooks)
        /\ Len(hooks) \in 0 .. MaxHooks
        /\ k \in DOMAIN hooks
        /\ started[k] = k
        /\ UpTo(k)
        /\ started = [j \in 1 .. k |-> j]
    BY HookSequence DEF IInv, TypeOK, Numbering, Levels, RollbackHook
  <1>2. /\ resource[hooks[k].sequence] = "up"
        /\ hooks[k].sequence \in Sequence
    BY <1>1, HookSequence DEF UpTo, Up
  <1>3. PICK x \in {"stopped", "stop_failed"} :
          resource' = [resource EXCEPT ![hooks[k].sequence] = x]
    BY <1>1, <1>2 DEF RollbackHook, Stop, IInv, TypeOK
  <1>4. /\ resource' \in [Sequence -> HookStates]
        /\ resource'[hooks[k].sequence] = x
        /\ \A i \in DOMAIN hooks : i # k =>
             resource'[hooks[i].sequence] = resource[hooks[i].sequence]
    BY <1>1, <1>3, OtherHooksUnchanged DEF IInv, HookStates, RollbackHook
  <1>5. started' = [j \in 1 .. k - 1 |-> j] /\ Len(started') = k - 1
    BY <1>1 DEF RollbackHook
  <1>6. started' \in Seq(1 .. MaxHooks)
    BY <1>1, <1>5
  <1>7. TypeOK'
    BY <1>4, <1>6 DEF IInv, TypeOK, RollbackHook
  <1>8. UpTo(Len(started))'
    BY <1>1, <1>4, <1>5 DEF UpTo, Up, RollbackHook
  <1>9. Levels'
    BY <1>1, <1>5, <1>8 DEF IInv, CallMatchesState, Levels, RollbackHook
  <1>10. HookProtocol'
    BY <1>2, <1>3 DEF IInv, TypeOK, HookProtocol
  <1>. QED  BY <1>7, <1>9, <1>10 DEF IInv, Numbering, CallMatchesState, RollbackHook

\* A shutdown step stops the topmost hook that is up, whether stop() fails or not.
LEMMA ShutdownHookPreserves == IInv /\ ShutdownHook => IInv'
  <1>. SUFFICES ASSUME IInv, ShutdownHook PROVE IInv'
    OBVIOUS
  <1>. USE MaxHooksAssumption
  <1>1. /\ hooks \in Seq(RegisteredHook) /\ DOMAIN hooks = 1 .. Len(hooks)
        /\ Len(hooks) \in 0 .. MaxHooks
        /\ index \in DOMAIN hooks
        /\ UpTo(index)
    BY HookSequence DEF IInv, TypeOK, Numbering, Levels, ShutdownHook
  <1>2. /\ resource[hooks[index].sequence] = "up"
        /\ hooks[index].sequence \in Sequence
    BY <1>1, HookSequence DEF UpTo, Up
  <1>3. PICK x \in {"stopped", "stop_failed"} :
          resource' = [resource EXCEPT ![hooks[index].sequence] = x]
    BY <1>2 DEF ShutdownHook, Stop, IInv, TypeOK
  <1>4. /\ resource' \in [Sequence -> HookStates]
        /\ resource'[hooks[index].sequence] = x
        /\ \A i \in DOMAIN hooks : i # index =>
             resource'[hooks[i].sequence] = resource[hooks[i].sequence]
    BY <1>1, <1>3, OtherHooksUnchanged DEF IInv, HookStates, ShutdownHook
  <1>5. TypeOK'
    BY <1>1, <1>2, <1>4 DEF IInv, TypeOK, ShutdownHook
  <1>6. UpTo(index)' /\ index' \in 0 .. Len(hooks')
    BY <1>1, <1>4 DEF UpTo, Up, ShutdownHook
  <1>7. Levels'
    BY <1>6 DEF IInv, CallMatchesState, Levels, ShutdownHook
  <1>8. HookProtocol'
    BY <1>2, <1>3 DEF IInv, TypeOK, HookProtocol
  <1>. QED  BY <1>5, <1>7, <1>8 DEF IInv, Numbering, CallMatchesState, ShutdownHook

(***************************************************************************)
(* The steps that begin or end a call.                                     *)
(***************************************************************************)
\* The steps that begin or end a call, and the rejected calls, keep it.
LEMMA BoundaryPreserves ==
  ASSUME IInv,
         RollbackDone \/ StartDone \/ Shutdown \/ ShutdownDone \/ StartRejected
           \/ ShutdownRejected
  PROVE  IInv'
  <1>. USE MaxHooksAssumption
  <1>1. /\ hooks' = hooks /\ resource' = resource /\ next_sequence' = next_sequence
        /\ hooks \in Seq(RegisteredHook)
        /\ Len(hooks) \in 0 .. MaxHooks
        /\ DOMAIN hooks = 1 .. Len(hooks)
    BY HookSequence DEF IInv, TypeOK, Numbering, RollbackDone, StartDone, Shutdown,
       ShutdownDone, StartRejected, ShutdownRejected
  <1>2. Numbering' /\ HookProtocol' /\ (\A n : UpTo(n) => UpTo(n)')
    BY <1>1 DEF IInv, Numbering, HookProtocol, UpTo, Up
  <1>3. CASE RollbackDone
    <2>1. UpTo(0)
      BY <1>3 DEF IInv, Levels, RollbackDone
    <2>2. TypeOK'
      BY <1>3 DEF IInv, TypeOK, RollbackDone, States, Calls, Results
    <2>. QED  BY <1>1, <1>2, <1>3, <2>1, <2>2
              DEF IInv, CallMatchesState, Levels, RollbackDone
  <1>4. CASE StartDone
    <2>1. UpTo(Len(hooks))
      BY <1>1, <1>4 DEF IInv, Levels, StartDone
    <2>2. TypeOK'
      BY <1>4 DEF IInv, TypeOK, StartDone, States, Calls, Results
    <2>. QED  BY <1>1, <1>2, <1>4, <2>1, <2>2
              DEF IInv, CallMatchesState, Levels, StartDone
  <1>5. CASE Shutdown
    <2>1. UpTo(Len(hooks))
      BY <1>5 DEF IInv, Levels, Shutdown
    <2>2. TypeOK'
      BY <1>1, <1>5 DEF IInv, TypeOK, Shutdown, States, Calls, NoHook
    <2>. QED  BY <1>1, <1>2, <1>5, <2>1, <2>2
              DEF IInv, CallMatchesState, Levels, Shutdown
  <1>6. CASE ShutdownDone
    <2>1. UpTo(0)
      BY <1>6 DEF IInv, Levels, ShutdownDone
    <2>2. TypeOK'
      BY <1>6 DEF IInv, TypeOK, ShutdownDone, States, Calls, Results
    <2>. QED  BY <1>1, <1>2, <1>6, <2>1, <2>2
              DEF IInv, CallMatchesState, Levels, ShutdownDone
  <1>7. CASE StartRejected \/ ShutdownRejected
    <2>1. UNCHANGED <<state, hooks, call, index, started, failure>> /\ call = "none"
      BY <1>7 DEF StartRejected, ShutdownRejected
    <2>2. TypeOK'
      BY <1>7 DEF IInv, TypeOK, StartRejected, ShutdownRejected, Results
    <2>. QED  BY <1>1, <1>2, <2>1, <2>2 DEF IInv, CallMatchesState, Levels
  <1>. QED  BY <1>3, <1>4, <1>5, <1>6, <1>7

\* A future dropped at an await leaves the hooks below the interrupted one up.
LEMMA DropCallPreserves == IInv /\ DropCall => IInv'
  <1>. SUFFICES ASSUME IInv, DropCall PROVE IInv'
    OBVIOUS
  <1>. USE MaxHooksAssumption
  <1>1. PICK k \in DOMAIN hooks :
          /\ \/ call \in {"start", "shutdown"} /\ k = index
             \/ call = "rollback" /\ started # <<>> /\ k = started[Len(started)]
          /\ resource' = [resource EXCEPT ![hooks[k].sequence] = "interrupted"]
    BY DEF DropCall
  <1>2. /\ hooks' = hooks /\ next_sequence' = next_sequence
        /\ call' = "none" /\ state' = state /\ state \in {"Starting", "Stopping"}
        /\ hooks \in Seq(RegisteredHook)
        /\ Len(hooks) \in 0 .. MaxHooks
        /\ DOMAIN hooks = 1 .. Len(hooks)
    BY <1>1, HookSequence DEF IInv, TypeOK, Numbering, CallMatchesState, DropCall
  <1>3. /\ resource' \in [Sequence -> HookStates]
        /\ resource'[hooks[k].sequence] = "interrupted"
        /\ \A i \in DOMAIN hooks : i # k =>
             resource'[hooks[i].sequence] = resource[hooks[i].sequence]
    BY <1>1, <1>2, OtherHooksUnchanged DEF IInv, HookStates
  <1>4. UpTo(k - 1) \/ UpTo(k)
    <2>1. CASE call = "start"
      BY <1>1, <2>1 DEF IInv, Levels
    <2>2. CASE call = "shutdown"
      BY <1>1, <2>2 DEF IInv, Levels
    <2>3. CASE call = "rollback"
      <3>1. started # <<>> /\ k = started[Len(started)]
        BY <1>1, <2>3
      <3>2. UpTo(Len(started)) /\ started = [j \in 1 .. Len(started) |-> j]
        BY <2>3 DEF IInv, Levels
      <3>3. started \in Seq(1 .. MaxHooks)
        BY DEF IInv, TypeOK
      <3>4. k = Len(started)
        BY <3>1, <3>2, <3>3
      <3>. QED  BY <3>2, <3>4
    <2>. QED  BY <1>1, <2>1, <2>2, <2>3
  <1>5. UpTo(k - 1)'
    BY <1>2, <1>3, <1>4 DEF UpTo, Up
  <1>6. TypeOK'
    BY <1>2, <1>3 DEF IInv, TypeOK, DropCall, Calls, Results
  <1>7. Levels'
    BY <1>2, <1>5 DEF IInv, Levels
  <1>8. HookProtocol'
    BY <1>1, <1>2 DEF IInv, TypeOK, HookProtocol
  <1>. QED  BY <1>2, <1>6, <1>7, <1>8 DEF IInv, Numbering, CallMatchesState

-----------------------------------------------------------------------------
(***************************************************************************)
(* The invariant and what follows from it.                                 *)
(***************************************************************************)
\* No hook is registered once start() was called: what Mads guarantees.
NoLateHook == state = "Created" \/ UNCHANGED next_sequence

\* Without late registration, no step registers a hook late.
LEMMA RegisteredInTime ==
  ASSUME LateRegistration = FALSE, [Next]_lifecycleVars
  PROVE  NoLateHook
  BY DEF NoLateHook, Next, AddHook, AddInfrastructureHook, Register, Start, StartRejected,
     Shutdown, ShutdownRejected, CallStep, StartHook, StartHookFails, RollbackHook,
     RollbackDone, StartDone, ShutdownHook, ShutdownDone, DropCall, lifecycleVars

\* A step that registers a hook, and not late, meets a manager not yet started.
LEMMA RegistrationIsEarly ==
  ASSUME TypeOK, NoLateHook, AddHook \/ AddInfrastructureHook
  PROVE  \E group \in HookGroup : state = "Created" /\ Register(group)
  <1>1. PICK group \in HookGroup : Register(group)
    BY DEF AddHook, AddInfrastructureHook, HookGroup
  <1>2. next_sequence' # next_sequence
    BY <1>1, MaxHooksAssumption DEF Register, TypeOK
  <1>. QED  BY <1>1, <1>2 DEF NoLateHook

\* Every step of a manager that does not register a hook late keeps it.
LEMMA NextPreserves ==
  ASSUME IInv, [Next]_lifecycleVars, NoLateHook
  PROVE  IInv'
  <1>1. CASE AddHook \/ AddInfrastructureHook
    BY <1>1, RegistrationIsEarly, RegisterPreserves DEF IInv
  <1>2. CASE Start
    BY <1>2, StartPreserves
  <1>3. CASE StartRejected \/ Shutdown \/ ShutdownRejected
    BY <1>3, BoundaryPreserves
  <1>4. CASE CallStep
    BY <1>4, BoundaryPreserves, StartHookPreserves, StartHookFailsPreserves,
       RollbackHookPreserves, ShutdownHookPreserves DEF CallStep
  <1>5. CASE DropCall
    BY <1>5, DropCallPreserves
  <1>6. CASE UNCHANGED lifecycleVars
    BY <1>6 DEF lifecycleVars, IInv, TypeOK, Numbering, CallMatchesState, Levels,
       HookProtocol, UpTo, Up
  <1>. QED  BY <1>1, <1>2, <1>3, <1>4, <1>5, <1>6 DEF Next

\* Every reachable state of a manager that registers no hook late satisfies
\* the inductive invariant.
THEOREM Invariance == LateRegistration = FALSE => (Spec => []IInv)
  <1>. SUFFICES ASSUME LateRegistration = FALSE PROVE Spec => []IInv
    OBVIOUS
  <1>1. IInv /\ [Next]_lifecycleVars => IInv'
    BY NextPreserves, RegisteredInTime
  <1>. QED  BY <1>1, InitEstablishes, PTL DEF Spec

\* The manager's fields and the locals of start() and shutdown() are well typed.
THEOREM TypeCorrect == LateRegistration = FALSE => (Spec => []TypeOK)
  <1>1. IInv => TypeOK
    BY DEF IInv
  <1>. QED  BY <1>1, Invariance, PTL

\* No hook is started twice, stopped twice or stopped without having started.
THEOREM ProtocolKept == LateRegistration = FALSE => (Spec => []HookProtocol)
  <1>1. IInv => HookProtocol
    BY DEF IInv
  <1>. QED  BY <1>1, Invariance, PTL

\* A Running application has every hook up, a Stopped one has none up.
THEOREM StateFaithful == LateRegistration = FALSE => (Spec => []StateMatchesHooks)
  <1>1. IInv => StateMatchesHooks
    BY HookSequence DEF IInv, TypeOK, Levels, UpTo, StateMatchesHooks
  <1>. QED  BY <1>1, Invariance, PTL

\* start()'s order is respected at every moment, by rollback, shutdown and drops.
THEOREM OrderKept == LateRegistration = FALSE => (Spec => []EarlierHooksStayUp)
  <1>1. IInv => EarlierHooksStayUp
    <2>. SUFFICES ASSUME IInv, NEW i \in DOMAIN hooks, NEW j \in DOMAIN hooks,
                         Before(hooks[i], hooks[j]), Up(j)
                  PROVE  Up(i)
      BY DEF EarlierHooksStayUp
    <2>1. /\ hooks \in Seq(RegisteredHook) /\ DOMAIN hooks = 1 .. Len(hooks)
          /\ hooks[j].sequence \in Sequence
          /\ hooks[i] \in RegisteredHook /\ hooks[j] \in RegisteredHook
      BY HookSequence DEF IInv, TypeOK
    <2>2. Sorted(hooks)
      BY <2>1 DEF IInv, Levels, Up
    <2>3. ~ Before(hooks[j], hooks[i])
      BY <2>1, BeforeIsAsymmetric
    <2>4. i <= j
      BY <2>1, <2>2, <2>3 DEF Sorted
    <2>5. PICK n \in 0 .. Len(hooks) : UpTo(n)
      BY DEF IInv, Levels
    <2>. QED  BY <2>1, <2>4, <2>5 DEF UpTo
  <1>. QED  BY <1>1, Invariance, PTL

-----------------------------------------------------------------------------
(***************************************************************************)
(* The refinement of NestedScopes. When the hooks up are the first n of    *)
(* the list, a step on hook n + 1 opens it or finds it impossible to open, *)
(* a step on hook n closes it, and no other hook is ever stepped.          *)
(***************************************************************************)
\* start() or stop() reaches the hook next to the level, and so takes a step
\* of the nested scopes: it opens that resource, fails to, or closes it.
LEMMA HookStepsAScope ==
  ASSUME IInv, NEW k \in DOMAIN hooks, NEW x \in HookStates \ {"idle"}, hooks' = hooks,
         resource' = [resource EXCEPT ![hooks[k].sequence] = x]
  PROVE  /\ UpTo(k - 1) /\ resource[hooks[k].sequence] = "idle" /\ x = "up" =>
              Scopes!Open(hooks[k].sequence)
         /\ UpTo(k - 1) /\ resource[hooks[k].sequence] = "idle" /\ x # "up" =>
              Scopes!OpenFails(hooks[k].sequence)
         /\ UpTo(k) /\ x # "up" => Scopes!Close(hooks[k].sequence)
  <1>. DEFINE h == hooks[k].sequence
  <1>1. /\ Len(hooks) \in Nat /\ DOMAIN hooks = 1 .. Len(hooks)
        /\ \A i \in DOMAIN hooks : hooks[i].sequence \in Sequence
        /\ resource \in [Sequence -> HookStates]
        /\ \A i, j \in DOMAIN hooks : hooks[i].sequence = hooks[j].sequence => i = j
    BY HookSequence DEF IInv, TypeOK, Numbering
  <1>2. /\ resource' \in [Sequence -> HookStates]
        /\ resource'[h] = x
        /\ \A i \in DOMAIN hooks : i # k =>
             resource'[hooks[i].sequence] = resource[hooks[i].sequence]
    BY OtherHooksUnchanged DEF IInv
  <1>3. UsedResources' = UsedResources \cup {h}
    BY <1>1 DEF UsedResources
  <1>4. ASSUME UpTo(k - 1), resource[h] = "idle"
        PROVE  /\ UpHooks = 1 .. k - 1
               /\ x = "up" => UpHooks' = 1 .. k
               /\ x # "up" => UpHooks' = 1 .. k - 1
               /\ h \notin UsedResources
    BY <1>1, <1>2, <1>4 DEF UpHooks, UpTo, Up, UsedResources
  <1>5. ASSUME UpTo(k), x # "up"
        PROVE  /\ UpHooks = 1 .. k
               /\ UpHooks' = 1 .. k - 1
               /\ h \in UsedResources
    BY <1>1, <1>2, <1>5 DEF UpHooks, UpTo, Up, UsedResources
  <1>6. ASSUME UpTo(k - 1), resource[h] = "idle", x = "up"
        PROVE  Scopes!Open(h)
    <2>1. OpenResources' = OpenResources \cup {h}
      BY <1>1, <1>4, <1>6 DEF OpenResources
    <2>2. OpenedBefore' = OpenedBefore \cup {<<g, h>> : g \in OpenResources}
      <3>1. OpenedBefore' = {<<hooks[p[1]].sequence, hooks[p[2]].sequence>> :
                               p \in {q \in (1 .. k) \X (1 .. k) : q[1] < q[2]}}
        BY <1>4, <1>6 DEF OpenedBefore
      <3>2. OpenedBefore = {<<hooks[p[1]].sequence, hooks[p[2]].sequence>> :
                              p \in {q \in (1 .. k - 1) \X (1 .. k - 1) : q[1] < q[2]}}
        BY <1>4, <1>6 DEF OpenedBefore
      <3>3. OpenResources = {hooks[i].sequence : i \in 1 .. k - 1}
        BY <1>4, <1>6 DEF OpenResources
      <3>4. {q \in (1 .. k) \X (1 .. k) : q[1] < q[2]}
              = {q \in (1 .. k - 1) \X (1 .. k - 1) : q[1] < q[2]}
                  \cup {<<i, k>> : i \in 1 .. k - 1}
        BY <1>1
      <3>5. {<<hooks[p[1]].sequence, hooks[p[2]].sequence>> :
               p \in {<<i, k>> : i \in 1 .. k - 1}} = {<<g, h>> : g \in OpenResources}
        <4>. DEFINE names(p) == <<hooks[p[1]].sequence, hooks[p[2]].sequence>>
        <4>1. \A i \in 1 .. k - 1 : names(<<i, k>>) = <<hooks[i].sequence, h>>
          OBVIOUS
        <4>. HIDE DEF names
        <4>2. {names(p) : p \in {<<i, k>> : i \in 1 .. k - 1}}
                = {<<hooks[i].sequence, h>> : i \in 1 .. k - 1}
          BY <4>1
        <4>3. {<<g, h>> : g \in OpenResources} = {<<hooks[i].sequence, h>> : i \in 1 .. k - 1}
          BY <3>3
        <4>. QED  BY <4>2, <4>3 DEF names
      <3>6. OpenedBefore' = OpenedBefore \cup
              {<<hooks[p[1]].sequence, hooks[p[2]].sequence>> :
                 p \in {<<i, k>> : i \in 1 .. k - 1}}
        BY <3>1, <3>2, <3>4
      <3>. QED  BY <3>5, <3>6
    <2>. QED  BY <1>3, <1>4, <1>6, <2>1, <2>2 DEF Scopes!Open
  <1>7. ASSUME UpTo(k - 1), resource[h] = "idle", x # "up"
        PROVE  Scopes!OpenFails(h)
    <2>1. OpenResources' = OpenResources /\ OpenedBefore' = OpenedBefore
      BY <1>4, <1>7 DEF OpenResources, OpenedBefore
    <2>. QED  BY <1>3, <1>4, <1>7, <2>1 DEF Scopes!OpenFails
  <1>8. ASSUME UpTo(k), x # "up"
        PROVE  Scopes!Close(h)
    <2>1. h \in OpenResources
      BY <1>1, <1>5, <1>8 DEF OpenResources
    <2>2. \A g \in OpenResources : <<h, g>> \notin OpenedBefore
      BY <1>1, <1>5, <1>8 DEF OpenResources, OpenedBefore
    <2>3. OpenResources' = OpenResources \ {h}
      BY <1>1, <1>5, <1>8 DEF OpenResources
    <2>4. OpenedBefore' = {p \in OpenedBefore : p[2] # h}
      BY <1>1, <1>5, <1>8 DEF OpenedBefore
    <2>. QED  BY <1>3, <1>5, <1>8, <2>1, <2>2, <2>3, <2>4 DEF Scopes!Close
  <1>. QED  BY <1>6, <1>7, <1>8

\* A step that moves no hook changes neither what is open nor what was used.
LEMMA OtherStepsStutter ==
  ASSUME hooks' = hooks, resource' = resource
  PROVE  UNCHANGED Scopes!scopeVars
  BY DEF Scopes!scopeVars, OpenResources, OpenedBefore, UsedResources, UpHooks, Up

\* Before start() nothing is up, so registering and sorting change nothing.
LEMMA CreatedStepsStutter ==
  ASSUME IInv, IInv', state = "Created", resource' = resource
  PROVE  UNCHANGED Scopes!scopeVars
  <1>1. \A s \in Sequence : resource[s] = "idle"
    BY DEF IInv, Levels
  <1>2. /\ \A i \in DOMAIN hooks : hooks[i].sequence \in Sequence
        /\ \A i \in DOMAIN hooks' : hooks'[i].sequence \in Sequence
    BY HookSequence DEF IInv, TypeOK
  <1>3. UpHooks = {} /\ UpHooks' = {}
    BY <1>1, <1>2 DEF UpHooks, Up
  <1>. QED  BY <1>3 DEF Scopes!scopeVars, OpenResources, OpenedBefore, UsedResources

\* Every step of the manager is a step of the nested scopes, or stutters.
LEMMA NextSimulates ==
  ASSUME LateRegistration = FALSE, IInv, IInv', [Next]_lifecycleVars
  PROVE  [Scopes!ScopesNext]_(Scopes!scopeVars)
  <1>1. /\ DOMAIN hooks = 1 .. Len(hooks) /\ Len(hooks) \in Nat
        /\ \A i \in DOMAIN hooks : hooks[i].sequence \in Sequence
        /\ resource \in [Sequence -> HookStates]
    BY HookSequence DEF IInv, TypeOK
  <1>2. CASE AddHook \/ AddInfrastructureHook \/ Start
    <2>1. state = "Created" /\ resource' = resource
      BY <1>2 DEF AddHook, AddInfrastructureHook, Register, Start
    <2>. QED  BY <2>1, CreatedStepsStutter
  <1>3. CASE \/ StartRejected \/ Shutdown \/ ShutdownRejected \/ RollbackDone
             \/ StartDone \/ ShutdownDone \/ UNCHANGED lifecycleVars
    <2>1. hooks' = hooks /\ resource' = resource
      BY <1>3 DEF StartRejected, Shutdown, ShutdownRejected, RollbackDone, StartDone,
         ShutdownDone, lifecycleVars
    <2>. QED  BY <2>1, OtherStepsStutter
  <1>4. CASE StartHook \/ StartHookFails
    <2>1. /\ index \in DOMAIN hooks /\ hooks' = hooks
          /\ resource[hooks[index].sequence] = "idle" /\ UpTo(index - 1)
      BY <1>4, StartLoop DEF StartHook, StartHookFails
    <2>2. \E x \in {"up", "start_failed"} :
            resource' = [resource EXCEPT ![hooks[index].sequence] = x]
      BY <1>1, <1>4, <2>1 DEF StartHook, StartHookFails, StartedAs
    <2>. QED  BY <1>1, <2>1, <2>2, HookStepsAScope DEF HookStates, Scopes!ScopesNext
  <1>5. CASE ShutdownHook
    <2>1. index \in DOMAIN hooks /\ hooks' = hooks /\ UpTo(index)
      BY <1>5 DEF ShutdownHook, IInv, Levels
    <2>2. \E x \in {"stopped", "stop_failed"} :
            resource' = [resource EXCEPT ![hooks[index].sequence] = x]
      <3>1. resource[hooks[index].sequence] = "up"
        BY <1>1, <2>1 DEF UpTo, Up
      <3>. QED  BY <1>5, <3>1 DEF ShutdownHook, Stop
    <2>. QED  BY <1>1, <2>1, <2>2, HookStepsAScope DEF HookStates, Scopes!ScopesNext
  <1>6. CASE RollbackHook
    <2>1. /\ Len(started) \in DOMAIN hooks /\ started[Len(started)] = Len(started)
          /\ hooks' = hooks /\ UpTo(Len(started))
      <3>1. started # <<>> /\ started \in Seq(1 .. MaxHooks) /\ call = "rollback" /\ hooks' = hooks
        BY <1>6 DEF IInv, TypeOK, RollbackHook
      <3>2. Len(started) \in Nat \ {0}
        BY <3>1
      <3>. QED  BY <1>1, <3>1, <3>2 DEF IInv, Levels
    <2>2. \E x \in {"stopped", "stop_failed"} :
            resource' = [resource EXCEPT ![hooks[Len(started)].sequence] = x]
      <3>1. resource[hooks[Len(started)].sequence] = "up"
        BY <1>1, <2>1 DEF UpTo, Up
      <3>. QED  BY <1>6, <2>1, <3>1 DEF RollbackHook, Stop
    <2>. QED  BY <1>1, <2>1, <2>2, HookStepsAScope DEF HookStates, Scopes!ScopesNext
  <1>7. CASE DropCall
    <2>1. PICK k \in DOMAIN hooks :
            /\ \/ call \in {"start", "shutdown"} /\ k = index
               \/ call = "rollback" /\ started # <<>> /\ k = started[Len(started)]
            /\ resource' = [resource EXCEPT ![hooks[k].sequence] = "interrupted"]
      BY <1>7 DEF DropCall
    <2>2. hooks' = hooks
      BY <1>7 DEF DropCall
    <2>3. \/ UpTo(k - 1) /\ resource[hooks[k].sequence] = "idle"
          \/ UpTo(k)
      <3>1. CASE call = "start"
        BY <2>1, <3>1, StartLoop
      <3>2. CASE call = "shutdown"
        BY <2>1, <3>2 DEF IInv, Levels
      <3>3. CASE call = "rollback"
        BY <1>1, <2>1, <3>3 DEF IInv, Levels, TypeOK
      <3>. QED  BY <2>1, <3>1, <3>2, <3>3
    <2>4. \/ Scopes!OpenFails(hooks[k].sequence)
          \/ Scopes!Close(hooks[k].sequence)
      <3>1. "interrupted" \in HookStates \ {"idle"}
        BY DEF HookStates
      <3>. QED  BY <2>1, <2>2, <2>3, <3>1, HookStepsAScope
    <2>. QED  BY <1>1, <2>1, <2>4 DEF Scopes!ScopesNext
  <1>. QED  BY <1>2, <1>3, <1>4, <1>5, <1>6, <1>7 DEF Next, CallStep

\* The manager implements nested scopes: whatever fails, and wherever a call
\* is dropped, a hook is opened at most once, and only the hook opened last
\* among those still up is ever closed.
THEOREM NestedScopesImplemented == LateRegistration = FALSE => (Spec => ImplementsNestedScopes)
  <1>. SUFFICES ASSUME LateRegistration = FALSE PROVE Spec => ImplementsNestedScopes
    OBVIOUS
  <1>1. Init => Scopes!ScopesInit
    BY DEF Init, Scopes!ScopesInit, OpenResources, OpenedBefore, UsedResources, UpHooks
  <1>2. IInv /\ IInv' /\ [Next]_lifecycleVars => [Scopes!ScopesNext]_(Scopes!scopeVars)
    BY NextSimulates
  <1>3. Spec => []IInv
    BY Invariance
  <1>. QED  BY <1>1, <1>2, <1>3, PTL DEF Spec, ImplementsNestedScopes, Scopes!ScopesSpec

-----------------------------------------------------------------------------
(***************************************************************************)
(* Which failure is reported. While a call runs, `failure` is the failed   *)
(* hook that is last in the list: the one whose start failed in a          *)
(* rollback, the first one whose stop failed in a shutdown.                *)
(***************************************************************************)
Failed(i) == resource[hooks[i].sequence] \in {"start_failed", "stop_failed"}

NoneFailed == \A i \in DOMAIN hooks : ~ Failed(i)

FirstFailed(k) ==
  /\ Failed(k)
  /\ failure = hooks[k].sequence
  /\ \A i \in DOMAIN hooks : i > k => ~ Failed(i)

FailureTracked ==
  /\ call = "rollback" =>
       \E k \in DOMAIN hooks :
         /\ Len(started) < k
         /\ FirstFailed(k)
         /\ \A i \in DOMAIN hooks : resource[hooks[i].sequence] = "start_failed" <=> i = k
  /\ call = "shutdown" =>
       /\ \A i \in DOMAIN hooks : resource[hooks[i].sequence] # "start_failed"
       /\ failure = NoHook => NoneFailed
       /\ failure # NoHook => \E k \in DOMAIN hooks : index < k /\ FirstFailed(k)
  /\ ReportsFirstFailure

FInv == IInv /\ FailureTracked

\* A step after which no hook call is undone and nothing is Stopped tracks nothing.
LEMMA NothingToTrack ==
  ASSUME call' \notin {"rollback", "shutdown"}, state' # "Stopped"
  PROVE  FailureTracked'
  BY DEF FailureTracked, ReportsFirstFailure

\* The hook that fails to start is the first one that failed: the earlier ones
\* are up, the later ones idle.
LEMMA StartHookFailsTracks == FInv /\ StartHookFails => FailureTracked'
  <1>. SUFFICES ASSUME FInv, StartHookFails PROVE FailureTracked'
    OBVIOUS
  <1>1. /\ hooks \in Seq(RegisteredHook) /\ DOMAIN hooks = 1 .. Len(hooks)
        /\ index \in DOMAIN hooks /\ Len(hooks) \in Nat
        /\ resource[hooks[index].sequence] = "idle"
        /\ hooks[index].sequence \in Sequence
        /\ UpTo(index - 1)
        /\ started = [j \in 1 .. index - 1 |-> j]
    BY StartLoop DEF StartHookFails, FInv
  <1>2. /\ resource' = [resource EXCEPT ![hooks[index].sequence] = "start_failed"]
        /\ hooks' = hooks /\ failure' = hooks[index].sequence /\ started' = started
        /\ call' = "rollback" /\ state' = "Starting"
    BY <1>1 DEF StartHookFails, StartedAs, FInv, IInv, TypeOK, CallMatchesState
  <1>3. /\ resource'[hooks[index].sequence] = "start_failed"
        /\ \A i \in DOMAIN hooks : i # index =>
             resource'[hooks[i].sequence] = resource[hooks[i].sequence]
    BY <1>1, <1>2, OtherHooksUnchanged DEF FInv, IInv, HookStates
  <1>4. \A i \in DOMAIN hooks : resource[hooks[i].sequence] \in {"up", "idle"}
    BY <1>1 DEF FInv, IInv, Levels, UpTo, Up, StartHookFails
  <1>5. PICK k \in DOMAIN hooks : k = index
    BY <1>1
  <1>6. FirstFailed(k)'
    BY <1>1, <1>2, <1>3, <1>4, <1>5 DEF FirstFailed, Failed
  <1>7. \A i \in DOMAIN hooks' : resource'[hooks'[i].sequence] = "start_failed" <=> i = k
    BY <1>2, <1>3, <1>4, <1>5
  <1>8. Len(started') < k /\ k \in DOMAIN hooks'
    BY <1>1, <1>2, <1>5
  <1>. QED  BY <1>2, <1>6, <1>7, <1>8 DEF FailureTracked, ReportsFirstFailure

\* Undoing the hooks that did start does not change which hook did not.
LEMMA RollbackHookTracks == FInv /\ RollbackHook => FailureTracked'
  <1>. SUFFICES ASSUME FInv, RollbackHook PROVE FailureTracked'
    OBVIOUS
  <1>1. PICK n \in DOMAIN hooks :
          /\ n = Len(started) /\ started[Len(started)] = n
          /\ resource[hooks[n].sequence] = "up"
    <2>1. started # <<>> /\ started \in Seq(1 .. MaxHooks) /\ call = "rollback"
      BY DEF FInv, IInv, TypeOK, RollbackHook
    <2>2. Len(started) \in Nat \ {0}
      BY <2>1
    <2>3. Len(hooks) \in Nat /\ DOMAIN hooks = 1 .. Len(hooks)
      BY HookSequence DEF FInv, IInv, TypeOK
    <2>4. /\ UpTo(Len(started)) /\ Len(started) \in DOMAIN hooks
          /\ started[Len(started)] = Len(started)
      BY <2>1, <2>2, <2>3 DEF FInv, IInv, Levels
    <2>. QED  BY <2>2, <2>4 DEF UpTo, Up
  <1>2. /\ hooks \in Seq(RegisteredHook) /\ DOMAIN hooks = 1 .. Len(hooks) /\ Len(hooks) \in Nat
        /\ started \in Seq(1 .. MaxHooks)
        /\ state = "Starting"
    BY HookSequence DEF FInv, IInv, TypeOK, CallMatchesState, RollbackHook
  <1>3. PICK x \in {"stopped", "stop_failed"} :
          resource' = [resource EXCEPT ![hooks[n].sequence] = x]
    BY <1>1 DEF RollbackHook, Stop
  <1>4. /\ hooks' = hooks /\ failure' = failure /\ call' = "rollback" /\ state' = state
        /\ Len(started') = n - 1
    BY <1>1, <1>2 DEF RollbackHook
  <1>5. /\ resource'[hooks[n].sequence] = x
        /\ \A i \in DOMAIN hooks : i # n =>
             resource'[hooks[i].sequence] = resource[hooks[i].sequence]
    BY <1>3, <1>4, OtherHooksUnchanged DEF FInv, IInv, HookStates
  <1>6. PICK k \in DOMAIN hooks :
          /\ n < k
          /\ FirstFailed(k)
          /\ \A i \in DOMAIN hooks : resource[hooks[i].sequence] = "start_failed" <=> i = k
    BY <1>1 DEF FInv, FailureTracked, RollbackHook
  <1>7. FirstFailed(k)'
    <2>1. k \in Nat /\ n \in Nat /\ k # n
      BY <1>2, <1>6
    <2>2. \A i \in DOMAIN hooks : i >= k => i # n
      BY <1>2, <1>6, <2>1
    <2>3. Failed(k)' /\ \A i \in DOMAIN hooks : i > k => ~ Failed(i)'
      BY <1>4, <1>5, <1>6, <2>1, <2>2 DEF FirstFailed, Failed
    <2>. QED  BY <1>4, <1>6, <2>3 DEF FirstFailed
  <1>8. \A i \in DOMAIN hooks' : resource'[hooks'[i].sequence] = "start_failed" <=> i = k
    BY <1>2, <1>4, <1>5, <1>6
  <1>. QED  BY <1>2, <1>4, <1>6, <1>7, <1>8 DEF FailureTracked, ReportsFirstFailure

\* A finished rollback reports the hook that did not start.
LEMMA RollbackDoneTracks == FInv /\ RollbackDone => FailureTracked'
  <1>. SUFFICES ASSUME FInv, RollbackDone PROVE FailureTracked'
    OBVIOUS
  <1>1. PICK k \in DOMAIN hooks :
          /\ FirstFailed(k)
          /\ \A i \in DOMAIN hooks : resource[hooks[i].sequence] = "start_failed" <=> i = k
    BY DEF FInv, FailureTracked, RollbackDone
  <1>2. /\ DOMAIN hooks = 1 .. Len(hooks) /\ Len(hooks) \in Nat
        /\ UNCHANGED <<hooks, failure, resource>>
        /\ call' = "none" /\ result' = "startup_failed"
    BY HookSequence DEF FInv, IInv, TypeOK, RollbackDone
  <1>3. ASSUME NEW i \in DOMAIN hooks, resource[hooks[i].sequence] = "stop_failed",
               \A j \in DOMAIN hooks : j > i => ~ Failed(j)
        PROVE  FALSE
    BY <1>1, <1>2, <1>3 DEF FirstFailed, Failed
  <1>. QED  BY <1>1, <1>2, <1>3 DEF FailureTracked, ReportsFirstFailure, FirstFailed, Failed

\* A shutdown keeps the first failure it met, which is the last in the list.
LEMMA ShutdownHookTracks == FInv /\ ShutdownHook => FailureTracked'
  <1>. SUFFICES ASSUME FInv, ShutdownHook PROVE FailureTracked'
    OBVIOUS
  <1>1. PICK n \in DOMAIN hooks : n = index
    BY DEF ShutdownHook
  <1>2. /\ hooks \in Seq(RegisteredHook) /\ DOMAIN hooks = 1 .. Len(hooks) /\ Len(hooks) \in Nat
        /\ \A i \in DOMAIN hooks : hooks[i].sequence \in Sequence
        /\ \A s \in Sequence : s # NoHook
        /\ failure \in Sequence \cup {NoHook}
        /\ UpTo(n) /\ state = "Stopping"
    BY <1>1, HookSequence, MaxHooksAssumption
       DEF FInv, IInv, TypeOK, Levels, CallMatchesState, ShutdownHook, Sequence, NoHook
  <1>3. resource[hooks[n].sequence] = "up"
    BY <1>2 DEF UpTo, Up
  <1>4. PICK ok \in BOOLEAN :
          /\ resource' = [resource EXCEPT ![hooks[n].sequence] =
                            IF ok THEN "stopped" ELSE "stop_failed"]
          /\ failure' = IF ~ok /\ failure = NoHook THEN hooks[n].sequence ELSE failure
    BY <1>1, <1>3 DEF ShutdownHook, Stop
  <1>5. /\ hooks' = hooks /\ call' = "shutdown" /\ state' = state /\ index' = n - 1
    BY <1>1 DEF ShutdownHook
  <1>6. /\ resource'[hooks[n].sequence] = IF ok THEN "stopped" ELSE "stop_failed"
        /\ \A i \in DOMAIN hooks : i # n =>
             resource'[hooks[i].sequence] = resource[hooks[i].sequence]
    BY <1>4, <1>5, OtherHooksUnchanged DEF FInv, IInv, HookStates
  <1>7. /\ \A i \in DOMAIN hooks : resource[hooks[i].sequence] # "start_failed"
        /\ failure = NoHook => NoneFailed
        /\ failure # NoHook => \E k \in DOMAIN hooks : n < k /\ FirstFailed(k)
    BY <1>1 DEF FInv, FailureTracked, ShutdownHook
  <1>8. \A i \in DOMAIN hooks' : resource'[hooks'[i].sequence] # "start_failed"
    BY <1>5, <1>6, <1>7
  <1>9. failure' = NoHook => NoneFailed'
    <2>. SUFFICES ASSUME failure' = NoHook PROVE NoneFailed'
      OBVIOUS
    <2>1. ok /\ failure = NoHook
      BY <1>2, <1>4
    <2>. QED  BY <1>5, <1>6, <1>7, <2>1 DEF NoneFailed, Failed
  <1>10. failure' # NoHook => \E k \in DOMAIN hooks' : n - 1 < k /\ FirstFailed(k)'
    <2>. SUFFICES ASSUME failure' # NoHook
                  PROVE  \E k \in DOMAIN hooks' : n - 1 < k /\ FirstFailed(k)'
      OBVIOUS
    <2>1. CASE failure = NoHook
      <3>1. ~ok /\ failure' = hooks[n].sequence
        BY <1>4, <2>1
      <3>2. FirstFailed(n)'
        BY <1>2, <1>5, <1>6, <1>7, <2>1, <3>1 DEF FirstFailed, NoneFailed, Failed
      <3>. QED  BY <1>2, <1>5, <3>2
    <2>2. CASE failure # NoHook
      <3>1. PICK k \in DOMAIN hooks : n < k /\ FirstFailed(k)
        BY <1>7, <2>2
      <3>2. failure' = failure
        BY <1>4, <2>2
      <3>3. FirstFailed(k)'
        BY <1>2, <1>5, <1>6, <3>1, <3>2 DEF FirstFailed, Failed
      <3>. QED  BY <1>2, <1>5, <3>1, <3>3
    <2>. QED  BY <2>1, <2>2
  <1>. QED
    BY <1>2, <1>5, <1>8, <1>9, <1>10 DEF FailureTracked, ReportsFirstFailure

\* A finished shutdown reports it, and reports success only if no stop failed.
LEMMA ShutdownDoneTracks == FInv /\ ShutdownDone => FailureTracked'
  <1>. SUFFICES ASSUME FInv, ShutdownDone PROVE FailureTracked'
    OBVIOUS
  <1>1. /\ \A i \in DOMAIN hooks : resource[hooks[i].sequence] # "start_failed"
        /\ failure = NoHook => NoneFailed
        /\ failure # NoHook => \E k \in DOMAIN hooks : FirstFailed(k)
    BY DEF FInv, FailureTracked, ShutdownDone
  <1>2. /\ DOMAIN hooks = 1 .. Len(hooks) /\ Len(hooks) \in Nat
        /\ UNCHANGED <<hooks, failure, resource>> /\ call' = "none"
        /\ result' = IF failure = NoHook THEN "ok" ELSE "shutdown_failed"
    BY HookSequence DEF FInv, IInv, TypeOK, ShutdownDone
  <1>3. CASE failure = NoHook
    BY <1>1, <1>2, <1>3 DEF FailureTracked, ReportsFirstFailure, NoneFailed, Failed
  <1>4. CASE failure # NoHook
    <2>1. PICK k \in DOMAIN hooks : FirstFailed(k)
      BY <1>1, <1>4
    <2>2. ASSUME NEW i \in DOMAIN hooks, Failed(i),
                 \A j \in DOMAIN hooks : j > i => ~ Failed(j)
          PROVE  i = k
      BY <1>2, <2>1, <2>2 DEF FirstFailed
    <2>. QED
      BY <1>1, <1>2, <1>4, <2>1, <2>2
         DEF FailureTracked, ReportsFirstFailure, FirstFailed, Failed
  <1>. QED  BY <1>3, <1>4

\* Every step that keeps the manager's invariant keeps track of the failure.
LEMMA NextTracks ==
  ASSUME FInv, [Next]_lifecycleVars, NoLateHook
  PROVE  FailureTracked'
  <1>1. CASE AddHook \/ AddInfrastructureHook
    <2>1. call = "none" /\ call' = call /\ state = "Created" /\ state' = state
      BY <1>1, RegistrationIsEarly DEF Register, FInv, IInv
    <2>. QED  BY <2>1, NothingToTrack
  <1>2. CASE Start \/ StartHook \/ StartDone \/ DropCall
    <2>1. call' \notin {"rollback", "shutdown"} /\ state' # "Stopped"
      BY <1>2 DEF Start, StartHook, StartDone, DropCall, FInv, IInv, CallMatchesState, TypeOK,
         Calls
    <2>. QED  BY <2>1, NothingToTrack
  <1>3. CASE StartRejected \/ ShutdownRejected \/ UNCHANGED lifecycleVars
    <2>1. /\ UNCHANGED <<hooks, call, index, started, failure, resource, state>>
          /\ result' \in {result, "invalid_transition"}
      BY <1>3 DEF StartRejected, ShutdownRejected, lifecycleVars
    <2>. QED
      BY <2>1 DEF FInv, FailureTracked, ReportsFirstFailure, FirstFailed, NoneFailed, Failed
  <1>4. CASE Shutdown
    <2>1. /\ \A i \in DOMAIN hooks : resource[hooks[i].sequence] = "up"
          /\ UNCHANGED <<hooks, resource>> /\ failure' = NoHook
          /\ call' = "shutdown" /\ state' = "Stopping"
      BY <1>4, HookSequence DEF Shutdown, FInv, IInv, TypeOK, Levels, UpTo, Up
    <2>. QED  BY <2>1 DEF FailureTracked, ReportsFirstFailure, NoneFailed, Failed
  <1>. QED
    BY <1>1, <1>2, <1>3, <1>4, StartHookFailsTracks, RollbackHookTracks, RollbackDoneTracks,
       ShutdownHookTracks, ShutdownDoneTracks DEF Next, CallStep

\* The error of a stopped application is about the hook that failed first.
THEOREM FirstFailureReported == LateRegistration = FALSE => (Spec => []ReportsFirstFailure)
  <1>. SUFFICES ASSUME LateRegistration = FALSE PROVE Spec => []ReportsFirstFailure
    OBVIOUS
  <1>1. Init => FInv
    BY InitEstablishes DEF Init, FInv, FailureTracked, ReportsFirstFailure
  <1>2. FInv /\ [Next]_lifecycleVars => FInv'
    BY NextPreserves, NextTracks, RegisteredInTime DEF FInv
  <1>3. FInv => ReportsFirstFailure
    BY DEF FInv, FailureTracked
  <1>. QED  BY <1>1, <1>2, <1>3, PTL DEF Spec

-----------------------------------------------------------------------------
(***************************************************************************)
(* HttpRuntime. Its proofs rest on the invariants of Lifecycle: each step  *)
(* of the runtime takes a step of the manager, or none, and hooks are      *)
(* registered only while it is Created.                                    *)
(***************************************************************************)

(***************************************************************************)
(* The inductive invariant: what each phase of run() has established about *)
(* the manager, the listener, the requests and the error it carries.       *)
(***************************************************************************)
BeforeServing ==
  /\ phase = "preparing" => state = "Created" /\ call = "none"
  /\ phase = "starting" => call \in {"start", "rollback"}
  /\ phase = "binding" => state = "Running" /\ call = "none"
  /\ phase \in {"preparing", "starting", "binding"} => operation = "pending" /\ inflight = 0

Serving ==
  /\ phase \in {"serving", "draining"} =>
       state = "Running" /\ call = "none" /\ operation = "pending"
  /\ listening => phase = "serving"

Ending ==
  /\ phase = "finishing" => call = "shutdown" /\ operation # "pending"
  /\ phase = "returned" => call = "none"
  /\ phase \in {"finishing", "returned", "killed"} /\ operation # "serve" => inflight = 0

RInv ==
  /\ FInv
  /\ RuntimeTypeOK
  /\ BeforeServing
  /\ Serving
  /\ Ending
  /\ ReturnedRunIsStopped
  /\ NoFailureLost

-----------------------------------------------------------------------------
(***************************************************************************)
(* The manager, seen from the runtime.                                     *)
(***************************************************************************)
\* The runtime takes no step of the manager that its proofs do not cover.
LEMMA ManagerStep ==
  ASSUME RInv, [RuntimeNext]_allVars
  PROVE  [Next]_lifecycleVars /\ NoLateHook
  <1>. USE DEF NoLateHook
  <1>1. CASE Prepare
    BY <1>1 DEF Prepare, Next, RInv, BeforeServing
  <1>2. CASE PreflightSucceeds
    BY <1>2 DEF PreflightSucceeds, Next, Start
  <1>3. CASE StartApplication
    BY <1>3 DEF StartApplication, Next, CallStep, StartHook, StartHookFails, RollbackHook
  <1>4. CASE StartFailed \/ ApplicationStarted
    BY <1>4 DEF StartFailed, ApplicationStarted, Next, CallStep, RollbackDone, StartDone
  <1>5. CASE BindFails \/ Drained \/ ServeFails
    BY <1>5 DEF BindFails, Drained, ServeFails, Next, Shutdown
  <1>6. CASE StopApplication \/ Finish
    BY <1>6 DEF StopApplication, Finish, Next, CallStep, ShutdownHook, ShutdownDone
  <1>7. CASE \/ PreflightFails \/ Bind \/ ShutdownSignal \/ Accept \/ Respond
             \/ RequestStop \/ CtrlCTooEarly \/ UNCHANGED allVars
    BY <1>7 DEF PreflightFails, Bind, ShutdownSignal, Accept, Respond, RequestStop,
       CtrlCTooEarly, allVars, lifecycleVars
  <1>. QED  BY <1>1, <1>2, <1>3, <1>4, <1>5, <1>6, <1>7 DEF RuntimeNext, RuntimeStep

\* The manager's invariants hold along the runtime as they do alone.
LEMMA ManagerPreserved ==
  ASSUME RInv, [RuntimeNext]_allVars
  PROVE  FInv'
  BY ManagerStep, NextPreserves, NextTracks DEF RInv, FInv

\* When the loops of start() and shutdown() have ended, every hook is up, or none.
LEMMA HooksFollowState ==
  ASSUME IInv
  PROVE  /\ state = "Running" => \A i \in DOMAIN hooks : Up(i)
         /\ state \in {"Created", "Stopped"} => \A i \in DOMAIN hooks : ~Up(i)
  BY HookSequence DEF IInv, TypeOK, Levels, UpTo, Up

\* A shutdown returns "ok" exactly when no hook failed in it.
LEMMA ShutdownResult ==
  ASSUME FInv, ShutdownDone
  PROVE  result' = "ok" <=> ~ \E i \in DOMAIN hooks' :
                                resource'[hooks'[i].sequence] \in {"start_failed", "stop_failed"}
  <1>1. UNCHANGED <<hooks, resource>> /\ result' = IF failure = NoHook THEN "ok" ELSE "shutdown_failed"
    BY DEF ShutdownDone
  <1>2. /\ failure = NoHook => NoneFailed
        /\ failure # NoHook => \E k \in DOMAIN hooks : FirstFailed(k)
    BY DEF FInv, FailureTracked, ShutdownDone
  <1>. QED  BY <1>1, <1>2 DEF NoneFailed, FirstFailed, Failed

-----------------------------------------------------------------------------
(***************************************************************************)
(* The steps of the runtime. Two steps end a run that had hooks to stop:   *)
(* StartFailed after the rollback, Finish after the shutdown.              *)
(***************************************************************************)
\* The runtime's own variables keep their types.
LEMMA TypesKept ==
  ASSUME RInv, [RuntimeNext]_allVars
  PROVE  RuntimeTypeOK'
  <1>1. TypeOK'
    BY ManagerPreserved DEF FInv, IInv
  <1>. USE <1>1, MaxInflightAssumption
       DEF RInv, RuntimeTypeOK, Phases, Operations, Outcomes, runtimeVars, allVars
  <1>2. CASE Prepare \/ StartApplication \/ StopApplication \/ UNCHANGED allVars
    BY <1>2 DEF Prepare, StartApplication, StopApplication
  <1>3. CASE PreflightFails \/ PreflightSucceeds \/ StartFailed \/ ApplicationStarted
    BY <1>3 DEF PreflightFails, PreflightSucceeds, StartFailed, ApplicationStarted
  <1>4. CASE Bind \/ BindFails \/ ShutdownSignal \/ Drained \/ ServeFails
    BY <1>4 DEF Bind, BindFails, ShutdownSignal, Drained, ServeFails
  <1>5. CASE RequestStop \/ CtrlCTooEarly
    BY <1>5 DEF RequestStop, CtrlCTooEarly
  <1>6. CASE Accept \/ Respond
    <2>1. inflight' \in 0 .. MaxInflight
      BY <1>6 DEF Accept, Respond
    <2>. QED  BY <1>6, <2>1 DEF Accept, Respond
  <1>7. CASE Finish
    <2>1. operation \in {"ok", "bind", "serve"}
      BY <1>7 DEF Finish, Ending
    <2>. QED  BY <1>7, <2>1 DEF Finish
  <1>. QED  BY <1>2, <1>3, <1>4, <1>5, <1>6, <1>7 DEF RuntimeNext, RuntimeStep

\* Every step keeps what its phase has established.
LEMMA PhasesKept ==
  ASSUME RInv, [RuntimeNext]_allVars
  PROVE  BeforeServing' /\ Serving' /\ Ending'
  <1>. USE DEF RInv, RuntimeTypeOK, BeforeServing, Serving, Ending, runtimeVars, allVars
  <1>1. CASE Prepare \/ PreflightFails \/ PreflightSucceeds
    <2>1. /\ phase = "preparing" /\ UNCHANGED <<listening, inflight, operation>>
          /\ \/ phase' \in {"preparing", "returned"} /\ state' = state /\ call' = call
             \/ phase' = "starting" /\ call' = "start"
      BY <1>1 DEF Prepare, PreflightFails, PreflightSucceeds, AddHook, AddInfrastructureHook,
         Register, Start, lifecycleVars
    <2>. QED  BY <2>1
  <1>2. CASE StartApplication \/ StartFailed \/ ApplicationStarted
    BY <1>2 DEF StartApplication, StartFailed, ApplicationStarted, StartHook, StartHookFails,
       RollbackHook, RollbackDone, StartDone
  <1>3. CASE Bind \/ BindFails \/ ShutdownSignal \/ Drained \/ ServeFails
    BY <1>3 DEF Bind, BindFails, ShutdownSignal, Drained, ServeFails, Shutdown, lifecycleVars
  <1>4. CASE Accept \/ Respond \/ RequestStop \/ CtrlCTooEarly \/ UNCHANGED allVars
    BY <1>4 DEF Accept, Respond, RequestStop, CtrlCTooEarly, lifecycleVars
  <1>5. CASE StopApplication \/ Finish
    BY <1>5 DEF StopApplication, Finish, ShutdownHook, ShutdownDone
  <1>. QED  BY <1>1, <1>2, <1>3, <1>4, <1>5 DEF RuntimeNext, RuntimeStep

\* A run returns only with the listener closed and the hooks down.
LEMMA ReturnsStopped ==
  ASSUME RInv, [RuntimeNext]_allVars
  PROVE  ReturnedRunIsStopped'
  <1>1. IInv' /\ Serving' /\ RuntimeTypeOK'
    BY ManagerPreserved, TypesKept, PhasesKept DEF FInv
  <1>2. phase' = "returned" => state' = IF outcome' = "bootstrap" THEN "Created" ELSE "Stopped"
    <2>. SUFFICES ASSUME phase' = "returned"
                  PROVE  state' = IF outcome' = "bootstrap" THEN "Created" ELSE "Stopped"
      OBVIOUS
    <2>1. CASE phase = "returned"
      BY <2>1 DEF RuntimeNext, RuntimeStep, Prepare, PreflightFails, PreflightSucceeds,
         StartApplication, StartFailed, ApplicationStarted, Bind, BindFails, ShutdownSignal,
         Drained, ServeFails, StopApplication, Finish, Accept, Respond, RequestStop,
         CtrlCTooEarly, RInv, Serving, ReturnedRunIsStopped, lifecycleVars, allVars, runtimeVars
    <2>2. CASE phase # "returned"
      BY <2>2 DEF RuntimeNext, RuntimeStep, Prepare, PreflightFails, PreflightSucceeds,
         StartApplication, StartFailed, ApplicationStarted, Bind, BindFails, ShutdownSignal,
         Drained, ServeFails, StopApplication, Finish, Accept, Respond, RequestStop,
         CtrlCTooEarly, RollbackDone, ShutdownDone, RInv, BeforeServing, RuntimeTypeOK,
         Operations, lifecycleVars, allVars, runtimeVars
    <2>. QED  BY <2>1, <2>2
  <1>3. (\A i \in DOMAIN hooks : ~Up(i))' \/ state' \notin {"Created", "Stopped"}
    BY <1>1, HookSequence DEF IInv, TypeOK, Levels, UpTo, Up
  <1>. QED  BY <1>1, <1>2, <1>3 DEF ReturnedRunIsStopped, Serving

\* The outcome names every failure, when start() fails and when finish() returns.
LEMMA FailuresNamed ==
  ASSUME RInv, [RuntimeNext]_allVars
  PROVE  NoFailureLost'
  <1>1. ReportsFirstFailure'
    BY ManagerPreserved DEF FInv, FailureTracked
  <1>2. CASE StartFailed
    <2>1. operation' = "pending" /\ outcome' = "lifecycle"
      BY <1>2 DEF StartFailed, RInv, BeforeServing
    <2>. QED  BY <1>1, <2>1 DEF NoFailureLost
  <1>3. CASE Finish
    <2>1. operation \in {"ok", "bind", "serve"} /\ operation' = operation
      BY <1>3 DEF Finish, Ending, RInv, RuntimeTypeOK, Operations
    <2>2. result' = "ok" <=> ~ \E i \in DOMAIN hooks' :
                                  resource'[hooks'[i].sequence] \in {"start_failed", "stop_failed"}
      BY <1>3, ShutdownResult DEF Finish, RInv
    <2>3. CASE operation = "ok"
      BY <1>1, <1>3, <2>1, <2>2, <2>3 DEF Finish, NoFailureLost
    <2>4. CASE operation \in {"bind", "serve"}
      BY <1>1, <1>3, <2>1, <2>2, <2>4 DEF Finish, NoFailureLost
    <2>. QED  BY <2>1, <2>3, <2>4
  <1>4. CASE phase' # "returned"
    BY <1>1, <1>4 DEF NoFailureLost
  <1>5. CASE PreflightFails
    BY <1>1, <1>5 DEF NoFailureLost, PreflightFails
  <1>6. CASE phase' = "returned" /\ phase = "returned"
    <2>1. UNCHANGED <<hooks, resource, operation, outcome>>
      BY <1>6 DEF RuntimeNext, RuntimeStep, Prepare, PreflightFails, PreflightSucceeds,
         StartApplication, StartFailed, ApplicationStarted, Bind, BindFails, ShutdownSignal,
         Drained, ServeFails, StopApplication, Finish, Accept, Respond, RequestStop,
         CtrlCTooEarly, lifecycleVars, allVars, runtimeVars
    <2>. QED  BY <1>1, <1>6, <2>1 DEF NoFailureLost, RInv
  <1>7. phase' # "returned" \/ phase = "returned" \/ PreflightFails \/ StartFailed \/ Finish
    BY DEF RuntimeNext, RuntimeStep, Prepare, PreflightSucceeds, StartApplication,
       ApplicationStarted, Bind, BindFails, ShutdownSignal, Drained, ServeFails,
       StopApplication, Accept, Respond, RequestStop, CtrlCTooEarly, allVars, runtimeVars
  <1>. QED  BY <1>2, <1>3, <1>4, <1>5, <1>6, <1>7

-----------------------------------------------------------------------------
(***************************************************************************)
(* The invariant and what follows from it.                                 *)
(***************************************************************************)
\* Every reachable state of the runtime satisfies the inductive invariant.
THEOREM RuntimeInvariance == RuntimeSpec => []RInv
  <1>1. RuntimeInit => RInv
    <2>. SUFFICES ASSUME RuntimeInit PROVE RInv
      OBVIOUS
    <2>1. FInv
      BY InitEstablishes DEF RuntimeInit, Init, FInv, FailureTracked, ReportsFirstFailure
    <2>2. /\ phase = "preparing" /\ listening = FALSE /\ inflight = 0 /\ operation = "pending"
          /\ state = "Created" /\ call = "none" /\ stopping = FALSE /\ outcome = "none"
      BY DEF RuntimeInit, Init
    <2>3. RuntimeTypeOK
      <3>1. TypeOK
        BY <2>1 DEF FInv, IInv
      <3>2. inflight \in 0 .. MaxInflight
        BY <2>2, MaxInflightAssumption
      <3>. QED  BY <2>2, <3>1, <3>2 DEF RuntimeTypeOK, Phases, Operations, Outcomes
    <2>4. ReturnedRunIsStopped /\ NoFailureLost
      BY <2>1, <2>2 DEF FInv, FailureTracked, ReturnedRunIsStopped, NoFailureLost
    <2>. QED  BY <2>1, <2>2, <2>3, <2>4 DEF RInv, BeforeServing, Serving, Ending
  <1>2. RInv /\ [RuntimeNext]_allVars => RInv'
    BY ManagerPreserved, TypesKept, PhasesKept, ReturnsStopped, FailuresNamed DEF RInv
  <1>. QED  BY <1>1, <1>2, PTL DEF RuntimeSpec

\* A request in flight, and an open listener, always meet an application with
\* every hook up, unless serving itself failed.
THEOREM RequestsAreServed == RuntimeSpec => []RequestsSeeRunningApplication
  <1>1. RInv => RequestsSeeRunningApplication
    <2>. SUFFICES ASSUME RInv, listening \/ inflight > 0, operation # "serve"
                  PROVE  state = "Running" /\ \A i \in DOMAIN hooks : Up(i)
      BY DEF RequestsSeeRunningApplication
    <2>1. phase \in {"serving", "draining"}
      BY DEF RInv, RuntimeTypeOK, BeforeServing, Serving, Ending, Phases
    <2>. QED  BY <2>1, HooksFollowState DEF RInv, FInv, Serving
  <1>. QED  BY <1>1, RuntimeInvariance, PTL

\* run() and serve() return with nothing up and nothing listening.
THEOREM RunsReturnStopped == RuntimeSpec => []ReturnedRunIsStopped
  <1>1. RInv => ReturnedRunIsStopped
    BY DEF RInv
  <1>. QED  BY <1>1, RuntimeInvariance, PTL

\* What run() or serve() returns names every failure met on the way.
THEOREM FailuresReported == RuntimeSpec => []NoFailureLost
  <1>1. RInv => NoFailureLost
    BY DEF RInv
  <1>. QED  BY <1>1, RuntimeInvariance, PTL

=============================================================================
