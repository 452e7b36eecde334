---------------------------- MODULE DatabaseProofs ----------------------------
(***************************************************************************)
(* Proofs about Database, for every set of instances and of declared       *)
(* tables and every bound: what the lifecycle hook of an instance makes    *)
(* certain, and what the history of one database looks like, whatever      *)
(* instances and commands do at the same time.                             *)
(***************************************************************************)
EXTENDS Database, Integers, FiniteSetTheorems, WellFoundedInduction, TLAPS

Tables == UNION Declarations

Migration == [creates : SUBSET Tables, drops : SUBSET Tables,
              desired : SUBSET Tables, basis : SUBSET Nat]

Plan == [pending : {TRUE}, plan : [creates : SUBSET Tables, drops : SUBSET Tables],
         desired : SUBSET Tables, basis : SUBSET Nat]

(***************************************************************************)
(* The inductive invariant, in five parts.                                 *)
(***************************************************************************)
DatabaseTypeOK ==
  /\ migrations \in Seq(Migration)
  /\ applied \subseteq 1 .. Len(migrations)
  /\ schema \subseteq Tables
  /\ generating \in {NoPlan} \cup Plan
  /\ step \in [Sessions -> {"idle", "reading", "working"}]
  /\ source \in [Sessions -> 0 .. Len(migrations)]
  /\ todo \in [Sessions -> SUBSET Nat]
  /\ phase \in [Instances -> Phases]
  /\ settings \in [Instances -> [pool_size : 0 .. MaxPoolSize, migrate : BOOLEAN,
                                 embedded : BOOLEAN]]
  /\ closed \in [Instances -> BOOLEAN]
  /\ waiting \in [Instances -> BOOLEAN]
  /\ closures \in [Instances -> Nat]
  /\ reverted \in [Instances -> SUBSET Nat]
  /\ overlapped \in BOOLEAN

\* What a session still has to do comes from its own source, and is there to do.
SessionInv ==
  /\ \A s \in Sessions :
       /\ todo[s] \subseteq SourceVersions(s)
       /\ step[s] # "working" => todo[s] = {}
  /\ todo["rollback"] \subseteq applied

\* The migration closure of an instance belongs to its start, dropped or not.
HookInv ==
  \A i \in Instances :
    /\ phase[i] = "migrating" => step[i] # "idle"
    /\ step[i] # "idle" => phase[i] \in {"migrating", "dropped"} /\ settings[i].migrate
    /\ closed[i] <=> phase[i] \in {"failed", "stopped"}
    /\ settings[i].migrate => settings[i].embedded

\* What the closure has taken from its list is in the database.
MigratedInv ==
  \A i \in Instances :
    \/ step[i] = "working"
    \/ phase[i] \in {"started", "running"} /\ settings[i].migrate
    => SourceVersions(i) \ todo[i] \subseteq applied \cup reverted[i]

\* Without overlaps the same holds of every session, with nothing reverted, and
\* a rollback works on the last of the applied versions.
OrderInv ==
  ~overlapped =>
    /\ GapsNeedAnOverlap
    /\ \A s \in Sessions \ {"rollback"} :
         step[s] = "working" => SourceVersions(s) \ todo[s] \subseteq applied
    /\ step["rollback"] # "idle" => applied \subseteq SourceVersions("rollback")
    /\ \A v \in todo["rollback"] : \A u \in applied : u <= v

(***************************************************************************)
(* The tables that exist are a function of the applied versions alone: for *)
(* each table, the creations outnumber the drops by one exactly if it      *)
(* exists. So a plan made on one set of versions means the same whenever   *)
(* that set is applied again.                                              *)
(***************************************************************************)
Bit(b) == IF b THEN 1 ELSE 0

Creators(files, versions, t) == {v \in versions : t \in files[v].creates}

Droppers(files, versions, t) == {v \in versions : t \in files[v].drops}

Net(files, versions, t) ==
  Cardinality(Creators(files, versions, t)) - Cardinality(Droppers(files, versions, t))

Plans(files, basis, change, desired) ==
  \A t \in Tables :
    Bit(t \in desired) =
      Net(files, basis, t) + Bit(t \in change.creates) - Bit(t \in change.drops)

SchemaInv ==
  /\ \A t \in Tables : Bit(t \in schema) = Net(migrations, applied, t)
  /\ \A v \in 1 .. Len(migrations) :
       /\ migrations[v].basis \subseteq 1 .. v - 1
       /\ Plans(migrations, migrations[v].basis, migrations[v], migrations[v].desired)
  /\ generating # NoPlan =>
       /\ generating.basis \subseteq 1 .. Len(migrations)
       /\ Plans(migrations, generating.basis, generating.plan, generating.desired)

DInv == DatabaseTypeOK /\ SessionInv /\ HookInv /\ MigratedInv /\ OrderInv /\ SchemaInv

-----------------------------------------------------------------------------
(***************************************************************************)
(* Lemmas about the operators.                                             *)
(***************************************************************************)
\* Min, which picks the next migration to apply, is the least element.
LEMMA LeastElement ==
  ASSUME NEW S \in SUBSET Nat, S # {}
  PROVE  Min(S) \in S /\ \A y \in S : Min(S) <= y
  <1>1. PICK x \in S : \A y \in S : <<y, x>> \notin OpToRel(<, Nat)
    BY NatLessThanWellFounded, WFMin
  <1>2. ASSUME NEW y \in S PROVE x <= y
    <2>1. x \in Nat /\ y \in Nat /\ <<y, x>> \in Nat \X Nat
      OBVIOUS
    <2>2. ~ (y < x)
      <3>1. y < x => <<y, x>> \in OpToRel(<, Nat)
        BY <2>1 DEF OpToRel
      <3>. QED  BY <1>1, <3>1
    <2>. QED  BY <2>1, <2>2
  <1>. QED  BY <1>2 DEF Min

\* Max, which picks the migration to revert, is the greatest element.
LEMMA GreatestElement ==
  ASSUME NEW n \in Nat, NEW S \in SUBSET (1 .. n), S # {}
  PROVE  Max(S) \in S /\ \A y \in S : y <= Max(S)
  <1>. DEFINE T == {n - x : x \in S}
  <1>1. T \in SUBSET Nat /\ T # {}
    <2>1. \A x \in S : x \in 1 .. n
      OBVIOUS
    <2>2. \A x \in S : n - x \in Nat
      BY <2>1
    <2>. QED  BY <2>2
  <1>2. PICK m \in T : \A y \in T : m <= y
    BY <1>1, LeastElement
  <1>3. PICK x \in S : m = n - x
    BY <1>2
  <1>4. ASSUME NEW y \in S PROVE y <= x
    <2>1. n - y \in T /\ x \in 1 .. n /\ y \in 1 .. n
      OBVIOUS
    <2>2. n - x <= n - y
      BY <1>2, <1>3, <2>1
    <2>. QED  BY <2>1, <2>2
  <1>5. \E z \in S : \A y \in S : z >= y
    BY <1>4
  <1>. HIDE DEF T
  <1>6. Max(S) \in S /\ \A y \in S : Max(S) >= y
    BY <1>5 DEF Max
  <1>. QED  BY <1>6

\* A version more among the applied ones counts once where it creates or drops.
LEMMA NetWithOneMore ==
  ASSUME NEW files, NEW versions, IsFiniteSet(versions), NEW v, v \notin versions, NEW t
  PROVE  /\ Net(files, versions, t) \in Int
         /\ Net(files, versions \cup {v}, t) =
              Net(files, versions, t) + Bit(t \in files[v].creates) - Bit(t \in files[v].drops)
  <1>. DEFINE C == Creators(files, versions, t)
              D == Droppers(files, versions, t)
  <1>1. /\ IsFiniteSet(C) /\ Cardinality(C) \in Nat
        /\ IsFiniteSet(D) /\ Cardinality(D) \in Nat
    BY FS_Subset, FS_CardinalityType DEF Creators, Droppers
  <1>2. Cardinality(Creators(files, versions \cup {v}, t)) =
          Cardinality(C) + Bit(t \in files[v].creates)
    <2>1. CASE t \in files[v].creates
      <3>1. Creators(files, versions \cup {v}, t) = C \cup {v} /\ v \notin C
        BY <2>1 DEF Creators
      <3>. QED  BY <1>1, <2>1, <3>1, FS_AddElement DEF Bit
    <2>2. CASE t \notin files[v].creates
      <3>1. Creators(files, versions \cup {v}, t) = C
        BY <2>2 DEF Creators
      <3>. QED  BY <1>1, <2>2, <3>1 DEF Bit
    <2>. QED  BY <2>1, <2>2
  <1>3. Cardinality(Droppers(files, versions \cup {v}, t)) =
          Cardinality(D) + Bit(t \in files[v].drops)
    <2>1. CASE t \in files[v].drops
      <3>1. Droppers(files, versions \cup {v}, t) = D \cup {v} /\ v \notin D
        BY <2>1 DEF Droppers
      <3>. QED  BY <1>1, <2>1, <3>1, FS_AddElement DEF Bit
    <2>2. CASE t \notin files[v].drops
      <3>1. Droppers(files, versions \cup {v}, t) = D
        BY <2>2 DEF Droppers
      <3>. QED  BY <1>1, <2>2, <3>1 DEF Bit
    <2>. QED  BY <2>1, <2>2
  <1>4. Bit(t \in files[v].creates) \in Nat /\ Bit(t \in files[v].drops) \in Nat
    BY DEF Bit
  <1>. HIDE DEF C, D
  <1>5. /\ Net(files, versions, t) = Cardinality(C) - Cardinality(D)
        /\ Net(files, versions \cup {v}, t) =
             Cardinality(Creators(files, versions \cup {v}, t))
               - Cardinality(Droppers(files, versions \cup {v}, t))
    BY DEF Net, C, D
  <1>. QED  BY <1>1, <1>2, <1>3, <1>4, <1>5

\* No versions amount to no tables.
LEMMA NetOfNothing == \A files, t : Net(files, {}, t) = 0
  <1>1. ASSUME NEW files, NEW t PROVE Creators(files, {}, t) = {} /\ Droppers(files, {}, t) = {}
    BY DEF Creators, Droppers
  <1>2. Cardinality({}) = 0
    BY FS_EmptySet
  <1>. QED  BY <1>1, <1>2 DEF Net

\* A session of an instance is not the session of a command.
LEMMA SessionNames ==
  /\ Instances \subseteq Sessions /\ "migrate" \in Sessions /\ "rollback" \in Sessions
  /\ "migrate" \notin Instances /\ "rollback" \notin Instances
  BY DatabaseAssumption DEF Sessions

\* A value is one bit whatever it says.
LEMMA BitType == \A b \in BOOLEAN : Bit(b) \in {0, 1}
  BY DEF Bit

-----------------------------------------------------------------------------
(***************************************************************************)
(* The steps, one part of the invariant at a time.                         *)
(***************************************************************************)
\* The steps on the connections of a pool leave everything else alone.
PoolStep(i) == Run(i) \/ Acquire(i) \/ LeaveQueue(i) \/ ClosureEnds(i)

\* Every step keeps the types.
LEMMA TypesPreserved ==
  ASSUME DInv, [Next]_vars
  PROVE  DatabaseTypeOK'
  <1>. USE SessionNames DEF DInv, DatabaseTypeOK, databaseVars, sessionVars, poolVars
  <1>1. CASE \E desired \in Declarations : Generate(desired)
    <2>1. PICK desired \in Declarations : Generate(desired)
      BY <1>1
    <2>2. generating' \in Plan
      BY <2>1 DEF Generate, Plan, Tables, Difference
    <2>. QED  BY <2>1, <2>2 DEF Generate
  <1>2. CASE PublishGenerated
    <2>1. generating \in Plan
      BY <1>2 DEF PublishGenerated
    <2>2. [creates |-> generating.plan.creates, drops |-> generating.plan.drops,
           desired |-> generating.desired, basis |-> generating.basis] \in Migration
      BY <2>1 DEF Plan, Migration
    <2>3. /\ migrations' \in Seq(Migration)
          /\ Len(migrations') = Len(migrations) + 1 /\ Len(migrations) \in Nat
      BY <1>2, <2>2 DEF PublishGenerated
    <2>4. applied' \subseteq 1 .. Len(migrations') /\ source' \in [Sessions -> 0 .. Len(migrations')]
      BY <1>2, <2>3 DEF PublishGenerated
    <2>. QED  BY <1>2, <2>3, <2>4 DEF PublishGenerated
  <1>3. CASE \E s \in Sessions : Command(s) \/ ReadPending(s)
    <2>1. PICK s \in Sessions : Command(s) \/ ReadPending(s)
      BY <1>3
    <2>2. Len(migrations) \in Nat
      OBVIOUS
    <2>3. CASE Command(s)
      BY <2>2, <2>3 DEF Command
    <2>4. CASE ReadPending(s)
      BY <2>2, <2>4 DEF ReadPending, SourceVersions
    <2>. QED  BY <2>1, <2>3, <2>4
  <1>4. CASE \E s \in Sessions : ApplyNext(s)
    <2>1. PICK s \in Sessions : ApplyNext(s)
      BY <1>4
    <2>2. todo[s] \subseteq Nat /\ todo[s] # {}
      BY <2>1 DEF ApplyNext
    <2>3. PICK v : v = Min(todo[s])
      OBVIOUS
    <2>4. v \in todo[s] /\ todo[s] \subseteq SourceVersions(s)
      BY <2>2, <2>3, LeastElement DEF SessionInv
    <2>5. v \in 1 .. Len(migrations)
      BY <2>4 DEF SourceVersions
    <2>6. migrations[v] \in Migration
      BY <2>5
    <2>7. migrations[v].creates \subseteq Tables
      BY <2>6 DEF Migration
    <2>8. /\ applied' = applied \cup {v}
          /\ schema' = (schema \ migrations[v].drops) \cup migrations[v].creates
          /\ todo' = [todo EXCEPT ![s] = @ \ {v}]
          /\ UNCHANGED <<migrations, generating, step, source, phase, settings, poolVars, reverted>>
          /\ overlapped' \in BOOLEAN
      BY <2>1, <2>3 DEF ApplyNext, Overlaps
    <2>. QED  BY <2>5, <2>7, <2>8
  <1>5. CASE MigrateReturns \/ ReadLatest
    <2>1. CASE MigrateReturns
      BY <2>1 DEF MigrateReturns, CommandReturns
    <2>2. CASE ReadLatest
      <3>. DEFINE mine == applied \cap SourceVersions("rollback")
      <3>1. CASE mine = {}
        <4>1. /\ CommandReturns("rollback")
              /\ UNCHANGED <<databaseVars, generating, phase, settings, poolVars,
                             reverted, overlapped>>
          BY <2>2, <3>1 DEF ReadLatest
        <4>. QED  BY <4>1 DEF CommandReturns
      <3>2. CASE mine # {}
        <4>1. source["rollback"] \in Nat /\ mine \in SUBSET (1 .. source["rollback"])
          BY DEF SourceVersions
        <4>2. Max(mine) \in mine
          BY <3>2, <4>1, GreatestElement
        <4>3. PICK v \in Nat : v = Max(mine)
          BY <4>1, <4>2
        <4>4. /\ step' = [step EXCEPT !["rollback"] = "working"]
              /\ todo' = [todo EXCEPT !["rollback"] = {v}]
              /\ UNCHANGED <<databaseVars, generating, source, phase, settings, poolVars,
                             reverted, overlapped>>
          BY <2>2, <3>2, <4>3 DEF ReadLatest, Latest
        <4>. QED  BY <4>4
      <3>. QED  BY <3>1, <3>2
    <2>. QED  BY <1>5, <2>1, <2>2
  <1>6. CASE RevertLatest
    <2>1. PICK v \in todo["rollback"] :
            IF Reverts(v)
            THEN /\ applied' = applied \ {v}
                 /\ schema' = (schema \ migrations[v].creates) \cup migrations[v].drops
                 /\ reverted' = [i \in Instances |->
                                   IF settings[i].migrate THEN reverted[i] \cup {v} ELSE {}]
                 /\ overlapped' = (overlapped \/ Overlaps("rollback"))
            ELSE UNCHANGED <<applied, schema, reverted, overlapped>>
      BY <1>6 DEF RevertLatest
    <2>2. /\ CommandReturns("rollback")
          /\ UNCHANGED <<migrations, generating, phase, settings, poolVars>>
      BY <1>6 DEF RevertLatest
    <2>3. v \in 1 .. Len(migrations) /\ v \in Nat
      BY <2>1 DEF SessionInv
    <2>4. migrations[v] \in Migration
      BY <2>3
    <2>5. migrations[v].drops \subseteq Tables
      BY <2>4 DEF Migration
    <2>6. /\ applied' \subseteq 1 .. Len(migrations) /\ schema' \subseteq Tables
          /\ reverted' \in [Instances -> SUBSET Nat] /\ overlapped' \in BOOLEAN
      <3>1. [i \in Instances |-> IF settings[i].migrate THEN reverted[i] \cup {v} ELSE {}]
              \in [Instances -> SUBSET Nat]
        BY <2>3
      <3>2. CASE Reverts(v)
        <4>1. applied' \subseteq 1 .. Len(migrations) /\ schema' \subseteq Tables
          BY <2>1, <2>5, <3>2
        <4>2. overlapped' \in BOOLEAN
          BY <2>1, <3>2 DEF Overlaps
        <4>. QED  BY <2>1, <3>1, <3>2, <4>1, <4>2
      <3>3. CASE ~Reverts(v)
        BY <2>1, <3>3
      <3>. QED  BY <3>2, <3>3
    <2>. QED  BY <2>2, <2>6 DEF CommandReturns
  <1>7. CASE \E i \in Instances, setup \in Setup : Build(i, setup)
    <2>1. PICK i \in Instances, setup \in Setup : Build(i, setup)
      BY <1>7
    <2>2. [pool_size |-> setup.pool_size, migrate |-> setup.migrate = "true",
           embedded |-> setup.embedded]
            \in [pool_size : 0 .. MaxPoolSize, migrate : BOOLEAN, embedded : BOOLEAN]
      BY DEF Setup
    <2>3. Len(migrations) \in Nat
      OBVIOUS
    <2>4. CASE Bootstrapped(setup)
      <3>1. source' \in [Sessions -> 0 .. Len(migrations)]
        BY <2>1, <2>3, <2>4 DEF Build
      <3>2. /\ settings' \in [Instances -> [pool_size : 0 .. MaxPoolSize, migrate : BOOLEAN,
                                             embedded : BOOLEAN]]
            /\ phase' \in [Instances -> Phases]
        <4>1. PICK given \in [pool_size : 0 .. MaxPoolSize, migrate : BOOLEAN,
                              embedded : BOOLEAN] :
                given = [pool_size |-> setup.pool_size, migrate |-> setup.migrate = "true",
                         embedded |-> setup.embedded]
          BY <2>2
        <4>2. settings' = [settings EXCEPT ![i] = given] /\ phase' = [phase EXCEPT ![i] = "created"]
          BY <2>1, <2>4, <4>1 DEF Build
        <4>. QED  BY <4>2 DEF Phases
      <3>. QED  BY <2>1, <3>1, <3>2 DEF Build
    <2>5. CASE ~Bootstrapped(setup)
      BY <2>1, <2>5 DEF Build, Phases
    <2>. QED  BY <2>4, <2>5
  <1>8. CASE \E i \in Instances : CheckSucceeds(i) \/ CheckFails(i)
    <2>1. PICK i \in Instances : CheckSucceeds(i) \/ CheckFails(i)
      BY <1>8
    <2>2. CASE CheckSucceeds(i)
      <3>1. settings[i].migrate \in BOOLEAN /\ settings[i].embedded \in BOOLEAN
        OBVIOUS
      <3>2. CASE ~settings[i].migrate
        BY <2>2, <3>2 DEF CheckSucceeds, Phases
      <3>3. CASE settings[i].migrate /\ settings[i].embedded
        BY <2>2, <3>3 DEF CheckSucceeds, Phases
      <3>4. CASE settings[i].migrate /\ ~settings[i].embedded
        BY <2>2, <3>4 DEF CheckSucceeds, FailStart, Phases
      <3>. QED  BY <3>1, <3>2, <3>3, <3>4
    <2>3. CASE CheckFails(i)
      BY <2>3 DEF CheckFails, FailStart, Phases
    <2>. QED  BY <2>1, <2>2, <2>3
  <1>9. CASE \E i \in Instances : StartupMigrated(i) \/ StartupMigrationFails(i)
    <2>1. PICK i \in Instances : StartupMigrated(i) \/ StartupMigrationFails(i)
      BY <1>9
    <2>2. CASE StartupMigrated(i)
      BY <2>2 DEF StartupMigrated, Phases
    <2>3. CASE StartupMigrationFails(i)
      BY <2>3 DEF StartupMigrationFails, FailStart, Phases
    <2>. QED  BY <2>1, <2>2, <2>3
  <1>10. CASE \E i \in Instances : Start(i) \/ LaterHooksStart(i) \/ Stop(i) \/ DropStart(i)
    BY <1>10 DEF Start, LaterHooksStart, Stop, DropStart, Phases
  <1>11. CASE \E i \in Instances : Crash(i)
    <2>1. [pool_size |-> 1, migrate |-> FALSE, embedded |-> FALSE]
            \in [pool_size : 0 .. MaxPoolSize, migrate : BOOLEAN, embedded : BOOLEAN]
      BY DatabaseAssumption
    <2>2. 0 \in 0 .. Len(migrations)
      OBVIOUS
    <2>. QED  BY <1>11, <2>1, <2>2 DEF Crash, Phases
  <1>12. CASE \E i \in Instances : PoolStep(i)
    <2>1. PICK i \in Instances : PoolStep(i)
      BY <1>12
    <2>2. CASE Run(i) \/ LeaveQueue(i)
      BY <2>2 DEF Run, LeaveQueue
    <2>3. CASE Acquire(i)
      BY <2>3 DEF Acquire
    <2>4. CASE ClosureEnds(i)
      BY <2>4 DEF ClosureEnds
    <2>. QED  BY <2>1, <2>2, <2>3, <2>4 DEF PoolStep
  <1>13. CASE UNCHANGED vars
    BY <1>13 DEF vars
  <1>. QED
    BY <1>1, <1>2, <1>3, <1>4, <1>5, <1>6, <1>7, <1>8, <1>9, <1>10, <1>11, <1>12, <1>13
       DEF Next, Progress, Startup, PoolStep

(***************************************************************************)
(* The steps that do not touch the sessions or the phases of the hook: the *)
(* pool, and `db generate`, which only adds a file.                        *)
(***************************************************************************)
BackgroundStep ==
  \/ \E desired \in Declarations : Generate(desired)
  \/ PublishGenerated
  \/ \E i \in Instances : PoolStep(i)
  \/ UNCHANGED vars

\* A background step leaves alone what the next four parts speak of.
LEMMA BackgroundChangesNothing ==
  ASSUME BackgroundStep
  PROVE  UNCHANGED <<applied, schema, step, source, todo, phase, settings, closed, reverted,
                     overlapped>>
  BY DEF BackgroundStep, Generate, PublishGenerated, PoolStep, Run, Acquire, LeaveQueue,
     ClosureEnds, databaseVars, sessionVars, poolVars, vars

\* Every other step is one of these.
LEMMA StepCases ==
  ASSUME [Next]_vars
  PROVE  \/ BackgroundStep
         \/ \E s \in Sessions : Command(s) \/ ReadPending(s) \/ ApplyNext(s)
         \/ MigrateReturns \/ ReadLatest \/ RevertLatest
         \/ \E i \in Instances :
              \/ \E setup \in Setup : Build(i, setup)
              \/ Start(i) \/ CheckSucceeds(i) \/ CheckFails(i) \/ StartupMigrated(i)
              \/ StartupMigrationFails(i) \/ LaterHooksStart(i) \/ Stop(i) \/ DropStart(i)
              \/ Crash(i)
  BY DEF Next, Progress, Startup, BackgroundStep, PoolStep

\* The rollback session, when it has read the applied versions, holds the
\* highest one of its source, or has returned.
LEMMA LatestIsRead ==
  ASSUME DInv, ReadLatest
  PROVE  /\ step["rollback"] = "reading"
         /\ UNCHANGED <<migrations, applied, schema, phase, settings, closed, reverted, overlapped>>
         /\ \/ /\ step' = [step EXCEPT !["rollback"] = "idle"]
               /\ source' = [source EXCEPT !["rollback"] = 0]
               /\ todo' = [todo EXCEPT !["rollback"] = {}]
            \/ \E v \in applied \cap SourceVersions("rollback") :
                 /\ \A u \in applied \cap SourceVersions("rollback") : u <= v
                 /\ step' = [step EXCEPT !["rollback"] = "working"]
                 /\ todo' = [todo EXCEPT !["rollback"] = {v}]
                 /\ source' = source
  <1>. DEFINE mine == applied \cap SourceVersions("rollback")
  <1>1. CASE mine = {}
    BY <1>1 DEF ReadLatest, CommandReturns, databaseVars, poolVars
  <1>2. CASE mine # {}
    <2>1. source["rollback"] \in Nat /\ mine \in SUBSET (1 .. source["rollback"])
      BY SessionNames DEF DInv, DatabaseTypeOK, SourceVersions
    <2>2. Max(mine) \in mine /\ \A u \in mine : u <= Max(mine)
      BY <1>2, <2>1, GreatestElement
    <2>3. /\ step["rollback"] = "reading"
          /\ step' = [step EXCEPT !["rollback"] = "working"]
          /\ todo' = [todo EXCEPT !["rollback"] = {Max(mine)}]
          /\ source' = source
          /\ UNCHANGED <<migrations, applied, schema, phase, settings, closed, reverted, overlapped>>
      BY <1>2 DEF ReadLatest, Latest, databaseVars, poolVars
    <2>. QED  BY <2>2, <2>3
  <1>. QED  BY <1>1, <1>2

\* A session applies the least version it has left, and nothing else.
LEMMA NextIsApplied ==
  ASSUME DInv, NEW s \in Sessions, ApplyNext(s)
  PROVE  \E v \in todo[s] :
           /\ v \in 1 .. Len(migrations) /\ v \notin applied
           /\ \A u \in todo[s] : v <= u
           /\ migrations[v].creates \cap schema = {} /\ migrations[v].drops \subseteq schema
           /\ applied' = applied \cup {v}
           /\ schema' = (schema \ migrations[v].drops) \cup migrations[v].creates
           /\ todo' = [todo EXCEPT ![s] = @ \ {v}]
           /\ UNCHANGED <<migrations, generating, step, source, phase, settings, closed, reverted>>
           /\ overlapped' = (overlapped \/ Overlaps(s))
           /\ s # "rollback" /\ step[s] = "working"
  <1>1. todo[s] \in SUBSET Nat /\ todo[s] # {} /\ todo[s] \subseteq 1 .. source[s]
    BY DEF DInv, DatabaseTypeOK, SessionInv, SourceVersions, ApplyNext
  <1>2. Min(todo[s]) \in todo[s] /\ \A u \in todo[s] : Min(todo[s]) <= u
    BY <1>1, LeastElement
  <1>3. source[s] \in 0 .. Len(migrations) /\ Len(migrations) \in Nat
    BY DEF DInv, DatabaseTypeOK
  <1>4. Min(todo[s]) \in 1 .. Len(migrations)
    BY <1>1, <1>2, <1>3
  <1>. QED  BY <1>2, <1>4 DEF ApplyNext, Applies, poolVars

\* A rollback reverts the version it holds, or fails and changes nothing.
LEMMA LatestIsReverted ==
  ASSUME DInv, RevertLatest
  PROVE  /\ step["rollback"] = "working"
         /\ step' = [step EXCEPT !["rollback"] = "idle"]
         /\ source' = [source EXCEPT !["rollback"] = 0]
         /\ todo' = [todo EXCEPT !["rollback"] = {}]
         /\ UNCHANGED <<migrations, generating, phase, settings, closed>>
         /\ \/ UNCHANGED <<applied, schema, reverted, overlapped>>
            \/ \E v \in todo["rollback"] :
                 /\ v \in applied
                 /\ migrations[v].drops \cap schema = {} /\ migrations[v].creates \subseteq schema
                 /\ applied' = applied \ {v}
                 /\ schema' = (schema \ migrations[v].creates) \cup migrations[v].drops
                 /\ reverted' = [i \in Instances |->
                                   IF settings[i].migrate THEN reverted[i] \cup {v} ELSE {}]
                 /\ overlapped' = (overlapped \/ Overlaps("rollback"))
  <1>1. todo["rollback"] \subseteq applied
    BY DEF DInv, SessionInv
  <1>. QED  BY <1>1 DEF RevertLatest, Reverts, CommandReturns, poolVars

\* Sessions keep to their sources.
LEMMA SessionsPreserved ==
  ASSUME DInv, [Next]_vars
  PROVE  SessionInv'
  <1>. USE SessionNames DEF SessionInv, SourceVersions
  <1>0. /\ SessionInv
        /\ step \in [Sessions -> {"idle", "reading", "working"}]
        /\ source \in [Sessions -> 0 .. Len(migrations)]
        /\ todo \in [Sessions -> SUBSET Nat]
    BY DEF DInv, DatabaseTypeOK
  <1>1. CASE BackgroundStep
    BY <1>0, <1>1, BackgroundChangesNothing
  <1>2. CASE \E s \in Sessions : Command(s) \/ ReadPending(s)
    <2>1. PICK s \in Sessions : Command(s) \/ ReadPending(s)
      BY <1>2
    <2>2. CASE Command(s)
      BY <1>0, <2>2 DEF Command, databaseVars
    <2>3. CASE ReadPending(s)
      BY <1>0, <2>3 DEF ReadPending, databaseVars
    <2>. QED  BY <2>1, <2>2, <2>3
  <1>3. CASE \E s \in Sessions : ApplyNext(s)
    <2>1. PICK s \in Sessions : ApplyNext(s)
      BY <1>3
    <2>2. PICK v \in todo[s] :
            /\ todo' = [todo EXCEPT ![s] = @ \ {v}] /\ applied' = applied \cup {v}
            /\ step' = step /\ source' = source /\ s # "rollback" /\ step[s] = "working"
      BY <2>1, NextIsApplied
    <2>. QED  BY <1>0, <2>2
  <1>4. CASE MigrateReturns
    BY <1>0, <1>4 DEF MigrateReturns, CommandReturns, databaseVars
  <1>5. CASE ReadLatest
    <2>1. CASE step' = [step EXCEPT !["rollback"] = "idle"]
      <3>1. /\ source' = [source EXCEPT !["rollback"] = 0]
            /\ todo' = [todo EXCEPT !["rollback"] = {}] /\ applied' = applied
        BY <1>0, <1>5, <2>1, LatestIsRead
      <3>. QED  BY <1>0, <2>1, <3>1
    <2>2. CASE step' # [step EXCEPT !["rollback"] = "idle"]
      <3>1. PICK v \in applied \cap SourceVersions("rollback") :
              /\ step' = [step EXCEPT !["rollback"] = "working"]
              /\ todo' = [todo EXCEPT !["rollback"] = {v}]
              /\ source' = source /\ applied' = applied
        BY <1>5, <2>2, LatestIsRead
      <3>. QED  BY <1>0, <3>1
    <2>. QED  BY <2>1, <2>2
  <1>6. CASE RevertLatest
    <2>1. /\ step' = [step EXCEPT !["rollback"] = "idle"]
          /\ source' = [source EXCEPT !["rollback"] = 0]
          /\ todo' = [todo EXCEPT !["rollback"] = {}]
      BY <1>6, LatestIsReverted
    <2>2. applied' \subseteq applied
      BY <1>6, LatestIsReverted
    <2>. QED  BY <1>0, <2>1, <2>2
  <1>7. CASE \E i \in Instances, setup \in Setup : Build(i, setup)
    <2>1. PICK i \in Instances, setup \in Setup : Build(i, setup)
      BY <1>7
    <2>2. todo[i] = {}
      BY <1>0, <2>1 DEF Build, DInv, HookInv
    <2>3. /\ UNCHANGED <<applied, step, todo>>
          /\ \A s \in Sessions : s # i => source'[s] = source[s]
      BY <1>0, <2>1 DEF Build, databaseVars
    <2>. QED  BY <1>0, <2>2, <2>3
  <1>8. CASE \E i \in Instances : CheckSucceeds(i) \/ CheckFails(i)
    <2>1. PICK i \in Instances : CheckSucceeds(i) \/ CheckFails(i)
      BY <1>8
    <2>2. todo[i] = {}
      BY <1>0, <2>1 DEF CheckSucceeds, CheckFails, DInv, HookInv
    <2>3. /\ UNCHANGED <<applied, source, todo>>
          /\ step' = step \/ step' = [step EXCEPT ![i] = "reading"]
      BY <2>1 DEF CheckSucceeds, CheckFails, FailStart, databaseVars, sessionVars
    <2>. QED  BY <1>0, <2>2, <2>3
  <1>9. CASE \E i \in Instances : StartupMigrated(i) \/ StartupMigrationFails(i)
    <2>1. PICK i \in Instances : StartupMigrated(i) \/ StartupMigrationFails(i)
      BY <1>9
    <2>2. /\ step' = [step EXCEPT ![i] = "idle"] /\ todo' = [todo EXCEPT ![i] = {}]
          /\ UNCHANGED <<applied, source>>
      BY <1>0, <2>1 DEF StartupMigrated, WorkFinished, StartupMigrationFails, databaseVars
    <2>. QED  BY <1>0, <2>2
  <1>10. CASE \E i \in Instances : Start(i) \/ LaterHooksStart(i) \/ Stop(i) \/ DropStart(i)
    BY <1>0, <1>10 DEF Start, LaterHooksStart, Stop, DropStart, databaseVars, sessionVars
  <1>11. CASE \E i \in Instances : Crash(i)
    BY <1>0, <1>11 DEF Crash, databaseVars
  <1>. QED
    BY <1>1, <1>2, <1>3, <1>4, <1>5, <1>6, <1>7, <1>8, <1>9, <1>10, <1>11, StepCases

\* The closure of a start, its phase and its pool keep in step.
LEMMA HooksPreserved ==
  ASSUME DInv, [Next]_vars
  PROVE  HookInv'
  <1>. USE SessionNames DEF HookInv
  <1>0. /\ HookInv
        /\ step \in [Sessions -> {"idle", "reading", "working"}]
        /\ phase \in [Instances -> Phases]
        /\ settings \in [Instances -> [pool_size : 0 .. MaxPoolSize, migrate : BOOLEAN,
                                       embedded : BOOLEAN]]
        /\ closed \in [Instances -> BOOLEAN]
    BY DEF DInv, DatabaseTypeOK
  <1>1. CASE BackgroundStep
    BY <1>0, <1>1, BackgroundChangesNothing
  <1>2. CASE \E s \in Sessions : Command(s) \/ ReadPending(s)
    <2>1. PICK s \in Sessions : Command(s) \/ ReadPending(s)
      BY <1>2
    <2>2. CASE Command(s)
      BY <1>0, <2>2 DEF Command, poolVars
    <2>3. CASE ReadPending(s)
      BY <1>0, <2>3 DEF ReadPending, poolVars
    <2>. QED  BY <2>1, <2>2, <2>3
  <1>3. CASE \E s \in Sessions : ApplyNext(s)
    <2>1. UNCHANGED <<step, phase, settings, closed>>
      BY <1>3, NextIsApplied
    <2>. QED  BY <1>0, <2>1
  <1>4. CASE MigrateReturns \/ ReadLatest \/ RevertLatest
    <2>1. /\ UNCHANGED <<phase, settings, closed>>
          /\ \A i \in Instances : step'[i] = step[i]
      BY <1>0, <1>4, LatestIsRead, LatestIsReverted DEF MigrateReturns, CommandReturns, poolVars
    <2>. QED  BY <1>0, <2>1
  <1>5. CASE \E i \in Instances, setup \in Setup : Build(i, setup)
    <2>1. PICK i \in Instances, setup \in Setup : Build(i, setup)
      BY <1>5
    <2>2. step[i] = "idle" /\ step' = step /\ closed' = closed
      BY <1>0, <2>1 DEF Build, poolVars
    <2>3. CASE Bootstrapped(setup)
      <3>1. setup.migrate = "true" => setup.embedded = TRUE
        BY <2>3 DEF Bootstrapped, Evaluation, SourcePresent, Setup
      <3>2. /\ phase' = [phase EXCEPT ![i] = "created"]
            /\ settings' = [settings EXCEPT ![i] =
                 [pool_size |-> setup.pool_size, migrate |-> setup.migrate = "true",
                  embedded |-> setup.embedded]]
        BY <2>1, <2>3 DEF Build
      <3>3. settings'[i].migrate => settings'[i].embedded
        BY <1>0, <3>1, <3>2
      <3>. QED  BY <1>0, <2>1, <2>2, <3>2, <3>3 DEF Build
    <2>4. CASE ~Bootstrapped(setup)
      BY <1>0, <2>1, <2>2, <2>4 DEF Build
    <2>. QED  BY <2>3, <2>4
  <1>6. CASE \E i \in Instances : CheckSucceeds(i) \/ CheckFails(i)
    <2>1. PICK i \in Instances : CheckSucceeds(i) \/ CheckFails(i)
      BY <1>6
    <2>2. phase[i] = "checking" /\ settings' = settings
      BY <2>1 DEF CheckSucceeds, CheckFails
    <2>3. \/ /\ phase' = [phase EXCEPT ![i] = "started"] /\ UNCHANGED <<step, closed>>
          \/ /\ phase' = [phase EXCEPT ![i] = "migrating"] /\ closed' = closed
             /\ step' = [step EXCEPT ![i] = "reading"] /\ settings[i].migrate
          \/ /\ phase' = [phase EXCEPT ![i] = "failed"] /\ step' = step
             /\ closed' = [closed EXCEPT ![i] = TRUE]
      BY <1>0, <2>1 DEF CheckSucceeds, CheckFails, FailStart, sessionVars
    <2>. QED  BY <1>0, <2>2, <2>3
  <1>7. CASE \E i \in Instances : StartupMigrated(i) \/ StartupMigrationFails(i)
    <2>1. PICK i \in Instances : StartupMigrated(i) \/ StartupMigrationFails(i)
      BY <1>7
    <2>2. step[i] # "idle" /\ step' = [step EXCEPT ![i] = "idle"] /\ settings' = settings
      BY <1>0, <2>1 DEF StartupMigrated, WorkFinished, WorkFails, StartupMigrationFails
    <2>3. CASE phase[i] = "migrating"
      <3>1. \/ phase' = [phase EXCEPT ![i] = "started"] /\ closed' = closed
            \/ phase' = [phase EXCEPT ![i] = "failed"] /\ closed' = [closed EXCEPT ![i] = TRUE]
        BY <1>0, <2>1, <2>3 DEF StartupMigrated, StartupMigrationFails, FailStart, poolVars
      <3>. QED  BY <1>0, <2>2, <2>3, <3>1
    <2>4. CASE phase[i] # "migrating"
      <3>1. UNCHANGED <<phase, closed>>
        BY <1>0, <2>1, <2>4 DEF StartupMigrated, StartupMigrationFails, FailStart, poolVars
      <3>. QED  BY <1>0, <2>2, <2>4, <3>1
    <2>. QED  BY <2>3, <2>4
  <1>8. CASE \E i \in Instances : Start(i) \/ LaterHooksStart(i) \/ DropStart(i)
    BY <1>0, <1>8 DEF Start, LaterHooksStart, DropStart, sessionVars, poolVars
  <1>9. CASE \E i \in Instances : Stop(i)
    BY <1>0, <1>9 DEF Stop, sessionVars
  <1>10. CASE \E i \in Instances : Crash(i)
    BY <1>0, <1>10 DEF Crash
  <1>. QED
    BY <1>1, <1>2, <1>3, <1>4, <1>5, <1>6, <1>7, <1>8, <1>9, <1>10, StepCases

\* What a start has to have applied stays applied, or is known to be reverted.
LEMMA MigratedPreserved ==
  ASSUME DInv, [Next]_vars
  PROVE  MigratedInv'
  <1>. USE SessionNames DEF SourceVersions
  <1>0. /\ MigratedInv /\ HookInv /\ SessionInv
        /\ step \in [Sessions -> {"idle", "reading", "working"}]
        /\ source \in [Sessions -> 0 .. Len(migrations)]
        /\ todo \in [Sessions -> SUBSET Nat]
        /\ phase \in [Instances -> Phases]
        /\ settings \in [Instances -> [pool_size : 0 .. MaxPoolSize, migrate : BOOLEAN,
                                       embedded : BOOLEAN]]
        /\ reverted \in [Instances -> SUBSET Nat]
    BY DEF DInv, DatabaseTypeOK
  <1>1. CASE BackgroundStep
    BY <1>0, <1>1, BackgroundChangesNothing DEF MigratedInv
  <1>2. CASE \E s \in Sessions : Command(s)
    <2>1. PICK s \in Sessions : Command(s)
      BY <1>2
    <2>2. /\ UNCHANGED <<applied, phase, settings, reverted, todo>>
          /\ \A i \in Instances : step'[i] = step[i] /\ source'[i] = source[i]
      BY <1>0, <2>1 DEF Command, databaseVars
    <2>. QED  BY <1>0, <2>2 DEF MigratedInv
  <1>3. CASE \E s \in Sessions : ReadPending(s)
    <2>1. PICK s \in Sessions : ReadPending(s)
      BY <1>3
    <2>2. /\ UNCHANGED <<applied, phase, settings, source>>
          /\ step[s] = "reading"
          /\ step' = [step EXCEPT ![s] = "working"]
          /\ todo' = [todo EXCEPT ![s] = SourceVersions(s) \ applied]
          /\ reverted' = [i \in Instances |-> IF i = s THEN {} ELSE reverted[i]]
      BY <2>1 DEF ReadPending, databaseVars
    <2>3. ASSUME NEW i \in Instances, i # s
          PROVE  step'[i] = step[i] /\ todo'[i] = todo[i] /\ reverted'[i] = reverted[i]
      BY <1>0, <2>2, <2>3
    <2>4. ASSUME NEW i \in Instances, i = s
          PROVE  SourceVersions(i)' \ todo'[i] \subseteq applied' \cup reverted'[i]
      BY <1>0, <2>2, <2>4
    <2>. QED  BY <1>0, <2>2, <2>3, <2>4 DEF MigratedInv
  <1>4. CASE \E s \in Sessions : ApplyNext(s)
    <2>1. PICK s \in Sessions : ApplyNext(s)
      BY <1>4
    <2>2. PICK v \in todo[s] :
            /\ todo' = [todo EXCEPT ![s] = @ \ {v}] /\ applied' = applied \cup {v}
            /\ UNCHANGED <<step, source, phase, settings, reverted>>
      BY <2>1, NextIsApplied
    <2>3. \A i \in Instances : todo[i] \ {v} \subseteq todo'[i]
      BY <1>0, <2>2
    <2>. QED  BY <1>0, <2>2, <2>3 DEF MigratedInv
  <1>5. CASE MigrateReturns \/ ReadLatest
    <2>1. /\ UNCHANGED <<applied, phase, settings, reverted>>
          /\ \A i \in Instances :
               step'[i] = step[i] /\ source'[i] = source[i] /\ todo'[i] = todo[i]
      BY <1>0, <1>5, LatestIsRead
         DEF MigrateReturns, ReadLatest, CommandReturns, databaseVars, poolVars
    <2>. QED  BY <1>0, <2>1 DEF MigratedInv
  <1>6. CASE RevertLatest
    <2>1. /\ UNCHANGED <<phase, settings>>
          /\ \A i \in Instances :
               step'[i] = step[i] /\ source'[i] = source[i] /\ todo'[i] = todo[i]
      BY <1>0, <1>6, LatestIsReverted
    <2>2. ASSUME NEW i \in Instances, settings[i].migrate
          PROVE  applied \cup reverted[i] \subseteq applied' \cup reverted'[i]
      BY <1>6, <2>2, LatestIsReverted
    <2>3. \A i \in Instances : step[i] = "working" => settings[i].migrate
      BY <1>0 DEF HookInv
    <2>. QED  BY <1>0, <2>1, <2>2, <2>3 DEF MigratedInv
  <1>7. CASE \E i \in Instances, setup \in Setup : Build(i, setup)
    <2>1. PICK i \in Instances, setup \in Setup : Build(i, setup)
      BY <1>7
    <2>2. /\ UNCHANGED <<applied, step, todo, reverted>>
          /\ step[i] = "idle" /\ phase'[i] \in {"created", "refused"}
          /\ \A j \in Instances : j # i =>
               source'[j] = source[j] /\ phase'[j] = phase[j] /\ settings'[j] = settings[j]
      BY <1>0, <2>1 DEF Build, HookInv, databaseVars
    <2>. QED  BY <1>0, <2>2 DEF MigratedInv
  <1>8. CASE \E i \in Instances : CheckSucceeds(i) \/ CheckFails(i)
    <2>1. PICK i \in Instances : CheckSucceeds(i) \/ CheckFails(i)
      BY <1>8
    <2>2. /\ UNCHANGED <<applied, source, todo, settings, reverted>>
          /\ \A j \in Instances : j # i => step'[j] = step[j] /\ phase'[j] = phase[j]
      BY <1>0, <2>1 DEF CheckSucceeds, CheckFails, FailStart, databaseVars, sessionVars
    <2>3. step'[i] # "working" /\ (phase'[i] = "started" => ~settings[i].migrate)
          /\ phase'[i] # "running"
      BY <1>0, <2>1 DEF CheckSucceeds, CheckFails, FailStart, HookInv, sessionVars
    <2>. QED  BY <1>0, <2>2, <2>3 DEF MigratedInv
  <1>9. CASE \E i \in Instances : StartupMigrated(i) \/ StartupMigrationFails(i)
    <2>1. PICK i \in Instances : StartupMigrated(i) \/ StartupMigrationFails(i)
      BY <1>9
    <2>2. /\ UNCHANGED <<applied, source, settings, reverted>> /\ step[i] = "working"
          /\ step' = [step EXCEPT ![i] = "idle"]
          /\ \A j \in Instances : j # i => todo'[j] = todo[j] /\ phase'[j] = phase[j]
      BY <1>0, <2>1
         DEF StartupMigrated, WorkFinished, WorkFails, StartupMigrationFails, FailStart,
             databaseVars
    <2>3. \/ phase'[i] \notin {"started", "running"}
          \/ todo[i] = {} /\ todo'[i] = {}
      BY <1>0, <2>1, <2>2
         DEF StartupMigrated, WorkFinished, StartupMigrationFails, FailStart, HookInv
    <2>. QED  BY <1>0, <2>2, <2>3 DEF MigratedInv
  <1>10. CASE \E i \in Instances : Start(i) \/ LaterHooksStart(i) \/ Stop(i) \/ DropStart(i)
    <2>1. PICK i \in Instances : Start(i) \/ LaterHooksStart(i) \/ Stop(i) \/ DropStart(i)
      BY <1>10
    <2>2. /\ UNCHANGED <<applied, source, step, todo, settings, reverted>>
          /\ \A j \in Instances : j # i => phase'[j] = phase[j]
          /\ phase'[i] \in {"started", "running"} => phase[i] = "started"
      BY <1>0, <2>1 DEF Start, LaterHooksStart, Stop, DropStart, databaseVars, sessionVars
    <2>. QED  BY <1>0, <2>2 DEF MigratedInv
  <1>11. CASE \E i \in Instances : Crash(i)
    <2>1. PICK i \in Instances : Crash(i)
      BY <1>11
    <2>2. /\ applied' = applied /\ step'[i] = "idle" /\ phase'[i] = "absent"
          /\ \A j \in Instances : j # i =>
               /\ step'[j] = step[j] /\ source'[j] = source[j] /\ todo'[j] = todo[j]
               /\ phase'[j] = phase[j] /\ settings'[j] = settings[j]
               /\ reverted'[j] = reverted[j]
      BY <1>0, <2>1 DEF Crash, databaseVars
    <2>. QED  BY <1>0, <2>2 DEF MigratedInv
  <1>. QED
    BY <1>1, <1>2, <1>3, <1>4, <1>5, <1>6, <1>7, <1>8, <1>9, <1>10, <1>11, StepCases

\* Migrations go up and down in version order as long as nothing overlaps.
LEMMA OrderPreserved ==
  ASSUME DInv, [Next]_vars
  PROVE  OrderInv'
  <1>. USE SessionNames DEF SourceVersions
  <1>0. /\ OrderInv /\ SessionInv
        /\ step \in [Sessions -> {"idle", "reading", "working"}]
        /\ source \in [Sessions -> 0 .. Len(migrations)] /\ Len(migrations) \in Nat
        /\ applied \subseteq 1 .. Len(migrations)
        /\ todo \in [Sessions -> SUBSET Nat]
        /\ overlapped \in BOOLEAN
    BY DEF DInv, DatabaseTypeOK
  <1>1. CASE BackgroundStep
    <2>1. UNCHANGED <<applied, step, source, todo, overlapped>>
      BY <1>1, BackgroundChangesNothing
    <2>. QED  BY <1>0, <2>1 DEF OrderInv, GapsNeedAnOverlap
  <1>2. CASE \E s \in Sessions : Command(s)
    <2>1. PICK s \in Sessions : Command(s)
      BY <1>2
    <2>2. /\ UNCHANGED <<applied, todo, overlapped>>
          /\ step[s] = "idle" /\ step' = [step EXCEPT ![s] = "reading"]
          /\ source' = [source EXCEPT ![s] = Len(migrations)]
      BY <2>1 DEF Command, databaseVars
    <2>. QED  BY <1>0, <2>2 DEF OrderInv, GapsNeedAnOverlap, SessionInv
  <1>3. CASE \E s \in Sessions : ReadPending(s)
    <2>1. PICK s \in Sessions : ReadPending(s)
      BY <1>3
    <2>2. /\ UNCHANGED <<applied, source, overlapped>> /\ s # "rollback"
          /\ step' = [step EXCEPT ![s] = "working"]
          /\ todo' = [todo EXCEPT ![s] = SourceVersions(s) \ applied]
      BY <2>1 DEF ReadPending, databaseVars
    <2>. QED  BY <1>0, <2>2 DEF OrderInv, GapsNeedAnOverlap
  <1>4. CASE \E s \in Sessions : ApplyNext(s)
    <2>1. PICK s \in Sessions : ApplyNext(s)
      BY <1>4
    <2>2. PICK v \in todo[s] :
            /\ \A u \in todo[s] : v <= u
            /\ todo' = [todo EXCEPT ![s] = @ \ {v}] /\ applied' = applied \cup {v}
            /\ UNCHANGED <<step, source>>
            /\ overlapped' = (overlapped \/ Overlaps(s))
            /\ s # "rollback" /\ step[s] = "working"
      BY <2>1, NextIsApplied
    <2>. SUFFICES ASSUME ~overlapped' PROVE OrderInv'
      BY DEF OrderInv
    <2>3. ~overlapped /\ step["rollback"] = "idle"
      BY <2>2 DEF Overlaps
    <2>4. SourceVersions(s) \ todo[s] \subseteq applied
      BY <1>0, <2>2, <2>3 DEF OrderInv
    <2>5. 1 .. v \subseteq applied \cup {v}
      <3>1. v \in 1 .. source[s] /\ source[s] \in Nat /\ todo[s] \subseteq Nat
        BY <1>0, <2>2 DEF SessionInv
      <3>. QED  BY <2>2, <2>4, <3>1
    <2>6. GapsNeedAnOverlap'
      BY <1>0, <2>2, <2>3, <2>5 DEF OrderInv, GapsNeedAnOverlap
    <2>7. \A r \in Sessions : todo[r] \ {v} \subseteq todo'[r]
      BY <1>0, <2>2
    <2>8. todo'["rollback"] = {}
      BY <1>0, <2>2, <2>3 DEF SessionInv
    <2>. QED  BY <1>0, <2>2, <2>3, <2>6, <2>7, <2>8 DEF OrderInv
  <1>5. CASE MigrateReturns
    <2>1. /\ UNCHANGED <<applied, overlapped>>
          /\ step' = [step EXCEPT !["migrate"] = "idle"]
          /\ source' = [source EXCEPT !["migrate"] = 0]
          /\ todo' = [todo EXCEPT !["migrate"] = {}]
      BY <1>5 DEF MigrateReturns, CommandReturns, databaseVars
    <2>. QED  BY <1>0, <2>1 DEF OrderInv, GapsNeedAnOverlap
  <1>6. CASE ReadLatest
    <2>1. /\ step["rollback"] = "reading" /\ UNCHANGED <<applied, overlapped>>
      BY <1>6, LatestIsRead
    <2>2. CASE step' = [step EXCEPT !["rollback"] = "idle"]
      <3>1. /\ source' = [source EXCEPT !["rollback"] = 0]
            /\ todo' = [todo EXCEPT !["rollback"] = {}]
        BY <1>0, <1>6, <2>2, LatestIsRead
      <3>. QED  BY <1>0, <2>1, <2>2, <3>1 DEF OrderInv, GapsNeedAnOverlap
    <2>3. CASE step' # [step EXCEPT !["rollback"] = "idle"]
      <3>1. PICK v \in applied \cap SourceVersions("rollback") :
              /\ \A u \in applied \cap SourceVersions("rollback") : u <= v
              /\ step' = [step EXCEPT !["rollback"] = "working"]
              /\ todo' = [todo EXCEPT !["rollback"] = {v}]
              /\ source' = source
        BY <1>6, <2>3, LatestIsRead
      <3>. QED  BY <1>0, <2>1, <3>1 DEF OrderInv, GapsNeedAnOverlap
    <2>. QED  BY <2>2, <2>3
  <1>7. CASE RevertLatest
    <2>1. /\ step["rollback"] = "working"
          /\ step' = [step EXCEPT !["rollback"] = "idle"]
          /\ source' = [source EXCEPT !["rollback"] = 0]
          /\ todo' = [todo EXCEPT !["rollback"] = {}]
      BY <1>7, LatestIsReverted
    <2>2. CASE UNCHANGED <<applied, overlapped>>
      BY <1>0, <2>1, <2>2 DEF OrderInv, GapsNeedAnOverlap
    <2>3. CASE ~ UNCHANGED <<applied, overlapped>>
      <3>1. PICK v \in todo["rollback"] :
              applied' = applied \ {v} /\ overlapped' = (overlapped \/ Overlaps("rollback"))
        BY <1>7, <2>3, LatestIsReverted
      <3>. SUFFICES ASSUME ~overlapped' PROVE OrderInv'
        BY DEF OrderInv
      <3>2. ~overlapped /\ \A s \in Sessions \ {"rollback"} : step[s] = "idle"
        BY <3>1 DEF Overlaps
      <3>3. \A u \in applied : u <= v
        BY <1>0, <3>1, <3>2 DEF OrderInv
      <3>4. \A u \in applied : 1 .. u \subseteq applied
        BY <1>0, <3>2 DEF OrderInv, GapsNeedAnOverlap
      <3>5. \A u \in applied \ {v} : v \notin 1 .. u
        BY <1>0, <3>1, <3>3
      <3>6. GapsNeedAnOverlap'
        BY <3>1, <3>4, <3>5 DEF GapsNeedAnOverlap
      <3>. QED  BY <1>0, <2>1, <3>2, <3>6 DEF OrderInv
    <2>. QED  BY <2>2, <2>3
  <1>8. CASE \E i \in Instances, setup \in Setup : Build(i, setup)
    <2>1. PICK i \in Instances, setup \in Setup : Build(i, setup)
      BY <1>8
    <2>2. /\ UNCHANGED <<applied, step, todo, overlapped>> /\ step[i] = "idle"
          /\ \A s \in Sessions : s # i => source'[s] = source[s]
      BY <1>0, <2>1 DEF Build, DInv, HookInv, databaseVars
    <2>. QED  BY <1>0, <2>2 DEF OrderInv, GapsNeedAnOverlap
  <1>9. CASE \E i \in Instances : CheckSucceeds(i) \/ CheckFails(i)
    <2>1. PICK i \in Instances : CheckSucceeds(i) \/ CheckFails(i)
      BY <1>9
    <2>2. /\ UNCHANGED <<applied, source, todo, overlapped>>
          /\ step' = step \/ step' = [step EXCEPT ![i] = "reading"]
      BY <2>1 DEF CheckSucceeds, CheckFails, FailStart, databaseVars, sessionVars
    <2>. QED  BY <1>0, <2>2 DEF OrderInv, GapsNeedAnOverlap
  <1>10. CASE \E i \in Instances : \/ StartupMigrated(i) \/ StartupMigrationFails(i)
    <2>1. PICK i \in Instances : StartupMigrated(i) \/ StartupMigrationFails(i)
      BY <1>10
    <2>2. /\ step' = [step EXCEPT ![i] = "idle"] /\ todo' = [todo EXCEPT ![i] = {}]
          /\ UNCHANGED <<applied, source, overlapped>>
      BY <1>0, <2>1 DEF StartupMigrated, WorkFinished, StartupMigrationFails, databaseVars
    <2>. QED  BY <1>0, <2>2 DEF OrderInv, GapsNeedAnOverlap
  <1>11. CASE \E i \in Instances : Start(i) \/ LaterHooksStart(i) \/ Stop(i) \/ DropStart(i)
    <2>1. UNCHANGED <<applied, source, step, todo, overlapped>>
      BY <1>11 DEF Start, LaterHooksStart, Stop, DropStart, databaseVars, sessionVars
    <2>. QED  BY <1>0, <2>1 DEF OrderInv, GapsNeedAnOverlap
  <1>12. CASE \E i \in Instances : Crash(i)
    <2>1. PICK i \in Instances : Crash(i)
      BY <1>12
    <2>2. /\ UNCHANGED <<applied, overlapped>> /\ step'[i] = "idle"
          /\ \A s \in Sessions : s # i =>
               step'[s] = step[s] /\ source'[s] = source[s] /\ todo'[s] = todo[s]
      BY <1>0, <2>1 DEF Crash, databaseVars
    <2>. QED  BY <1>0, <2>2 DEF OrderInv, GapsNeedAnOverlap
  <1>. QED
    BY <1>1, <1>2, <1>3, <1>4, <1>5, <1>6, <1>7, <1>8, <1>9, <1>10, <1>11, <1>12, StepCases

\* The counts of every version and of every published plan are whole numbers.
LEMMA NetIsInteger ==
  ASSUME NEW files, NEW n \in Nat, NEW versions \in SUBSET (1 .. n), NEW t
  PROVE  IsFiniteSet(versions) /\ Net(files, versions, t) \in Int
  <1>1. IsFiniteSet(versions)
    <2>1. IsFiniteSet(1 .. n)
      BY FS_Interval
    <2>. QED  BY <2>1, FS_Subset
  <1>2. n + 1 \notin versions
    OBVIOUS
  <1>. QED  BY <1>1, <1>2, NetWithOneMore

\* The tables that exist stay what the applied versions amount to, and a plan
\* stays right about the versions it was made on.
LEMMA SchemaPreserved ==
  ASSUME DInv, [Next]_vars
  PROVE  SchemaInv'
  <1>0. /\ SchemaInv
        /\ migrations \in Seq(Migration) /\ Len(migrations) \in Nat
        /\ applied \in SUBSET (1 .. Len(migrations))
        /\ generating \in {NoPlan} \cup Plan
        /\ \A v \in 1 .. Len(migrations) : migrations[v] \in Migration
    BY DEF DInv, DatabaseTypeOK
  <1>1. CASE \E desired \in Declarations : Generate(desired)
    <2>1. PICK desired \in Declarations : Generate(desired)
      BY <1>1
    <2>2. /\ UNCHANGED <<migrations, applied, schema>>
          /\ generating'.basis = applied /\ generating'.desired = desired
          /\ generating'.plan.creates = desired \ schema
          /\ generating'.plan.drops = schema \ desired
      BY <2>1 DEF Generate, Difference, databaseVars
    <2>3. Plans(migrations, applied, generating'.plan, desired)
      <3>. SUFFICES ASSUME NEW t \in Tables
                    PROVE  Bit(t \in desired) = Net(migrations, applied, t)
                             + Bit(t \in desired \ schema) - Bit(t \in schema \ desired)
        BY <2>2 DEF Plans
      <3>1. Net(migrations, applied, t) = Bit(t \in schema)
        BY <1>0 DEF SchemaInv
      <3>2. Bit(t \in desired) = Bit(t \in schema)
              + Bit(t \in desired \ schema) - Bit(t \in schema \ desired)
        BY DEF Bit
      <3>. QED  BY <3>1, <3>2
    <2>. QED  BY <1>0, <2>2, <2>3 DEF SchemaInv
  <1>2. CASE PublishGenerated
    <2>. DEFINE n == Len(migrations)
                new == [creates |-> generating.plan.creates, drops |-> generating.plan.drops,
                        desired |-> generating.desired, basis |-> generating.basis]
    <2>1. /\ generating # NoPlan /\ generating' = NoPlan /\ applied' = applied
          /\ schema' = schema /\ migrations' = Append(migrations, new)
      BY <1>2 DEF PublishGenerated
    <2>2. new \in Migration
      BY <1>0, <2>1 DEF Plan, Migration
    <2>. HIDE DEF new
    <2>3. /\ Len(migrations') = n + 1 /\ migrations'[n + 1] = new
          /\ \A v \in 1 .. n : migrations'[v] = migrations[v]
      BY <1>0, <2>1, <2>2
    <2>4. ASSUME NEW versions \in SUBSET (1 .. n), NEW t
          PROVE  Net(migrations', versions, t) = Net(migrations, versions, t)
      <3>1. \A v \in versions : migrations'[v] = migrations[v]
        BY <2>3
      <3>. HIDE DEF n
      <3>2. /\ Creators(migrations', versions, t) = Creators(migrations, versions, t)
            /\ Droppers(migrations', versions, t) = Droppers(migrations, versions, t)
        BY <3>1 DEF Creators, Droppers
      <3>. QED  BY <3>2 DEF Net
    <2>5. \A t \in Tables : Bit(t \in schema') = Net(migrations', applied', t)
      BY <1>0, <2>1, <2>4 DEF SchemaInv
    <2>6. ASSUME NEW v \in 1 .. n
          PROVE  /\ migrations'[v].basis \subseteq 1 .. v - 1
                 /\ Plans(migrations', migrations'[v].basis, migrations'[v],
                          migrations'[v].desired)
      <3>1. migrations[v].basis \in SUBSET (1 .. n)
        BY <1>0 DEF SchemaInv
      <3>. QED  BY <1>0, <2>3, <2>4, <3>1 DEF SchemaInv, Plans
    <2>7. /\ new.basis \in SUBSET (1 .. n)
          /\ Plans(migrations', new.basis, new, new.desired)
      <3>1. /\ new.basis = generating.basis /\ new.desired = generating.desired
            /\ new.creates = generating.plan.creates /\ new.drops = generating.plan.drops
        BY DEF new
      <3>. QED  BY <1>0, <2>1, <2>4, <3>1 DEF SchemaInv, Plans
    <2>8. ASSUME NEW v \in 1 .. n + 1
          PROVE  /\ migrations'[v].basis \subseteq 1 .. v - 1
                 /\ Plans(migrations', migrations'[v].basis, migrations'[v],
                          migrations'[v].desired)
      <3>1. CASE v = n + 1
        BY <1>0, <2>3, <2>7, <3>1
      <3>2. CASE v # n + 1
        BY <1>0, <2>6, <3>2
      <3>. QED  BY <3>1, <3>2
    <2>. QED  BY <2>1, <2>3, <2>5, <2>8 DEF SchemaInv
  <1>3. CASE \E s \in Sessions : ApplyNext(s)
    <2>1. PICK s \in Sessions : ApplyNext(s)
      BY <1>3
    <2>2. PICK v \in 1 .. Len(migrations) :
            /\ v \notin applied
            /\ migrations[v].creates \cap schema = {} /\ migrations[v].drops \subseteq schema
            /\ applied' = applied \cup {v}
            /\ schema' = (schema \ migrations[v].drops) \cup migrations[v].creates
            /\ UNCHANGED <<migrations, generating>>
      BY <2>1, NextIsApplied
    <2>3. ASSUME NEW t \in Tables
          PROVE  Bit(t \in schema') = Net(migrations, applied \cup {v}, t)
      <3>1. Net(migrations, applied \cup {v}, t) = Net(migrations, applied, t)
              + Bit(t \in migrations[v].creates) - Bit(t \in migrations[v].drops)
        BY <1>0, <2>2, NetIsInteger, NetWithOneMore
      <3>2. Net(migrations, applied, t) = Bit(t \in schema)
        BY <1>0 DEF SchemaInv
      <3>3. Bit(t \in schema') = Bit(t \in schema)
              + Bit(t \in migrations[v].creates) - Bit(t \in migrations[v].drops)
        BY <2>2 DEF Bit
      <3>. QED  BY <3>1, <3>2, <3>3
    <2>. QED  BY <1>0, <2>2, <2>3 DEF SchemaInv
  <1>4. CASE RevertLatest
    <2>1. UNCHANGED <<migrations, generating>>
      BY <1>4, LatestIsReverted
    <2>2. CASE UNCHANGED <<applied, schema>>
      BY <1>0, <2>1, <2>2 DEF SchemaInv
    <2>3. CASE ~ UNCHANGED <<applied, schema>>
      <3>1. PICK v \in applied :
              /\ migrations[v].drops \cap schema = {} /\ migrations[v].creates \subseteq schema
              /\ applied' = applied \ {v}
              /\ schema' = (schema \ migrations[v].creates) \cup migrations[v].drops
        BY <1>4, <2>3, LatestIsReverted
      <3>2. ASSUME NEW t \in Tables
            PROVE  Bit(t \in schema') = Net(migrations, applied \ {v}, t)
        <4>1. applied \ {v} \in SUBSET (1 .. Len(migrations)) /\ (applied \ {v}) \cup {v} = applied
          BY <1>0
        <4>2. /\ Net(migrations, applied \ {v}, t) \in Int
              /\ Net(migrations, (applied \ {v}) \cup {v}, t) = Net(migrations, applied \ {v}, t)
                   + Bit(t \in migrations[v].creates) - Bit(t \in migrations[v].drops)
          BY <1>0, <4>1, NetIsInteger, NetWithOneMore
        <4>3. Net(migrations, applied, t) = Bit(t \in schema)
          BY <1>0 DEF SchemaInv
        <4>4. Bit(t \in schema) = Bit(t \in schema')
                + Bit(t \in migrations[v].creates) - Bit(t \in migrations[v].drops)
          BY <3>1 DEF Bit
        <4>5. /\ Bit(t \in schema) \in Int /\ Bit(t \in schema') \in Int
              /\ Bit(t \in migrations[v].creates) \in Int /\ Bit(t \in migrations[v].drops) \in Int
          BY DEF Bit
        <4>6. Net(migrations, applied, t) = Net(migrations, applied \ {v}, t)
                + Bit(t \in migrations[v].creates) - Bit(t \in migrations[v].drops)
          BY <4>1, <4>2
        <4>. QED  BY <4>2, <4>3, <4>4, <4>5, <4>6
      <3>. QED  BY <1>0, <2>1, <3>1, <3>2 DEF SchemaInv
    <2>. QED  BY <2>2, <2>3
  <1>5. CASE \/ \E i \in Instances : PoolStep(i)
             \/ UNCHANGED vars
             \/ \E s \in Sessions : Command(s) \/ ReadPending(s)
             \/ MigrateReturns \/ ReadLatest
             \/ \E i \in Instances :
                  \/ \E setup \in Setup : Build(i, setup)
                  \/ Start(i) \/ CheckSucceeds(i) \/ CheckFails(i) \/ StartupMigrated(i)
                  \/ StartupMigrationFails(i) \/ LaterHooksStart(i) \/ Stop(i) \/ DropStart(i)
                  \/ Crash(i)
    <2>1. UNCHANGED <<migrations, applied, schema, generating>>
      BY <1>5 DEF PoolStep, Run, Acquire, LeaveQueue, ClosureEnds, Command, ReadPending,
         MigrateReturns, ReadLatest, Build, Start, CheckSucceeds, CheckFails, StartupMigrated,
         StartupMigrationFails, LaterHooksStart, Stop, DropStart, Crash, databaseVars, vars
    <2>. QED  BY <1>0, <2>1 DEF SchemaInv
  <1>. QED  BY <1>1, <1>2, <1>3, <1>4, <1>5, StepCases DEF BackgroundStep

-----------------------------------------------------------------------------
(***************************************************************************)
(* The invariant and what follows from it.                                 *)
(***************************************************************************)
\* An empty database and no instance: nothing to be inconsistent about.
LEMMA InitEstablishes == Init => DInv
  <1>. SUFFICES ASSUME Init PROVE DInv
    OBVIOUS
  <1>. USE SessionNames DEF Init
  <1>1. DatabaseTypeOK
    <2>1. migrations \in Seq(Migration) /\ Len(migrations) = 0
      OBVIOUS
    <2>2. settings \in [Instances -> [pool_size : 0 .. MaxPoolSize, migrate : BOOLEAN,
                                      embedded : BOOLEAN]]
      BY DatabaseAssumption
    <2>3. source \in [Sessions -> 0 .. Len(migrations)] /\ applied \subseteq 1 .. Len(migrations)
      BY <2>1
    <2>. QED  BY <2>1, <2>2, <2>3 DEF DatabaseTypeOK, Phases
  <1>2. SessionInv /\ HookInv /\ MigratedInv /\ OrderInv
    BY DEF SessionInv, HookInv, MigratedInv, OrderInv, GapsNeedAnOverlap, SourceVersions
  <1>3. SchemaInv
    <2>1. ASSUME NEW t \in Tables PROVE Bit(t \in schema) = Net(migrations, applied, t)
      <3>1. t \notin schema /\ applied = {}
        OBVIOUS
      <3>. QED  BY <3>1, NetOfNothing DEF Bit
    <2>. QED  BY <2>1 DEF SchemaInv
  <1>. QED  BY <1>1, <1>2, <1>3 DEF DInv

\* Every reachable state of the database satisfies the inductive invariant.
THEOREM DatabaseInvariance == Spec => []DInv
  <1>1. DInv /\ [Next]_vars => DInv'
    BY TypesPreserved, SessionsPreserved, HooksPreserved, MigratedPreserved, OrderPreserved,
       SchemaPreserved DEF DInv
  <1>. QED  BY <1>1, InitEstablishes, PTL DEF Spec

\* A failed start and a shutdown close the pool and leave no migration at
\* work; nothing else closes a pool.
THEOREM PoolFollows == Spec => []PoolFollowsLifecycle
  <1>1. DInv => PoolFollowsLifecycle
    BY SessionNames DEF DInv, DatabaseTypeOK, HookInv, PoolFollowsLifecycle
  <1>. QED  BY <1>1, DatabaseInvariance, PTL

\* An instance that got through its start with migrations enabled was given
\* them, and finds them applied, or taken back by a rollback since.
THEOREM StartsAreComplete == Spec => []StartIsComplete
  <1>1. DInv => StartIsComplete
    <2>. SUFFICES ASSUME DInv PROVE StartIsComplete
      OBVIOUS
    <2>1. StartedMeansMigrated
      <3>. SUFFICES ASSUME NEW i \in Instances, phase[i] \in {"started", "running"},
                           settings[i].migrate
                    PROVE  SourceVersions(i) \subseteq applied \cup reverted[i]
        BY DEF StartedMeansMigrated
      <3>1. step[i] = "idle" /\ todo[i] = {}
        BY SessionNames DEF DInv, HookInv, SessionInv
      <3>. QED  BY <3>1 DEF DInv, MigratedInv
    <2>2. StartFindsItsMigrations
      BY DEF DInv, HookInv, StartFindsItsMigrations
    <2>. QED  BY <2>1, <2>2 DEF StartIsComplete
  <1>. QED  BY <1>1, DatabaseInvariance, PTL

\* Without overlapping sessions the applied versions have no gap; and whenever
\* a generated migration is applied on exactly the versions it was generated
\* from, the database has the tables the entities asked for.
THEOREM HistoryConsistent == Spec => []HistoryIsConsistent
  <1>1. DInv => HistoryIsConsistent
    <2>. SUFFICES ASSUME DInv PROVE HistoryIsConsistent
      OBVIOUS
    <2>1. GapsNeedAnOverlap
      BY DEF DInv, OrderInv, GapsNeedAnOverlap
    <2>2. GeneratedReachesDesired
      <3>. SUFFICES ASSUME NEW v \in 1 .. Len(migrations), v \in applied,
                           applied = migrations[v].basis \cup {v}
                    PROVE  schema = migrations[v].desired
        BY DEF GeneratedReachesDesired
      <3>1. /\ Len(migrations) \in Nat /\ migrations[v] \in Migration /\ schema \subseteq Tables
            /\ migrations[v].basis \in SUBSET (1 .. v - 1)
        BY DEF DInv, DatabaseTypeOK, SchemaInv
      <3>2. v \notin migrations[v].basis /\ v - 1 \in Nat
        BY <3>1
      <3>3. ASSUME NEW t \in Tables
            PROVE  Bit(t \in schema) = Bit(t \in migrations[v].desired)
        <4>1. Net(migrations, applied, t) = Net(migrations, migrations[v].basis, t)
                + Bit(t \in migrations[v].creates) - Bit(t \in migrations[v].drops)
          BY <3>1, <3>2, NetIsInteger, NetWithOneMore
        <4>. QED  BY <4>1 DEF DInv, SchemaInv, Plans
      <3>4. migrations[v].desired \subseteq Tables
        BY <3>1 DEF Migration
      <3>5. \A t \in Tables : t \in schema <=> t \in migrations[v].desired
        BY <3>3 DEF Bit
      <3>. QED  BY <3>1, <3>4, <3>5
    <2>. QED  BY <2>1, <2>2 DEF HistoryIsConsistent
  <1>. QED  BY <1>1, DatabaseInvariance, PTL

=============================================================================
