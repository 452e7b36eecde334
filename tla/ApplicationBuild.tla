-------------------------- MODULE ApplicationBuild --------------------------
(***************************************************************************)
(* MadsBuilder (builder.rs): calls that provide values, then build(), which *)
(* analyzes the catalog, searches cycles (graph/cycle.rs), plans (graph/    *)
(* plan.rs), applies the selected defaults and runs the constructors.       *)
(*                                                                          *)
(* Analysis is one synchronous call; its loops are steps here, one for an   *)
(* iteration, so that their invariants can be stated.  Constructors are the *)
(* application's code: they resolve their dependencies, and may then fail   *)
(* or be dropped at an await.  Rooted builds, which narrow the catalog to a *)
(* module scope first, see the catalog after that selection.                *)
(***************************************************************************)
EXTENDS ProviderGraph, SequencesExt

CONSTANTS
  Catalogs,   \* the catalogs a program can be linked with
  MaxHeld     \* bound: values provided or constructed before build()

ASSUME CatalogsAssumption ==
  /\ \A c \in Catalogs : /\ c.declared \subseteq Declaration /\ IsFiniteSet(c.declared)
                         /\ c.repeated \subseteq c.declared
  /\ MaxHeld \in Nat

VARIABLES
  phase,      \* what the builder is doing
  catalog,    \* declared: the distinct declarations; repeated: those registered twice
  satisfied,  \* MadsBuilder.satisfied: held type -> how it got there
  registry,   \* ProviderRegistry: the types with a value
  decisions,  \* auto-configuration descriptor -> its status
  graph,      \* ApplicationGraph
  color, stack, cycles,       \* cycle::detect
  remaining, ready, plan,     \* plan::create: counters, ready set, steps
  applied, constructed,       \* defaults applied, construction steps done
  queue, visited, path,       \* consumer_path: paths, marks, what it returned
  outcome     \* how build() ended

graphVars  == <<catalog, satisfied, decisions, graph>>
searchVars == <<color, stack, cycles>>
planVars   == <<remaining, ready, plan>>
pathVars   == <<queue, visited, path>>
progressVars == <<applied, constructed>>
buildVars  == <<phase, graphVars, registry, searchVars, planVars, progressVars,
                pathVars, outcome>>

Phases == {"open", "searching", "planning", "applying", "constructing",
           "explaining", "done"}
Outcomes == {"none", "rejected", "panicked", "applier", "duplicate", "unresolved",
             "constructor", "dropped", "built"}

BuildInit ==
  /\ phase = "open"
  /\ catalog \in Catalogs
  /\ satisfied = << >>
  /\ registry = {}
  /\ decisions = [d \in Defaults |-> "skipped"]
  /\ graph = [nodes |-> {}, planned |-> {}, deps |-> << >>]
  /\ color = << >> /\ stack = << >> /\ cycles = {}
  /\ remaining = << >> /\ ready = {} /\ plan = << >>
  /\ applied = {} /\ constructed = 0
  /\ queue = << >> /\ visited = {} /\ path = << >>
  /\ outcome = "none"

Finish(how) == phase' = "done" /\ outcome' = how

-----------------------------------------------------------------------------
(***************************************************************************)
(* Before build().  A call that fails returns an error and changes nothing. *)
(***************************************************************************)
\* `insert` refuses a type that has a value.
Provide(t) ==
  /\ phase = "open" /\ Cardinality(DOMAIN satisfied) < MaxHeld
  /\ t \notin registry
  /\ registry' = registry \cup {t}
  /\ satisfied' = [s \in DOMAIN satisfied \cup {t} |->
                     IF s = t THEN "provided" ELSE satisfied[s]]
  /\ UNCHANGED <<phase, catalog, decisions, graph, searchVars, planVars, progressVars,
                 pathVars, outcome>>

\* `provider_for` wants the type declared once; the constructor resolves its
\* dependencies in the registry, and may fail.
Construct(t) ==
  /\ phase = "open" /\ Cardinality(DOMAIN satisfied) < MaxHeld
  /\ \E d \in catalog.declared \ catalog.repeated :
       /\ {e \in catalog.declared : e.type = t} = {d}
       /\ \A i \in DOMAIN d.deps : d.deps[i] \in registry
  /\ t \notin registry
  /\ registry' = registry \cup {t}
  /\ satisfied' = [s \in DOMAIN satisfied \cup {t} |->
                     IF s = t THEN "preconstructed" ELSE satisfied[s]]
  /\ UNCHANGED <<phase, catalog, decisions, graph, searchVars, planVars, progressVars,
                 pathVars, outcome>>

\* build(): decide the defaults, resolve the graph, and go on to the cycles
\* only when nothing else is wrong.
Analyze ==
  /\ phase = "open"
  /\ \E evaluated \in [Defaults -> Statuses] :
       /\ \A d \in Defaults : evaluated[d] \in Evaluations(catalog, satisfied, d)
       /\ decisions' = Decide(evaluated)
  /\ graph' = Resolve(catalog, satisfied, decisions')
  /\ IF Problems(catalog, graph', decisions') = {}
     THEN /\ phase' = "searching"
          /\ color' = [t \in graph'.nodes |-> "white"]
          /\ UNCHANGED outcome
     ELSE Finish("rejected") /\ UNCHANGED color
  /\ UNCHANGED <<catalog, satisfied, registry, stack, cycles, planVars, progressVars,
                 pathVars>>

-----------------------------------------------------------------------------
(***************************************************************************)
(* cycle::detect: a depth-first search, one frame for each call of visit.   *)
(***************************************************************************)
Searching == phase = "searching"

SearchUnchanged == UNCHANGED <<graphVars, registry, planVars, progressVars, pathVars, outcome>>

Visit(t, frames) ==
  /\ color' = [color EXCEPT ![t] = "gray"]
  /\ stack' = Append(frames, [node |-> t, pending |-> Outgoing(graph, t)])

SearchRoot ==
  LET white == {t \in graph.nodes : color[t] = "white"} IN
  /\ Searching /\ stack = << >> /\ white # {}
  /\ Visit(Least(white), stack)
  /\ UNCHANGED <<phase, cycles>> /\ SearchUnchanged

\* The open cycle, rotated to start with its first name.
CanonicalFrom(frames, start) ==
  LET open == [i \in 1 .. Len(frames) - start + 1 |-> frames[start + i - 1].node]
      first == CHOOSE i \in DOMAIN open : \A j \in DOMAIN open : open[i] <= open[j]
  IN  SubSeq(open, first, Len(open)) \o SubSeq(open, 1, first - 1)

CanonicalCycle(frames, t) ==
  CanonicalFrom(frames, CHOOSE i \in DOMAIN frames : frames[i].node = t)

\* Seeded fault: a gray dependency is passed over like a black one.
SearchDependencySkipsGray ==
  LET top  == Last(stack)
      next == Least(top.pending)
      rest == Append(Front(stack), [top EXCEPT !.pending = @ \ {next}])
  IN  /\ Searching /\ stack # << >> /\ top.pending # {}
      /\ IF color[next] = "white"
         THEN Visit(next, rest)
         ELSE stack' = rest /\ UNCHANGED color
      /\ UNCHANGED <<phase, cycles>> /\ SearchUnchanged

SearchDependency ==
  LET top  == Last(stack)
      next == Least(top.pending)
      rest == Append(Front(stack), [top EXCEPT !.pending = @ \ {next}])
  IN  /\ Searching /\ stack # << >> /\ top.pending # {}
      /\ \/ color[next] = "white" /\ Visit(next, rest) /\ UNCHANGED cycles
         \/ /\ color[next] = "gray"
            /\ cycles' = cycles \cup {CanonicalCycle(stack, next)}
            /\ stack' = rest /\ UNCHANGED color
         \/ color[next] = "black" /\ stack' = rest /\ UNCHANGED <<color, cycles>>
      /\ UNCHANGED phase /\ SearchUnchanged

SearchLeave ==
  /\ Searching /\ stack # << >> /\ Last(stack).pending = {}
  /\ color' = [color EXCEPT ![Last(stack).node] = "black"]
  /\ stack' = Front(stack)
  /\ UNCHANGED <<phase, cycles>> /\ SearchUnchanged

\* No cycle: the counters and the ready set of plan::create.
SearchEnd ==
  /\ Searching /\ stack = << >> /\ \A t \in graph.nodes : color[t] # "white"
  /\ IF cycles # {}
     THEN Finish("rejected") /\ UNCHANGED <<remaining, ready>>
     ELSE /\ phase' = "planning"
          /\ remaining' = [t \in graph.planned |-> Cardinality(PlannedEdges(graph, t))]
          /\ ready' = {t \in graph.planned : PlannedEdges(graph, t) = {}}
          /\ UNCHANGED outcome
  /\ UNCHANGED <<graphVars, registry, searchVars, plan, progressVars, pathVars>>

-----------------------------------------------------------------------------
(***************************************************************************)
(* plan::create: Kahn's algorithm, the ready provider of the least name     *)
(* first.  Every edge counts, so a type named twice is waited for twice.    *)
(***************************************************************************)
EdgesTo(consumer, t) ==
  {i \in PlannedEdges(graph, consumer) : graph.deps[consumer][i] = t}

Consumers(t) == {c \in graph.planned : EdgesTo(c, t) # {}}

CountDown(next) == [c \in graph.planned |-> remaining[c] - Cardinality(EdgesTo(c, next))]

PlanStep ==
  /\ phase = "planning"
  /\ \E next \in ready :
       /\ \A other \in ready : next <= other
       /\ plan' = Append(plan, next)
       /\ remaining' = CountDown(next)
       /\ ready' = (ready \ {next}) \cup {c \in Consumers(next) : remaining'[c] = 0}
  /\ UNCHANGED <<phase, graphVars, registry, searchVars, progressVars, pathVars, outcome>>

\* Seeded fault: the diagnostics of failed defaults do not withdraw the plan.
PlanEndKeepsPlan ==
  /\ phase = "planning" /\ ready = {}
  /\ IF Len(plan) # Cardinality(graph.planned)
     THEN Finish("panicked")
     ELSE phase' = "applying" /\ UNCHANGED outcome
  /\ UNCHANGED <<graphVars, registry, searchVars, planVars, progressVars, pathVars>>

\* The assertion that every planned provider has a step; then
\* append_diagnostics withdraws the plan if a default failed.
PlanEnd ==
  /\ phase = "planning" /\ ready = {}
  /\ IF Len(plan) # Cardinality(graph.planned) THEN Finish("panicked")
     ELSE IF Failed(decisions) # {} THEN Finish("rejected")
     ELSE phase' = "applying" /\ UNCHANGED outcome
  /\ UNCHANGED <<graphVars, registry, searchVars, planVars, progressVars, pathVars>>

-----------------------------------------------------------------------------
(***************************************************************************)
(* The rest of build(): appliers in identifier order, then constructors in  *)
(* plan order.  The first error ends it, and drops the builder.             *)
(***************************************************************************)
\* insert_erased: an error for a type that has a value already.
InsertErased(t) ==
  IF t \in registry
  THEN Finish("duplicate") /\ UNCHANGED registry
  ELSE registry' = registry \cup {t} /\ UNCHANGED <<phase, outcome>>

ApplyDefault ==
  LET waiting == Selected(decisions) \ applied IN
  /\ phase = "applying"
  /\ \E next \in waiting :
       /\ \A other \in waiting : next.identifier <= other.identifier
       /\ applied' = applied \cup {next}
       /\ InsertErased(next.output) \/ (Finish("applier") /\ UNCHANGED registry)
  /\ UNCHANGED <<graphVars, searchVars, planVars, constructed, pathVars>>

ApplyEnd ==
  /\ phase = "applying" /\ applied = Selected(decisions)
  /\ phase' = "constructing"
  /\ UNCHANGED <<graphVars, registry, searchVars, planVars, progressVars, pathVars, outcome>>

Constructing == phase = "constructing" /\ constructed < Len(plan)
NextStep == plan[constructed + 1]

ConstructUnchanged == UNCHANGED <<graphVars, searchVars, planVars, applied>>

\* The constructor resolves every dependency it declares and returns a value.
Constructor(t) == \A i \in DOMAIN graph.deps[t] : graph.deps[t][i] \in registry

ConstructStep ==
  /\ Constructing /\ Constructor(NextStep)
  /\ InsertErased(NextStep)
  /\ constructed' = constructed + 1
  /\ UNCHANGED pathVars /\ ConstructUnchanged

\* Roots of the consumer search: nothing depends on them.
Roots == {t \in graph.nodes : \A s \in graph.nodes : t \notin Outgoing(graph, s)}

\* The ith member of S in name order.
Ith(S, i) == CHOOSE t \in S : Cardinality({s \in S : s < t}) = i - 1

SingletonPaths(S) == [i \in 1 .. Cardinality(S) |-> <<Ith(S, i)>>]

\* provider_construction_error: without a consumer there is no path to show.
Explain(cause) ==
  /\ outcome' = cause
  /\ IF \E s \in graph.nodes : NextStep \in Outgoing(graph, s)
     THEN /\ phase' = "explaining"
          /\ queue' = SingletonPaths(Roots)
          /\ visited' = Roots
     ELSE phase' = "done" /\ UNCHANGED <<queue, visited>>

ConstructFails ==
  /\ Constructing
  /\ Explain(IF Constructor(NextStep) THEN "constructor" ELSE "unresolved")
  /\ UNCHANGED <<registry, constructed, path>> /\ ConstructUnchanged

\* The future of build() is dropped while a constructor awaits.
DropBuild ==
  /\ Constructing
  /\ Finish("dropped")
  /\ UNCHANGED <<registry, constructed, pathVars>> /\ ConstructUnchanged

BuildEnd ==
  /\ phase = "constructing" /\ constructed = Len(plan)
  /\ Finish("built")
  /\ UNCHANGED <<graphVars, registry, searchVars, planVars, progressVars, pathVars>>

-----------------------------------------------------------------------------
(***************************************************************************)
(* consumer_path: breadth-first from the roots to the failing provider.     *)
(***************************************************************************)
ExplainUnchanged ==
  UNCHANGED <<graphVars, registry, searchVars, planVars, progressVars, outcome>>

ExplainStep ==
  LET head == Head(queue)
      new  == Outgoing(graph, Last(head)) \ visited
  IN  /\ phase = "explaining" /\ queue # << >> /\ Last(head) # NextStep
      /\ visited' = visited \cup new
      /\ queue' = Tail(queue) \o [i \in 1 .. Cardinality(new) |-> Append(head, Ith(new, i))]
      /\ UNCHANGED <<phase, path>> /\ ExplainUnchanged

ExplainEnd ==
  /\ phase = "explaining"
  /\ \/ queue = << >> /\ UNCHANGED path
     \/ queue # << >> /\ Last(Head(queue)) = NextStep /\ path' = Head(queue)
  /\ phase' = "done"
  /\ UNCHANGED <<queue, visited>> /\ ExplainUnchanged

-----------------------------------------------------------------------------
\* Nothing is left to do; any other state without a step is a deadlock.
Ended == phase = "done" /\ UNCHANGED buildVars

BuildNext ==
  \/ \E t \in Types : Provide(t) \/ Construct(t)
  \/ Analyze
  \/ SearchRoot \/ SearchDependency \/ SearchLeave \/ SearchEnd
  \/ PlanStep \/ PlanEnd
  \/ ApplyDefault \/ ApplyEnd
  \/ ConstructStep \/ ConstructFails \/ DropBuild \/ BuildEnd
  \/ ExplainStep \/ ExplainEnd
  \/ Ended

BuildSpec == BuildInit /\ [][BuildNext]_buildVars

-----------------------------------------------------------------------------
\* The builder's state and the loops of analysis and planning keep their types.
BuildTypeOK ==
  /\ phase \in Phases /\ outcome \in Outcomes
  /\ catalog.repeated \subseteq catalog.declared /\ catalog.declared \subseteq Declaration
  /\ DOMAIN satisfied \subseteq registry /\ registry \subseteq Types
  /\ decisions \in [Defaults -> Statuses]
  /\ graph.planned \subseteq graph.nodes /\ graph.nodes \subseteq Types
  /\ \A i \in DOMAIN stack : stack[i].node \in graph.nodes
  /\ ready \subseteq graph.planned
  /\ phase \in {"planning", "applying"} =>
       remaining \in [graph.planned -> Nat] /\ plan \in Seq(graph.planned)
  /\ applied \subseteq Selected(decisions)
  /\ constructed \in 0 .. Len(plan)

\* When a constructor runs, each dependency it declares resolves: the plan
\* orders the planned ones, the held ones and the defaults are inserted before.
ConstructorsFindDependencies == Constructing => Constructor(NextStep)

\* No value that build() inserts meets an earlier one of its type, whatever was
\* provided, constructed by hand, declared or selected as a default.
InsertionNeverCollides == outcome # "duplicate"

\* plan::create never fails its assertion: what the cycle search lets pass,
\* providers naming a type twice included, can be ordered completely.
PlanningNeverPanics == outcome # "panicked"

\* A reported cycle is a path of edges between declared providers that closes,
\* starts at its first name and passes each provider once.
CyclesAreReal ==
  \A c \in cycles :
    /\ \A i \in DOMAIN c : c[i] \in graph.planned /\ c[1] <= c[i]
    /\ \A i \in DOMAIN c :
         c[IF i = Len(c) THEN 1 ELSE i + 1] \in Outgoing(graph, c[i])
    /\ IsInjective(c)

\* Planning is sound: a refused graph has the cycle it is refused for, and a
\* graph without one is ordered completely.
PlanningIsSound == PlanningNeverPanics /\ CyclesAreReal

\* Reference definition: what can be had from the held values and the selected
\* defaults by running constructors whose dependencies are there, the least set
\* of types that has the former and is closed under the latter.
Supports(S) ==
  /\ DOMAIN satisfied \cup Outputs(Selected(decisions)) \subseteq S
  /\ \A d \in catalog.declared : (\A i \in DOMAIN d.deps : d.deps[i] \in S) => d.type \in S

Obtainable == {t \in Types : \A S \in SUBSET Types : Supports(S) => t \in S}

Buildable ==
  /\ catalog.repeated = {}
  /\ \A d, e \in catalog.declared : d.type = e.type => d = e
  /\ Failed(decisions) = {}
  /\ \A d \in catalog.declared : d.type \in Obtainable

\* build() starts to apply and construct exactly when some order of
\* construction exists: no diagnostic is missed, and none is invented.
AcceptsExactlyBuildable ==
  /\ phase \in {"applying", "constructing"} => Buildable
  /\ outcome = "rejected" => ~Buildable

\* In a built application every declared provider that the application did not
\* supply itself comes from its declaration, once; no default took its place.
BuiltFromDeclarations ==
  outcome = "built" =>
    /\ ToSet(plan) = {d.type : d \in catalog.declared} \ DOMAIN satisfied
    /\ IsInjective(plan)
    /\ registry = DOMAIN satisfied \cup Outputs(applied) \cup ToSet(plan)

\* The error of a constructor that some provider depends on shows a path of
\* dependencies that leads to it from a provider nobody depends on.
FailureIsExplained ==
  phase = "done" /\ outcome \in {"constructor", "unresolved"} =>
    IF path = << >>
    THEN \A s \in graph.nodes : NextStep \notin Outgoing(graph, s)
    ELSE /\ path[1] \in Roots /\ Last(path) = NextStep
         /\ \A i \in 1 .. Len(path) - 1 : path[i + 1] \in Outgoing(graph, path[i])

\* build() does what the declarations say: it accepts those that can be built
\* and no others, builds exactly what they declare, and explains what fails.
BuildIsFaithful == AcceptsExactlyBuildable /\ BuiltFromDeclarations /\ FailureIsExplained

=============================================================================
