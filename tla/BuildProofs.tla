---------------------------- MODULE BuildProofs ----------------------------
(***************************************************************************)
(* Proofs about ApplicationBuild, for every catalog, every set of defaults  *)
(* and every graph: constructors find what they need, no insertion of       *)
(* build() collides, the cycle search and the planning are sound, and       *)
(* build() accepts, builds and explains what the declarations say.          *)
(***************************************************************************)
EXTENDS ApplicationBuild, FiniteSetTheorems, WellFoundedInduction, TLAPS

(***************************************************************************)
(* The inductive invariant.  Kahn's counters say how many edges of a        *)
(* provider lead to one without a step yet, the ready set is where that is  *)
(* none, and so every step comes after its dependencies.  The registry is   *)
(* exactly what was held, applied and constructed, three disjoint sets.     *)
(***************************************************************************)
Analyzed == {"searching", "planning", "applying", "constructing", "explaining"}
Accepted == {"applying", "constructing", "explaining"}

Shape ==
  /\ phase \in Phases
  /\ catalog \in Catalogs
  /\ plan \in Seq(graph.planned)
  /\ constructed \in 0 .. Len(plan)
  /\ phase \in {"open", "searching"} => plan = << >>
  /\ phase \in {"open", "searching", "planning", "applying"} => constructed = 0
  /\ phase \in {"open", "searching", "planning"} => applied = {}
  /\ applied \subseteq Selected(decisions)

Analysis ==
  /\ phase \in Analyzed =>
       /\ graph = Resolve(catalog, satisfied, decisions)
       /\ Problems(catalog, graph, decisions) = {}
  /\ phase \in Accepted => Failed(decisions) = {}
  /\ phase \in {"constructing", "explaining"} => applied = Selected(decisions)

\* A selected default yields to the application, and no other has its output.
Yielding ==
  phase \in Analyzed =>
    \A d \in Selected(decisions) :
      /\ ~ HasProvider(catalog, satisfied, d.output)
      /\ \A e \in Selected(decisions) : e.output = d.output => e = d

Placed == {plan[k] : k \in DOMAIN plan}

\* The edges of a provider that its counter still counts.
Waiting(c) == {i \in PlannedEdges(graph, c) : graph.deps[c][i] \notin Placed}

Counting ==
  phase = "planning" =>
    /\ remaining = [c \in graph.planned |-> Cardinality(Waiting(c))]
    /\ ready = {c \in graph.planned : c \notin Placed /\ Waiting(c) = {}}

Ordered ==
  phase # "done" =>
    /\ \A k \in DOMAIN plan : \A i \in PlannedEdges(graph, plan[k]) :
         \E j \in 1 .. k - 1 : plan[j] = graph.deps[plan[k]][i]
    /\ \A j, k \in DOMAIN plan : plan[j] = plan[k] => j = k

Holding ==
  phase # "done" =>
    registry = DOMAIN satisfied \cup Outputs(applied) \cup {plan[k] : k \in 1 .. constructed}

BuildInv ==
  /\ Shape /\ Analysis /\ Yielding /\ Counting /\ Ordered /\ Holding
  /\ InsertionNeverCollides

-----------------------------------------------------------------------------
\* The dependencies of a planned provider are those of a declaration.
LEMMA DepsAreSequences ==
  ASSUME NEW c \in Catalogs, NEW s, NEW ds, NEW g, g = Resolve(c, s, ds), NEW t \in g.planned
  PROVE  g.deps[t] \in Seq(Types)
  <1>1. \A d \in c.declared : d.deps \in Seq(Types)
    BY CatalogsAssumption DEF Declaration
  <1>2. /\ \E d \in c.declared : d.type = t
        /\ g.deps = [x \in g.planned |-> (CHOOSE d \in c.declared : d.type = x).deps]
    BY DEF Resolve
  <1>3. (CHOOSE d \in c.declared : d.type = t) \in c.declared
    BY <1>2
  <1>. QED  BY <1>1, <1>2, <1>3

\* A resolved graph plans declared types nobody holds; without an ambiguous or
\* a missing dependency every dependency of a planned provider is a node.
LEMMA Resolution ==
  ASSUME NEW c \in Catalogs, NEW s, NEW ds,
         NEW g, g = Resolve(c, s, ds), Problems(c, g, ds) = {}, Failed(ds) = {}
  PROVE  /\ g.planned \subseteq Types
         /\ g.planned \cap (DOMAIN s \cup Outputs(Selected(ds))) = {}
         /\ \A t \in g.planned :
              /\ g.deps[t] \in Seq(Types)
              /\ \A i \in DOMAIN g.deps[t] :
                   g.deps[t][i] \in g.planned \cup DOMAIN s \cup Outputs(Selected(ds))
  <1>. DEFINE held == DOMAIN s \cup Outputs(Selected(ds))
              declared == {d.type : d \in c.declared}
  <1>1. /\ g.nodes = (held \cup declared) \ Ambiguous(c)
        /\ g.planned = g.nodes \ held
        /\ g.deps = [t \in g.planned |-> (CHOOSE d \in c.declared : d.type = t).deps]
    BY DEF Resolve
  <1>2. c.declared \subseteq Declaration
    BY CatalogsAssumption
  <1>3. \A d \in c.declared : d.type \in Types /\ d.deps \in Seq(Types)
    BY <1>2 DEF Declaration
  <1>4. \A t \in g.planned : g.deps[t] \in Seq(Types)
    BY DepsAreSequences
  <1>5. Ambiguous(c) = {}
    BY DEF Problems
  <1>6. CoveredMissing(c, ds) = {}
    BY DEF CoveredMissing, Outputs
  <1>7. Missing(c, g, {}) = {}
    BY <1>6 DEF Problems
  <1>8. ASSUME NEW t \in g.planned, NEW i \in DOMAIN g.deps[t]
        PROVE  g.deps[t][i] \in g.nodes
    <2>1. g.deps[t][i] \in Types
      BY <1>4
    <2>. QED  BY <1>5, <1>7, <2>1 DEF Missing
  <1>9. g.planned \subseteq Types
    BY <1>1, <1>3
  <1>. QED  BY <1>1, <1>4, <1>8, <1>9

\* A default that stays active was evaluated so, with no provider of its output.
LEMMA SelectedYield ==
  ASSUME NEW c, NEW s, NEW evaluated \in [Defaults -> Statuses],
         \A d \in Defaults : evaluated[d] \in Evaluations(c, s, d)
  PROVE  \A d \in Selected(Decide(evaluated)) : ~ HasProvider(c, s, d.output)
  BY DEF Selected, Decide, Evaluations

\* No two defaults stay active for the same output.
LEMMA SelectedDiffer ==
  ASSUME NEW evaluated \in [Defaults -> Statuses]
  PROVE  \A d, e \in Selected(Decide(evaluated)) : e.output = d.output => e = d
  BY DEF Selected, Decide

-----------------------------------------------------------------------------
\* A new builder satisfies the inductive invariant.
LEMMA BuildInitEstablishes == BuildInit => BuildInv
  <1>. SUFFICES ASSUME BuildInit PROVE BuildInv
    OBVIOUS
  <1>1. phase = "open" /\ plan = << >> /\ constructed = 0 /\ applied = {} /\ registry = {}
        /\ satisfied = << >> /\ catalog \in Catalogs /\ outcome = "none"
    BY DEF BuildInit
  <1>2. plan \in Seq(graph.planned) /\ Len(plan) = 0
    BY <1>1
  <1>3. Shape
    BY <1>1, <1>2 DEF Shape, Phases
  <1>4. Analysis /\ Yielding /\ Counting /\ Ordered
    BY <1>1, <1>2 DEF Analysis, Yielding, Counting, Ordered, Analyzed, Accepted
  <1>5. Holding /\ InsertionNeverCollides
    BY <1>1 DEF Holding, InsertionNeverCollides, Outputs
  <1>. QED  BY <1>3, <1>4, <1>5 DEF BuildInv

\* A step into a phase where only what was planned, applied and constructed is
\* known: the graph, the plan and the progress stay.
LEMMA Stays ==
  ASSUME BuildInv, phase' \in Phases, outcome' # "duplicate",
         UNCHANGED <<graphVars, registry, plan, progressVars>>,
         phase' # phase =>
           \/ phase' = "done"
           \/ phase = "constructing" /\ phase' = "explaining",
         phase' = "planning" => UNCHANGED <<remaining, ready>>
  PROVE  BuildInv'
  <1>1. Shape'
    BY DEF BuildInv, Shape, graphVars, progressVars
  <1>2. Analysis'
    BY DEF BuildInv, Analysis, graphVars, progressVars, Analyzed, Accepted
  <1>3. Yielding'
    BY DEF BuildInv, Yielding, graphVars, Analyzed
  <1>4. Counting'
    <2>1. \A c : Waiting(c)' = Waiting(c)
      BY DEF Waiting, PlannedEdges, Placed, graphVars
    <2>. QED  BY <2>1 DEF BuildInv, Counting, Placed, graphVars
  <1>5. Ordered' /\ Holding' /\ InsertionNeverCollides'
    BY DEF BuildInv, Ordered, PlannedEdges, Holding, InsertionNeverCollides, graphVars,
           progressVars
  <1>. QED  BY <1>1, <1>2, <1>3, <1>4, <1>5 DEF BuildInv

\* provide() and construct() keep it: the registry and the held types grow together.
LEMMA CallsPreserve ==
  ASSUME BuildInv, NEW t \in Types, Provide(t) \/ Construct(t)
  PROVE  BuildInv'
  <1>1. /\ phase = "open" /\ phase' = "open" /\ outcome' = outcome
        /\ UNCHANGED <<catalog, decisions, graph, plan, applied, constructed>>
        /\ registry' = registry \cup {t}
        /\ DOMAIN satisfied' = DOMAIN satisfied \cup {t}
    BY DEF Provide, Construct, planVars, progressVars
  <1>2. constructed = 0 /\ applied = {} /\ plan = << >>
    BY <1>1 DEF BuildInv, Shape
  <1>3. Shape'
    BY <1>1 DEF BuildInv, Shape
  <1>4. Analysis' /\ Yielding' /\ Counting' /\ Ordered'
    BY <1>1, <1>2 DEF Analysis, Yielding, Counting, Ordered, Analyzed, Accepted
  <1>5. Holding' /\ InsertionNeverCollides'
    BY <1>1, <1>2 DEF BuildInv, Holding, InsertionNeverCollides
  <1>. QED  BY <1>3, <1>4, <1>5 DEF BuildInv

\* The decisions and the resolved graph of analyze_builder establish its static parts.
LEMMA AnalyzePreserves ==
  ASSUME BuildInv, Analyze
  PROVE  BuildInv'
  <1>1. PICK evaluated \in [Defaults -> Statuses] :
          /\ \A d \in Defaults : evaluated[d] \in Evaluations(catalog, satisfied, d)
          /\ decisions' = Decide(evaluated)
    BY DEF Analyze
  <1>2. /\ phase = "open" /\ graph' = Resolve(catalog, satisfied, decisions')
        /\ UNCHANGED <<catalog, satisfied, registry, plan, applied, constructed>>
        /\ \/ /\ phase' = "searching" /\ outcome' = outcome
              /\ Problems(catalog, graph', decisions') = {}
           \/ phase' = "done" /\ outcome' = "rejected"
    BY DEF Analyze, Finish, planVars, progressVars
  <1>3. constructed = 0 /\ applied = {} /\ plan = << >> /\ catalog \in Catalogs
    BY <1>2 DEF BuildInv, Shape
  <1>4. Shape'
    <2>1. << >> \in Seq(graph'.planned) /\ Len(<< >>) = 0
      OBVIOUS
    <2>. QED  BY <1>2, <1>3, <2>1 DEF Shape, Phases
  <1>5. Analysis' /\ Counting' /\ Ordered'
    BY <1>2, <1>3 DEF Analysis, Counting, Ordered, Analyzed, Accepted
  <1>6. Yielding'
    <2>1. \A d \in Selected(Decide(evaluated)) :
            /\ ~ HasProvider(catalog, satisfied, d.output)
            /\ \A e \in Selected(Decide(evaluated)) : e.output = d.output => e = d
      <3>1. \A d \in Defaults : evaluated[d] \in Evaluations(catalog, satisfied, d)
        BY <1>1
      <3>2. \A d \in Selected(Decide(evaluated)) : ~ HasProvider(catalog, satisfied, d.output)
        BY <3>1, SelectedYield
      <3>. QED  BY <3>2, SelectedDiffer
    <2>2. Selected(decisions)' = Selected(Decide(evaluated))
      BY <1>1 DEF Selected
    <2>. QED  BY <1>2, <2>1, <2>2 DEF Yielding
  <1>7. Holding' /\ InsertionNeverCollides'
    BY <1>2, <1>3 DEF BuildInv, Holding, InsertionNeverCollides
  <1>. QED  BY <1>4, <1>5, <1>6, <1>7 DEF BuildInv

\* A search step either stays in the search or ends it; the counters start as
\* the numbers of planned edges, none of which is counted down yet.
LEMMA SearchEndPreserves ==
  ASSUME BuildInv, SearchEnd
  PROVE  BuildInv'
  <1>1. /\ phase = "searching"
        /\ UNCHANGED <<graphVars, registry, plan, applied, constructed>>
        /\ \/ phase' = "done" /\ outcome' = "rejected"
           \/ /\ phase' = "planning" /\ outcome' = outcome
              /\ remaining' = [t \in graph.planned |-> Cardinality(PlannedEdges(graph, t))]
              /\ ready' = {t \in graph.planned : PlannedEdges(graph, t) = {}}
    BY DEF SearchEnd, Searching, Finish, progressVars
  <1>2. constructed = 0 /\ applied = {} /\ plan = << >>
    BY <1>1 DEF BuildInv, Shape
  <1>3. Shape'
    BY <1>1 DEF BuildInv, Shape, Phases, graphVars
  <1>4. Analysis' /\ Yielding'
    BY <1>1 DEF BuildInv, Analysis, Yielding, Analyzed, Accepted, graphVars
  <1>5. Counting'
    <2>1. Placed' = {}
      BY <1>1, <1>2 DEF Placed
    <2>2. \A c : Waiting(c)' = PlannedEdges(graph, c)
      BY <1>1, <2>1 DEF Waiting, PlannedEdges, graphVars
    <2>. QED  BY <1>1, <2>1, <2>2 DEF Counting, graphVars
  <1>6. Ordered' /\ Holding' /\ InsertionNeverCollides'
    BY <1>1, <1>2 DEF BuildInv, Ordered, Holding, InsertionNeverCollides, graphVars
  <1>. QED  BY <1>3, <1>4, <1>5, <1>6 DEF BuildInv

-----------------------------------------------------------------------------
\* Appending a ready provider keeps the order, and each edge to it is counted
\* down in its consumer.
LEMMA PlanStepPreserves ==
  ASSUME BuildInv, PlanStep
  PROVE  BuildInv'
  <1>1. PICK next \in ready :
          /\ plan' = Append(plan, next)
          /\ remaining' = CountDown(next)
          /\ ready' = (ready \ {next}) \cup {c \in Consumers(next) : remaining'[c] = 0}
    BY DEF PlanStep
  <1>2. /\ phase = "planning" /\ phase' = "planning" /\ outcome' = outcome
        /\ UNCHANGED <<graphVars, registry, applied, constructed>>
    BY DEF PlanStep, progressVars
  <1>3. /\ remaining = [c \in graph.planned |-> Cardinality(Waiting(c))]
        /\ ready = {c \in graph.planned : c \notin Placed /\ Waiting(c) = {}}
        /\ plan \in Seq(graph.planned) /\ constructed = 0 /\ applied = {}
    BY <1>2 DEF BuildInv, Counting, Shape
  <1>4. /\ next \in graph.planned /\ next \notin Placed /\ Waiting(next) = {}
    BY <1>3
  <1>5. /\ plan' \in Seq(graph.planned) /\ Len(plan') = Len(plan) + 1 /\ Len(plan) \in Nat
        /\ DOMAIN plan' = 1 .. Len(plan) + 1 /\ DOMAIN plan = 1 .. Len(plan)
        /\ \A k \in 1 .. Len(plan) : plan'[k] = plan[k]
        /\ plan'[Len(plan) + 1] = next
    BY <1>1, <1>3, <1>4
  <1>6. Placed' = Placed \cup {next}
    <2>1. ASSUME NEW x \in Placed' PROVE x \in Placed \cup {next}
      <3>1. PICK k \in 1 .. Len(plan) + 1 : x = plan'[k]
        BY <1>5, <2>1 DEF Placed
      <3>2. CASE k = Len(plan) + 1
        BY <1>5, <3>1, <3>2
      <3>3. CASE k \in 1 .. Len(plan)
        BY <1>5, <3>1, <3>3 DEF Placed
      <3>. QED  BY <1>5, <3>2, <3>3
    <2>2. ASSUME NEW x \in Placed PROVE x \in Placed'
      <3>1. PICK k \in 1 .. Len(plan) : x = plan[k]
        BY <1>5, <2>2 DEF Placed
      <3>2. k \in 1 .. Len(plan) + 1 /\ plan'[k] = x
        BY <1>5, <3>1
      <3>. QED  BY <1>5, <3>2 DEF Placed
    <2>3. next \in Placed'
      <3>1. Len(plan) + 1 \in 1 .. Len(plan) + 1
        BY <1>5
      <3>. QED  BY <1>5, <3>1 DEF Placed
    <2>. QED  BY <2>1, <2>2, <2>3
  <1>7. graph' = graph /\ catalog' = catalog /\ satisfied' = satisfied /\ decisions' = decisions
    BY <1>2 DEF graphVars
  <1>8. \A c : /\ Waiting(c)' = Waiting(c) \ EdgesTo(c, next)
               /\ EdgesTo(c, next) \subseteq Waiting(c)
    BY <1>4, <1>6, <1>7 DEF Waiting, EdgesTo, PlannedEdges
  <1>9. Shape'
    BY <1>2, <1>3, <1>5, <1>7 DEF BuildInv, Shape
  <1>10. Analysis' /\ Yielding'
    BY <1>2, <1>7 DEF BuildInv, Analysis, Yielding, Analyzed, Accepted
  <1>11. \A c \in graph.planned : IsFiniteSet(Waiting(c))
    <2>. SUFFICES ASSUME NEW c \in graph.planned PROVE IsFiniteSet(Waiting(c))
      OBVIOUS
    <2>1. graph.deps[c] \in Seq(Types)
      BY <1>2, DepsAreSequences DEF BuildInv, Analysis, Analyzed, Shape
    <2>2. DOMAIN graph.deps[c] = 1 .. Len(graph.deps[c]) /\ Len(graph.deps[c]) \in Nat
      BY <2>1
    <2>3. IsFiniteSet(DOMAIN graph.deps[c])
      BY <2>2, FS_Interval
    <2>. QED  BY <2>3, FS_Subset DEF Waiting, PlannedEdges
  <1>12. \A c \in graph.planned :
           Cardinality(Waiting(c)') = Cardinality(Waiting(c)) - Cardinality(EdgesTo(c, next))
    <2>. SUFFICES ASSUME NEW c \in graph.planned
                  PROVE  Cardinality(Waiting(c) \ EdgesTo(c, next))
                           = Cardinality(Waiting(c)) - Cardinality(EdgesTo(c, next))
      BY <1>8
    <2>. DEFINE kept == Waiting(c) \ EdgesTo(c, next)
    <2>1. IsFiniteSet(kept) /\ IsFiniteSet(EdgesTo(c, next))
      BY <1>8, <1>11, FS_Subset
    <2>2. Waiting(c) = kept \cup EdgesTo(c, next) /\ kept \cap EdgesTo(c, next) = {}
      BY <1>8
    <2>3. Cardinality(Waiting(c)) = Cardinality(kept) + Cardinality(EdgesTo(c, next)) - 0
      BY <2>1, <2>2, FS_Union, FS_EmptySet
    <2>4. /\ Cardinality(kept) \in Nat /\ Cardinality(EdgesTo(c, next)) \in Nat
      BY <2>1, FS_CardinalityType
    <2>. QED  BY <2>3, <2>4
  <1>13. remaining' = [c \in graph.planned |-> Cardinality(Waiting(c)')]
    BY <1>1, <1>3, <1>12 DEF CountDown
  <1>14. \A c \in graph.planned : remaining'[c] = 0 <=> Waiting(c)' = {}
    BY <1>8, <1>11, <1>13, FS_Subset, FS_EmptySet
  <1>15. ready' = {c \in graph.planned : c \notin Placed' /\ Waiting(c)' = {}}
    <2>1. \A c \in graph.planned : c \in Consumers(next) => Waiting(c) # {}
      BY <1>8 DEF Consumers
    <2>2. \A c \in graph.planned : c \notin Consumers(next) => Waiting(c)' = Waiting(c)
      BY <1>8 DEF Consumers
    <2>3. \A c \in graph.planned : c \in Placed => c \notin Consumers(next)
      <3>. SUFFICES ASSUME NEW c \in Placed, NEW i \in EdgesTo(c, next) PROVE FALSE
        BY DEF Consumers
      <3>1. PICK k \in DOMAIN plan : plan[k] = c
        BY DEF Placed
      <3>2. PICK j \in 1 .. k - 1 : plan[j] = next
        BY <1>2, <3>1 DEF BuildInv, Ordered, EdgesTo
      <3>3. j \in DOMAIN plan
        BY <1>5, <3>1, <3>2
      <3>. QED  BY <1>4, <3>2, <3>3 DEF Placed
    <2>4. next \notin Consumers(next)
      BY <1>4, <2>1
    <2>5. Consumers(next) \subseteq graph.planned
      BY DEF Consumers
    <2>. QED  BY <1>1, <1>3, <1>6, <1>14, <2>1, <2>2, <2>3, <2>4, <2>5
  <1>16. Counting'
    BY <1>7, <1>13, <1>15 DEF Counting
  <1>17. Ordered'
    <2>1. ASSUME NEW k \in DOMAIN plan', NEW i \in PlannedEdges(graph, plan'[k])
          PROVE  \E j \in 1 .. k - 1 : plan'[j] = graph.deps[plan'[k]][i]
      <3>1. CASE k \in 1 .. Len(plan)
        <4>1. plan'[k] = plan[k] /\ k \in DOMAIN plan
          BY <1>5, <3>1
        <4>2. PICK j \in 1 .. k - 1 : plan[j] = graph.deps[plan[k]][i]
          BY <1>2, <2>1, <4>1 DEF BuildInv, Ordered
        <4>. QED  BY <1>5, <3>1, <4>1, <4>2
      <3>2. CASE k = Len(plan) + 1
        <4>1. plan'[k] = next /\ i \in PlannedEdges(graph, next)
          BY <1>5, <2>1, <3>2
        <4>2. graph.deps[next][i] \in Placed
          BY <1>4, <4>1 DEF Waiting
        <4>3. PICK j \in 1 .. Len(plan) : plan[j] = graph.deps[next][i]
          BY <1>5, <4>2 DEF Placed
        <4>. QED  BY <1>5, <3>2, <4>1, <4>3
      <3>. QED  BY <1>5, <3>1, <3>2
    <2>2. ASSUME NEW j \in DOMAIN plan', NEW k \in DOMAIN plan', plan'[j] = plan'[k]
          PROVE  j = k
      <3>1. \A l \in 1 .. Len(plan) : plan'[l] # next
        BY <1>4, <1>5 DEF Placed
      <3>2. \A l, m \in 1 .. Len(plan) : plan[l] = plan[m] => l = m
        BY <1>2, <1>5 DEF BuildInv, Ordered
      <3>. QED  BY <1>5, <2>2, <3>1, <3>2
    <2>. QED  BY <1>7, <2>1, <2>2 DEF Ordered, PlannedEdges
  <1>18. Holding' /\ InsertionNeverCollides'
    <2>1. \A k \in 1 .. constructed : FALSE
      BY <1>3
    <2>. QED  BY <1>2, <1>7, <2>1 DEF BuildInv, Holding, InsertionNeverCollides
  <1>. QED  BY <1>9, <1>10, <1>16, <1>17, <1>18 DEF BuildInv

\* The end of planning keeps it: a plan of full length holds every planned provider.
LEMMA PlanEndPreserves ==
  ASSUME BuildInv, PlanEnd
  PROVE  BuildInv'
  <1>1. /\ phase = "planning"
        /\ UNCHANGED <<graphVars, registry, plan, applied, constructed>>
        /\ \/ phase' = "done" /\ outcome' \in {"panicked", "rejected"}
           \/ phase' = "applying" /\ outcome' = outcome /\ Failed(decisions) = {}
    BY DEF PlanEnd, Finish, planVars, progressVars
  <1>2. Shape' /\ Analysis' /\ Yielding' /\ Counting'
    BY <1>1 DEF BuildInv, Shape, Phases, Analysis, Yielding, Counting, Analyzed, Accepted,
                graphVars
  <1>3. Ordered' /\ Holding' /\ InsertionNeverCollides'
    BY <1>1 DEF BuildInv, Ordered, PlannedEdges, Holding, InsertionNeverCollides, graphVars
  <1>. QED  BY <1>2, <1>3 DEF BuildInv

-----------------------------------------------------------------------------
\* The registry holds neither the output of a waiting default, which yielded to
\* the application, nor a planned provider whose turn has not come.
LEMMA ApplyDefaultPreserves ==
  ASSUME BuildInv, ApplyDefault
  PROVE  BuildInv'
  <1>1. PICK next \in Selected(decisions) \ applied :
          /\ applied' = applied \cup {next}
          /\ InsertErased(next.output) \/ (Finish("applier") /\ UNCHANGED registry)
    BY DEF ApplyDefault
  <1>2. /\ phase = "applying" /\ UNCHANGED <<graphVars, plan, constructed>>
    BY DEF ApplyDefault, planVars
  <1>3. /\ registry = DOMAIN satisfied \cup Outputs(applied)
        /\ applied \subseteq Selected(decisions) /\ constructed = 0
    BY <1>2 DEF BuildInv, Shape, Holding
  <1>4. next.output \notin registry
    <2>1. /\ next.output \notin DOMAIN satisfied
          /\ \A e \in applied : e.output = next.output => e = next
      BY <1>2, <1>3 DEF BuildInv, Yielding, Analyzed, HasProvider
    <2>. QED  BY <1>3, <2>1 DEF Outputs
  <1>5. \/ /\ phase' = "applying" /\ outcome' = outcome
           /\ registry' = registry \cup {next.output}
        \/ phase' = "done" /\ outcome' = "applier"
    BY <1>1, <1>2, <1>4 DEF InsertErased, Finish
  <1>6. Shape' /\ Analysis' /\ Yielding' /\ Counting'
    <2>1. applied' \subseteq Selected(decisions)
      BY <1>1, <1>3
    <2>. QED  BY <1>2, <1>5, <2>1 DEF BuildInv, Shape, Phases, Analysis, Yielding, Counting,
                                      Analyzed, Accepted, graphVars
  <1>7. Ordered' /\ InsertionNeverCollides'
    BY <1>2, <1>5 DEF BuildInv, Ordered, PlannedEdges, InsertionNeverCollides, graphVars
  <1>8. Holding'
    <2>1. Outputs(applied') = Outputs(applied) \cup {next.output}
      BY <1>1 DEF Outputs
    <2>2. \A k \in 1 .. constructed : FALSE
      BY <1>3
    <2>. QED  BY <1>2, <1>3, <1>5, <2>1, <2>2 DEF Holding, graphVars
  <1>. QED  BY <1>6, <1>7, <1>8 DEF BuildInv

\* Going on from the appliers to the constructors keeps it.
LEMMA ApplyEndPreserves ==
  ASSUME BuildInv, ApplyEnd
  PROVE  BuildInv'
  <1>1. /\ phase = "applying" /\ phase' = "constructing" /\ outcome' = outcome
        /\ applied = Selected(decisions)
        /\ UNCHANGED <<graphVars, registry, plan, applied, constructed>>
    BY DEF ApplyEnd, planVars, progressVars
  <1>2. Shape' /\ Analysis' /\ Yielding' /\ Counting'
    BY <1>1 DEF BuildInv, Shape, Phases, Analysis, Yielding, Counting, Analyzed, Accepted,
                graphVars
  <1>3. Ordered' /\ Holding' /\ InsertionNeverCollides'
    BY <1>1 DEF BuildInv, Ordered, PlannedEdges, Holding, InsertionNeverCollides, graphVars
  <1>. QED  BY <1>2, <1>3 DEF BuildInv

\* A constructed value is new to the registry, which then holds one step more.
LEMMA ConstructStepPreserves ==
  ASSUME BuildInv, ConstructStep
  PROVE  BuildInv'
  <1>1. /\ phase = "constructing" /\ constructed < Len(plan) /\ constructed' = constructed + 1
        /\ InsertErased(NextStep)
        /\ UNCHANGED <<graphVars, plan, applied>>
    BY DEF ConstructStep, Constructing, ConstructUnchanged, planVars
  <1>2. /\ plan \in Seq(graph.planned) /\ constructed \in 0 .. Len(plan) /\ Len(plan) \in Nat
        /\ applied = Selected(decisions)
        /\ registry = DOMAIN satisfied \cup Outputs(applied)
                        \cup {plan[k] : k \in 1 .. constructed}
    BY <1>1 DEF BuildInv, Shape, Analysis, Holding
  <1>3. constructed + 1 \in DOMAIN plan /\ NextStep = plan[constructed + 1]
    BY <1>1, <1>2 DEF NextStep
  <1>4. NextStep \notin registry
    <2>1. NextStep \in graph.planned
      BY <1>2, <1>3
    <2>2. NextStep \notin DOMAIN satisfied \cup Outputs(applied)
      BY <1>1, <1>2, <2>1, Resolution DEF BuildInv, Shape, Analysis, Analyzed, Accepted
    <2>3. \A k \in 1 .. constructed : plan[k] # NextStep
      BY <1>1, <1>2, <1>3 DEF BuildInv, Ordered
    <2>. QED  BY <1>2, <2>2, <2>3
  <1>5. /\ phase' = "constructing" /\ outcome' = outcome
        /\ registry' = registry \cup {NextStep}
    BY <1>1, <1>4 DEF InsertErased
  <1>6. Shape' /\ Analysis' /\ Yielding' /\ Counting'
    <2>1. constructed' \in 0 .. Len(plan)
      BY <1>1, <1>2
    <2>. QED  BY <1>1, <1>5, <2>1 DEF BuildInv, Shape, Phases, Analysis, Yielding, Counting,
                                      Analyzed, Accepted, graphVars
  <1>7. Ordered' /\ InsertionNeverCollides'
    BY <1>1, <1>5 DEF BuildInv, Ordered, PlannedEdges, InsertionNeverCollides, graphVars
  <1>8. Holding'
    <2>1. \A k : k \in 1 .. constructed' <=> k \in 1 .. constructed \/ k = constructed + 1
      BY <1>1, <1>2
    <2>2. {plan[k] : k \in 1 .. constructed'}
            = {plan[k] : k \in 1 .. constructed} \cup {NextStep}
      BY <1>3, <2>1
    <2>3. /\ {plan'[k] : k \in 1 .. constructed'} = {plan[k] : k \in 1 .. constructed'}
          /\ satisfied' = satisfied /\ applied' = applied
      BY <1>1 DEF graphVars
    <2>4. Outputs(applied)' = Outputs(applied)
      BY <2>3 DEF Outputs
    <2>. QED  BY <1>2, <1>5, <2>2, <2>3, <2>4 DEF Holding
  <1>. QED  BY <1>6, <1>7, <1>8 DEF BuildInv

\* Every step of the builder keeps it.
LEMMA BuildStepPreserves ==
  ASSUME BuildInv, [BuildNext]_buildVars
  PROVE  BuildInv'
  <1>. USE DEF Searching, SearchUnchanged, graphVars, searchVars, planVars, progressVars,
               pathVars, Finish, Phases
  <1>0. phase \in Phases /\ outcome # "duplicate"
    BY DEF BuildInv, Shape, InsertionNeverCollides
  <1>1. CASE \E t \in Types : Provide(t) \/ Construct(t)
    BY <1>1, CallsPreserve
  <1>2. CASE Analyze
    BY <1>2, AnalyzePreserves
  <1>3. CASE SearchRoot \/ SearchDependency \/ SearchLeave
    BY <1>0, <1>3, Stays DEF SearchRoot, SearchDependency, SearchLeave
  <1>4. CASE SearchEnd
    BY <1>4, SearchEndPreserves
  <1>5. CASE PlanStep
    BY <1>5, PlanStepPreserves
  <1>6. CASE PlanEnd
    BY <1>6, PlanEndPreserves
  <1>7. CASE ApplyDefault
    BY <1>7, ApplyDefaultPreserves
  <1>8. CASE ApplyEnd
    BY <1>8, ApplyEndPreserves
  <1>9. CASE ConstructStep
    BY <1>9, ConstructStepPreserves
  <1>10. CASE ConstructFails
    BY <1>10, Stays DEF ConstructFails, Constructing, Explain, ConstructUnchanged
  <1>11. CASE DropBuild
    BY <1>11, Stays DEF DropBuild, Constructing, ConstructUnchanged
  <1>12. CASE BuildEnd
    BY <1>12, Stays DEF BuildEnd
  <1>13. CASE ExplainStep \/ ExplainEnd
    BY <1>0, <1>13, Stays DEF ExplainStep, ExplainEnd, ExplainUnchanged
  <1>14. CASE Ended \/ UNCHANGED buildVars
    BY <1>0, <1>14, Stays DEF Ended, buildVars
  <1>. QED  BY <1>1, <1>2, <1>3, <1>4, <1>5, <1>6, <1>7, <1>8, <1>9, <1>10, <1>11, <1>12,
               <1>13, <1>14 DEF BuildNext

\* BuildInv is an inductive invariant of the builder.
THEOREM BuildInvariance == BuildSpec => []BuildInv
  <1>. QED  BY BuildInitEstablishes, BuildStepPreserves, PTL DEF BuildSpec

-----------------------------------------------------------------------------
\* No value that build() inserts meets an earlier one of its type.
THEOREM NoCollision == BuildSpec => []InsertionNeverCollides
  <1>1. BuildInv => InsertionNeverCollides
    BY DEF BuildInv
  <1>. QED  BY <1>1, BuildInvariance, PTL

\* In every build, every constructor that runs finds its dependencies.
THEOREM DependenciesFound == BuildSpec => []ConstructorsFindDependencies
  <1>1. ASSUME BuildInv, Constructing PROVE Constructor(NextStep)
    <2>1. /\ phase = "constructing" /\ constructed < Len(plan)
          /\ plan \in Seq(graph.planned) /\ constructed \in 0 .. Len(plan)
          /\ applied = Selected(decisions)
          /\ registry = DOMAIN satisfied \cup Outputs(applied)
                          \cup {plan[k] : k \in 1 .. constructed}
      BY <1>1 DEF Constructing, BuildInv, Shape, Analysis, Holding
    <2>2. constructed + 1 \in DOMAIN plan /\ NextStep = plan[constructed + 1]
      BY <2>1 DEF NextStep
    <2>3. NextStep \in graph.planned
      BY <2>1, <2>2
    <2>4. ASSUME NEW i \in DOMAIN graph.deps[NextStep]
          PROVE  graph.deps[NextStep][i] \in registry
      <3>1. graph.deps[NextStep][i] \in graph.planned \cup registry
        BY <1>1, <2>1, <2>3, Resolution DEF BuildInv, Shape, Analysis, Analyzed, Accepted
      <3>2. CASE graph.deps[NextStep][i] \in graph.planned
        <4>1. PICK j \in 1 .. constructed : plan[j] = graph.deps[NextStep][i]
          BY <1>1, <2>1, <2>2, <3>2 DEF BuildInv, Ordered, PlannedEdges
        <4>. QED  BY <2>1, <4>1
      <3>. QED  BY <3>1, <3>2
    <2>. QED  BY <2>4 DEF Constructor
  <1>2. BuildInv => ConstructorsFindDependencies
    BY <1>1 DEF ConstructorsFindDependencies
  <1>. QED  BY <1>2, BuildInvariance, PTL

-----------------------------------------------------------------------------
(***************************************************************************)
(* The depth-first search.  The frames on the stack are the gray nodes and  *)
(* a path of edges; while no cycle is found, a node turns black only after  *)
(* all that it depends on.                                                  *)
(***************************************************************************)
Black(c) == {t \in graph.nodes : c[t] = "black"}

\* The node of the frame above the ith one.
Above(f, i) == {f[j].node : j \in {k \in DOMAIN f : k = i + 1}}

\* Every part of S has a member that depends on no other of that part.
Grounded(S) ==
  \A part \in SUBSET S : part # {} => \E t \in part : Outgoing(graph, t) \cap part = {}

Frames == [node : graph.nodes, pending : SUBSET graph.nodes]

StackInv(c, f) ==
  /\ c \in [graph.nodes -> {"white", "gray", "black"}]
  /\ f \in Seq(Frames)
  /\ \A i \in DOMAIN f : c[f[i].node] = "gray"
  /\ \A i \in DOMAIN f : f[i].pending \subseteq Outgoing(graph, f[i].node)
  /\ \A i, j \in DOMAIN f : f[i].node = f[j].node => i = j
  /\ \A t \in graph.nodes : c[t] = "gray" => \E i \in DOMAIN f : f[i].node = t
  /\ \A i, j \in DOMAIN f : j = i + 1 => f[j].node \in Outgoing(graph, f[i].node)

\* Of what the ith frame has passed over, all is black but the node above it.
Settled(c, f, i) == Outgoing(graph, f[i].node) \ f[i].pending \subseteq Black(c) \cup Above(f, i)

FinishedInv(c, f) ==
  /\ Grounded(Black(c))
  /\ \A t \in Black(c) : Outgoing(graph, t) \subseteq Black(c)
  /\ \A i \in DOMAIN f : Settled(c, f, i)

\* A closed path of planned providers that starts at its least name.
RealCycle(c) ==
  /\ c \in Seq(graph.planned) /\ c # << >>
  /\ \A i \in DOMAIN c : c[i] \in graph.planned /\ c[1] <= c[i]
  /\ \A i \in DOMAIN c : c[IF i = Len(c) THEN 1 ELSE i + 1] \in Outgoing(graph, c[i])
  /\ IsInjective(c)

CyclesKnown == \A c \in cycles : RealCycle(c)

SearchInv ==
  /\ DOMAIN satisfied \subseteq Types
  /\ phase = "open" => stack = << >> /\ cycles = {}
  /\ phase # "open" => graph = Resolve(catalog, satisfied, decisions)
  /\ CyclesKnown
  /\ phase = "searching" => StackInv(color, stack)
  /\ phase = "searching" /\ cycles = {} => FinishedInv(color, stack)
  /\ phase = "planning" => Grounded(graph.nodes)

-----------------------------------------------------------------------------
\* A set of naturals has a least member, which Least picks.
LEMMA LeastMember ==
  ASSUME NEW S \in SUBSET Nat, S # {}
  PROVE  Least(S) \in S /\ \A y \in S : Least(S) <= y
  <1>1. PICK x \in S : \A y \in S : <<y, x>> \notin OpToRel(<, Nat)
    BY NatLessThanWellFounded, WFMin
  <1>2. ASSUME NEW y \in S PROVE x <= y
    <2>1. x \in Nat /\ y \in Nat /\ <<y, x>> \in Nat \X Nat
      OBVIOUS
    <2>2. y < x => <<y, x>> \in OpToRel(<, Nat)
      BY <2>1 DEF OpToRel
    <2>3. ~ (y < x)
      BY <1>1, <2>2
    <2>. QED  BY <2>1, <2>3
  <1>. QED  BY <1>2 DEF Least

\* The nodes of a resolved graph are types.
LEMMA NodesAreTypes ==
  ASSUME NEW c \in Catalogs, NEW s, DOMAIN s \subseteq Types, NEW ds,
         NEW g, g = Resolve(c, s, ds)
  PROVE  g.nodes \subseteq Nat /\ g.nodes \subseteq Types /\ g.planned \subseteq g.nodes
         /\ IsFiniteSet(g.nodes) /\ IsFiniteSet(g.planned)
  <1>1. /\ g.nodes = ((DOMAIN s \cup Outputs(Selected(ds))) \cup {d.type : d \in c.declared})
                       \ Ambiguous(c)
        /\ g.planned \subseteq g.nodes
    BY DEF Resolve
  <1>2. \A d \in c.declared : d.type \in Types
    BY CatalogsAssumption DEF Declaration
  <1>3. Outputs(Selected(ds)) \subseteq Types
    BY DefaultsAssumption DEF Outputs, Selected
  <1>4. g.nodes \subseteq Types
    BY <1>1, <1>2, <1>3
  <1>. QED  BY <1>1, <1>4, TypesAssumption, FS_Subset

\* A node that depends on another is planned, and what it depends on is a node.
LEMMA EdgesLeadToNodes ==
  ASSUME NEW g, NEW t, NEW u \in Outgoing(g, t)
  PROVE  t \in g.planned /\ u \in g.nodes
  BY DEF Outgoing, Edges

\* A frame appended to a stack, and the top frame replaced.
LEMMA Pushed ==
  ASSUME NEW S, NEW s \in Seq(S), NEW x \in S
  PROVE  /\ Append(s, x) \in Seq(S) /\ Len(Append(s, x)) = Len(s) + 1 /\ Len(s) \in Nat
         /\ DOMAIN s = 1 .. Len(s) /\ DOMAIN Append(s, x) = 1 .. Len(s) + 1
         /\ \A i \in 1 .. Len(s) : Append(s, x)[i] = s[i]
         /\ Append(s, x)[Len(s) + 1] = x
  OBVIOUS

\* The stack below its top frame.
LEMMA Popped ==
  ASSUME NEW S, NEW s \in Seq(S), s # << >>
  PROVE  /\ Front(s) \in Seq(S) /\ Len(Front(s)) = Len(s) - 1 /\ Len(s) \in Nat \ {0}
         /\ Len(s) - 1 \in Nat
         /\ DOMAIN s = 1 .. Len(s) /\ DOMAIN Front(s) = 1 .. Len(s) - 1
         /\ \A i \in 1 .. Len(s) - 1 : Front(s)[i] = s[i]
         /\ Last(s) = s[Len(s)] /\ Last(s) \in S
  <1>1. /\ Len(s) \in Nat \ {0} /\ Len(s) - 1 \in Nat /\ DOMAIN s = 1 .. Len(s)
        /\ \A i \in 1 .. Len(s) : s[i] \in S
    OBVIOUS
  <1>2. Front(s) = [i \in 1 .. Len(s) - 1 |-> s[i]]
    BY <1>1 DEF Front
  <1>. HIDE DEF Front
  <1>3. Front(s) \in Seq(S) /\ Len(Front(s)) = Len(s) - 1
    BY <1>1, <1>2
  <1>. QED  BY <1>1, <1>2, <1>3 DEF Last

\* The top frame passes over a dependency.
Passed(f, next) == Append(Front(f), [Last(f) EXCEPT !.pending = @ \ {next}])

\* Only the pending dependencies of the top frame change by it.
LEMMA PassedFrames ==
  ASSUME NEW f \in Seq(Frames), f # << >>, NEW next
  PROVE  /\ Passed(f, next) \in Seq(Frames) /\ DOMAIN Passed(f, next) = DOMAIN f
         /\ Len(Passed(f, next)) = Len(f) /\ Passed(f, next) # << >>
         /\ DOMAIN f = 1 .. Len(f) /\ Len(f) \in Nat \ {0} /\ Last(f) = f[Len(f)]
         /\ \A i \in DOMAIN f : Passed(f, next)[i].node = f[i].node
         /\ \A i \in DOMAIN f : i # Len(f) => Passed(f, next)[i].pending = f[i].pending
         /\ Passed(f, next)[Len(f)].pending = Last(f).pending \ {next}
  <1>. DEFINE x == [Last(f) EXCEPT !.pending = @ \ {next}]
  <1>1. /\ Front(f) \in Seq(Frames) /\ Len(Front(f)) = Len(f) - 1 /\ Len(f) \in Nat \ {0}
        /\ Len(f) - 1 \in Nat
        /\ DOMAIN f = 1 .. Len(f) /\ DOMAIN Front(f) = 1 .. Len(f) - 1
        /\ \A i \in 1 .. Len(f) - 1 : Front(f)[i] = f[i]
        /\ Last(f) = f[Len(f)] /\ Last(f) \in Frames
    BY Popped
  <1>2. x \in Frames /\ x.node = Last(f).node /\ x.pending = Last(f).pending \ {next}
    BY <1>1 DEF Frames
  <1>. HIDE DEF x, Frames
  <1>3. /\ Append(Front(f), x) \in Seq(Frames) /\ Len(Append(Front(f), x)) = Len(f)
        /\ DOMAIN Append(Front(f), x) = 1 .. Len(f)
        /\ \A i \in 1 .. Len(f) - 1 : Append(Front(f), x)[i] = f[i]
        /\ Append(Front(f), x)[Len(f)] = x
    BY <1>1, <1>2
  <1>4. Passed(f, next) = Append(Front(f), x)
    BY DEF Passed, x
  <1>. HIDE DEF Passed
  <1>5. /\ Passed(f, next) \in Seq(Frames) /\ DOMAIN Passed(f, next) = DOMAIN f
        /\ Len(Passed(f, next)) = Len(f) /\ Passed(f, next)[Len(f)] = x
        /\ \A i \in 1 .. Len(f) - 1 : Passed(f, next)[i] = f[i]
    BY <1>1, <1>3, <1>4
  <1>6. Passed(f, next) # << >>
    BY <1>1, <1>5
  <1>7. \A i \in DOMAIN f : i = Len(f) \/ i \in 1 .. Len(f) - 1
    BY <1>1
  <1>8. \A i \in DOMAIN f : Passed(f, next)[i].node = f[i].node
    BY <1>1, <1>2, <1>5, <1>7
  <1>9. \A i \in DOMAIN f : i # Len(f) => Passed(f, next)[i].pending = f[i].pending
    BY <1>5, <1>7
  <1>. QED  BY <1>1, <1>2, <1>5, <1>6, <1>8, <1>9

\* A stack whose top frame passes over a dependency keeps its invariant.
LEMMA PassedStack ==
  ASSUME NEW c, NEW f, StackInv(c, f), f # << >>, NEW next
  PROVE  StackInv(c, Passed(f, next))
  <1>1. f \in Seq(Frames)
    BY DEF StackInv
  <1>2. /\ Passed(f, next) \in Seq(Frames) /\ DOMAIN Passed(f, next) = DOMAIN f
        /\ \A i \in DOMAIN f : Passed(f, next)[i].node = f[i].node
        /\ \A i \in DOMAIN f : Passed(f, next)[i].pending \subseteq f[i].pending
    BY <1>1, PassedFrames
  <1>. QED  BY <1>2 DEF StackInv

\* A white node is visited, from the top frame or as a root.
LEMMA VisitedStack ==
  ASSUME NEW c, NEW f, StackInv(c, f), NEW t \in graph.nodes, c[t] = "white",
         f # << >> => t \in Outgoing(graph, f[Len(f)].node)
  PROVE  StackInv([c EXCEPT ![t] = "gray"], Append(f, [node |-> t, pending |-> Outgoing(graph, t)]))
  <1>. DEFINE x == [node |-> t, pending |-> Outgoing(graph, t)]
              d == [c EXCEPT ![t] = "gray"]
              g == Append(f, x)
  <1>1. /\ c \in [graph.nodes -> {"white", "gray", "black"}] /\ f \in Seq(Frames)
        /\ \A i \in DOMAIN f : c[f[i].node] = "gray"
        /\ \A i, j \in DOMAIN f : f[i].node = f[j].node => i = j
        /\ \A u \in graph.nodes : c[u] = "gray" => \E i \in DOMAIN f : f[i].node = u
        /\ \A i, j \in DOMAIN f : j = i + 1 => f[j].node \in Outgoing(graph, f[i].node)
        /\ \A i \in DOMAIN f : f[i].pending \subseteq Outgoing(graph, f[i].node)
    BY DEF StackInv
  <1>2. x \in Frames /\ x.node = t /\ x.pending = Outgoing(graph, t)
    BY EdgesLeadToNodes DEF Frames
  <1>3. \A i \in DOMAIN f : f[i].node \in graph.nodes /\ f[i].node # t
    <2>1. \A i \in DOMAIN f : f[i] \in Frames
      <3>. HIDE DEF Frames
      <3>. QED  BY <1>1
    <2>. QED  BY <1>1, <2>1 DEF Frames
  <1>4. /\ d \in [graph.nodes -> {"white", "gray", "black"}] /\ d[t] = "gray"
        /\ \A u \in graph.nodes : u # t => d[u] = c[u]
    BY <1>1
  <1>. HIDE DEF x, d, Frames
  <1>5. /\ g \in Seq(Frames) /\ Len(f) \in Nat /\ DOMAIN f = 1 .. Len(f)
        /\ DOMAIN g = 1 .. Len(f) + 1 /\ \A i \in 1 .. Len(f) : g[i] = f[i]
        /\ g[Len(f) + 1] = x
    BY <1>1, <1>2, Pushed
  <1>. HIDE DEF g
  <1>6. \A i \in DOMAIN g : i = Len(f) + 1 \/ i \in DOMAIN f
    BY <1>5
  <1>7. \A i \in DOMAIN g : d[g[i].node] = "gray"
    BY <1>1, <1>2, <1>3, <1>4, <1>5, <1>6
  <1>8. \A i \in DOMAIN g : g[i].pending \subseteq Outgoing(graph, g[i].node)
    BY <1>1, <1>2, <1>5, <1>6
  <1>9. \A i, j \in DOMAIN g : g[i].node = g[j].node => i = j
    BY <1>1, <1>2, <1>3, <1>5, <1>6
  <1>10. \A u \in graph.nodes : d[u] = "gray" => \E i \in DOMAIN g : g[i].node = u
    <2>. SUFFICES ASSUME NEW u \in graph.nodes, d[u] = "gray" PROVE \E i \in DOMAIN g : g[i].node = u
      OBVIOUS
    <2>1. CASE u = t
      <3>1. Len(f) + 1 \in DOMAIN g
        BY <1>5
      <3>. QED  BY <1>2, <1>5, <2>1, <3>1
    <2>2. CASE u # t
      <3>1. PICK i \in DOMAIN f : f[i].node = u
        BY <1>1, <1>4, <2>2
      <3>. QED  BY <1>5, <3>1
    <2>. QED  BY <2>1, <2>2
  <1>11. \A i, j \in DOMAIN g : j = i + 1 => g[j].node \in Outgoing(graph, g[i].node)
    <2>. SUFFICES ASSUME NEW i \in DOMAIN g, NEW j \in DOMAIN g, j = i + 1
                  PROVE  g[j].node \in Outgoing(graph, g[i].node)
      OBVIOUS
    <2>1. CASE j \in DOMAIN f
      <3>1. i \in DOMAIN f
        BY <1>5, <2>1
      <3>. QED  BY <1>1, <1>5, <2>1, <3>1
    <2>2. CASE j = Len(f) + 1
      <3>1. i = Len(f) /\ i \in DOMAIN f
        BY <1>5, <2>2
      <3>2. f # << >>
        BY <1>5, <3>1
      <3>. QED  BY <1>2, <1>5, <2>2, <3>1, <3>2
    <2>. QED  BY <1>6, <2>1, <2>2
  <1>. QED  BY <1>4, <1>5, <1>7, <1>8, <1>9, <1>10, <1>11 DEF StackInv, x, d, g

\* The top frame is left: its node turns black.
LEMMA LeftStack ==
  ASSUME NEW c, NEW f, StackInv(c, f), f # << >>
  PROVE  StackInv([c EXCEPT ![Last(f).node] = "black"], Front(f))
  <1>. DEFINE t == Last(f).node
              d == [c EXCEPT ![t] = "black"]
              g == Front(f)
  <1>1. /\ c \in [graph.nodes -> {"white", "gray", "black"}] /\ f \in Seq(Frames)
        /\ \A i \in DOMAIN f : c[f[i].node] = "gray"
        /\ \A i, j \in DOMAIN f : f[i].node = f[j].node => i = j
        /\ \A u \in graph.nodes : c[u] = "gray" => \E i \in DOMAIN f : f[i].node = u
        /\ \A i, j \in DOMAIN f : j = i + 1 => f[j].node \in Outgoing(graph, f[i].node)
        /\ \A i \in DOMAIN f : f[i].pending \subseteq Outgoing(graph, f[i].node)
    BY DEF StackInv
  <1>2. /\ g \in Seq(Frames) /\ Len(f) \in Nat \ {0}
        /\ DOMAIN f = 1 .. Len(f) /\ DOMAIN g = 1 .. Len(f) - 1
        /\ \A i \in 1 .. Len(f) - 1 : g[i] = f[i]
        /\ Last(f) = f[Len(f)]
    BY <1>1, Popped
  <1>3. \A i \in DOMAIN f : f[i].node \in graph.nodes
    <2>1. \A i \in DOMAIN f : f[i] \in Frames
      <3>. HIDE DEF Frames
      <3>. QED  BY <1>1
    <2>. QED  BY <2>1 DEF Frames
  <1>4. /\ Len(f) \in DOMAIN f /\ t = f[Len(f)].node /\ t \in graph.nodes
        /\ \A i \in DOMAIN g : i \in DOMAIN f /\ i # Len(f) /\ g[i] = f[i] /\ f[i].node # t
        /\ \A i \in DOMAIN f : i = Len(f) \/ i \in DOMAIN g
    BY <1>1, <1>2, <1>3
  <1>. HIDE DEF t, g, Frames
  <1>5. /\ d \in [graph.nodes -> {"white", "gray", "black"}] /\ d[t] = "black"
        /\ \A u \in graph.nodes : u # t => d[u] = c[u]
    BY <1>1, <1>4
  <1>. HIDE DEF d
  <1>6. \A i \in DOMAIN g : d[g[i].node] = "gray"
    BY <1>1, <1>3, <1>4, <1>5
  <1>7. \A u \in graph.nodes : d[u] = "gray" => \E i \in DOMAIN g : g[i].node = u
    BY <1>1, <1>4, <1>5
  <1>8. /\ \A i \in DOMAIN g : g[i].pending \subseteq Outgoing(graph, g[i].node)
        /\ \A i, j \in DOMAIN g : g[i].node = g[j].node => i = j
        /\ \A i, j \in DOMAIN g : j = i + 1 => g[j].node \in Outgoing(graph, g[i].node)
    BY <1>1, <1>4
  <1>. QED  BY <1>2, <1>5, <1>6, <1>7, <1>8 DEF StackInv, t, d, g

\* The top frame passes over a black dependency, or over the one visited next.
LEMMA PassedFinished ==
  ASSUME NEW c, NEW f, StackInv(c, f), FinishedInv(c, f), f # << >>, NEW next
  PROVE  \A i \in DOMAIN f :
           \/ Settled(c, Passed(f, next), i)
           \/ /\ i = Len(f) /\ next \notin Black(c)
              /\ Outgoing(graph, f[i].node) \ Passed(f, next)[i].pending
                   \subseteq Black(c) \cup {next}
  <1>. DEFINE g == Passed(f, next)
  <1>1. f \in Seq(Frames) /\ \A i \in DOMAIN f : Settled(c, f, i)
    BY DEF StackInv, FinishedInv
  <1>2. /\ DOMAIN g = DOMAIN f /\ DOMAIN f = 1 .. Len(f) /\ Len(f) \in Nat
        /\ Last(f) = f[Len(f)]
        /\ \A i \in DOMAIN f : g[i].node = f[i].node
        /\ \A i \in DOMAIN f : i # Len(f) => g[i].pending = f[i].pending
        /\ g[Len(f)].pending = Last(f).pending \ {next}
    BY <1>1, PassedFrames
  <1>. HIDE DEF g
  <1>3. \A i \in DOMAIN f : Above(g, i) = Above(f, i)
    BY <1>2 DEF Above
  <1>4. Above(f, Len(f)) = {}
    BY <1>2 DEF Above
  <1>. SUFFICES ASSUME NEW i \in DOMAIN f
                PROVE  \/ Settled(c, g, i)
                       \/ /\ i = Len(f) /\ next \notin Black(c)
                          /\ Outgoing(graph, f[i].node) \ g[i].pending \subseteq Black(c) \cup {next}
    BY DEF g
  <1>5. CASE i # Len(f)
    BY <1>1, <1>2, <1>3, <1>5 DEF Settled
  <1>6. CASE i = Len(f)
    <2>1. Outgoing(graph, f[i].node) \ g[i].pending \subseteq Black(c) \cup {next}
      BY <1>1, <1>2, <1>4, <1>6 DEF Settled
    <2>. QED  BY <1>2, <1>6, <2>1 DEF Settled
  <1>. QED  BY <1>5, <1>6

\* A white node is visited.
LEMMA VisitedFinished ==
  ASSUME NEW c, NEW f, StackInv(c, f), NEW t \in graph.nodes, c[t] = "white",
         Grounded(Black(c)),
         \A u \in Black(c) : Outgoing(graph, u) \subseteq Black(c),
         \A i \in DOMAIN f :
           \/ Settled(c, f, i)
           \/ i = Len(f) /\ Outgoing(graph, f[i].node) \ f[i].pending \subseteq Black(c) \cup {t}
  PROVE  FinishedInv([c EXCEPT ![t] = "gray"],
                     Append(f, [node |-> t, pending |-> Outgoing(graph, t)]))
  <1>. DEFINE x == [node |-> t, pending |-> Outgoing(graph, t)]
              d == [c EXCEPT ![t] = "gray"]
              g == Append(f, x)
  <1>1. /\ c \in [graph.nodes -> {"white", "gray", "black"}] /\ f \in Seq(Frames)
    BY DEF StackInv
  <1>2. x \in Frames /\ x.node = t /\ x.pending = Outgoing(graph, t)
    BY EdgesLeadToNodes DEF Frames
  <1>3. Black(d) = Black(c)
    BY <1>1 DEF Black
  <1>. HIDE DEF x, d, Frames
  <1>4. /\ Len(f) \in Nat /\ DOMAIN f = 1 .. Len(f)
        /\ DOMAIN g = 1 .. Len(f) + 1 /\ \A i \in 1 .. Len(f) : g[i] = f[i]
        /\ g[Len(f) + 1] = x
    BY <1>1, <1>2, Pushed
  <1>. HIDE DEF g
  <1>5. ASSUME NEW i \in DOMAIN g PROVE Settled(d, g, i)
    <2>1. CASE i = Len(f) + 1
      BY <1>2, <1>4, <2>1 DEF Settled
    <2>2. CASE i \in DOMAIN f
      <3>1. \A k \in DOMAIN f : g[k] = f[k] /\ k \in DOMAIN g
        BY <1>4
      <3>2. Above(f, i) \subseteq Above(g, i)
        BY <3>1 DEF Above
      <3>3. i = Len(f) => t \in Above(g, i)
        <4>1. Len(f) + 1 \in DOMAIN g
          BY <1>4
        <4>. QED  BY <1>2, <1>4, <4>1 DEF Above
      <3>4. \/ Outgoing(graph, f[i].node) \ f[i].pending \subseteq Black(c) \cup Above(f, i)
            \/ i = Len(f) /\ Outgoing(graph, f[i].node) \ f[i].pending \subseteq Black(c) \cup {t}
        BY <2>2 DEF Settled
      <3>. QED  BY <1>3, <2>2, <3>1, <3>2, <3>3, <3>4 DEF Settled
    <2>. QED  BY <1>4, <2>1, <2>2
  <1>. QED  BY <1>3, <1>5 DEF FinishedInv, x, d, g

\* A node is left when all it depends on is black, itself not among it.
LEMMA LeftFinished ==
  ASSUME NEW c, NEW f, StackInv(c, f), FinishedInv(c, f), f # << >>, Last(f).pending = {}
  PROVE  FinishedInv([c EXCEPT ![Last(f).node] = "black"], Front(f))
  <1>. DEFINE t == Last(f).node
              d == [c EXCEPT ![t] = "black"]
              g == Front(f)
  <1>1. /\ c \in [graph.nodes -> {"white", "gray", "black"}] /\ f \in Seq(Frames)
        /\ \A i \in DOMAIN f : c[f[i].node] = "gray"
        /\ Grounded(Black(c))
        /\ \A u \in Black(c) : Outgoing(graph, u) \subseteq Black(c)
        /\ \A i \in DOMAIN f : Settled(c, f, i)
    BY DEF StackInv, FinishedInv
  <1>2. /\ Len(f) \in Nat \ {0}
        /\ DOMAIN f = 1 .. Len(f) /\ DOMAIN g = 1 .. Len(f) - 1
        /\ \A i \in 1 .. Len(f) - 1 : g[i] = f[i]
        /\ Last(f) = f[Len(f)] /\ Last(f) \in Frames
    BY <1>1, Popped
  <1>3. /\ Len(f) \in DOMAIN f /\ t = f[Len(f)].node /\ t \in graph.nodes
        /\ c[t] = "gray" /\ f[Len(f)].pending = {}
    BY <1>1, <1>2 DEF Frames
  <1>. HIDE DEF t, g, Frames
  <1>4. Black(d) = Black(c) \cup {t} /\ t \notin Black(c)
    BY <1>1, <1>3 DEF Black
  <1>. HIDE DEF d
  <1>5. Outgoing(graph, t) \subseteq Black(c)
    <2>1. Above(f, Len(f)) = {}
      BY <1>2 DEF Above
    <2>2. Settled(c, f, Len(f))
      BY <1>1, <1>3
    <2>. QED  BY <1>3, <2>1, <2>2 DEF Settled
  <1>6. Grounded(Black(d))
    <2>. SUFFICES ASSUME NEW part \in SUBSET (Black(c) \cup {t}), part # {}
                  PROVE  \E u \in part : Outgoing(graph, u) \cap part = {}
      BY <1>4 DEF Grounded
    <2>1. CASE part \ {t} # {}
      <3>1. PICK u \in part \ {t} : Outgoing(graph, u) \cap (part \ {t}) = {}
        BY <1>1, <2>1 DEF Grounded
      <3>2. t \notin Outgoing(graph, u)
        BY <1>1, <1>4, <3>1
      <3>. QED  BY <3>1, <3>2
    <2>2. CASE part = {t}
      BY <1>4, <1>5, <2>2
    <2>. QED  BY <2>1, <2>2
  <1>7. \A u \in Black(d) : Outgoing(graph, u) \subseteq Black(d)
    BY <1>1, <1>4, <1>5
  <1>8. ASSUME NEW i \in DOMAIN g PROVE Settled(d, g, i)
    <2>1. g[i] = f[i] /\ i \in DOMAIN f /\ Settled(c, f, i)
      BY <1>1, <1>2
    <2>2. \A k \in DOMAIN f : k = Len(f) \/ (k \in DOMAIN g /\ g[k] = f[k])
      BY <1>2
    <2>3. Above(f, i) \subseteq Above(g, i) \cup {t}
      <3>. SUFFICES ASSUME NEW u \in Above(f, i), u # t PROVE u \in Above(g, i)
        OBVIOUS
      <3>1. PICK k \in DOMAIN f : k = i + 1 /\ u = f[k].node
        BY DEF Above
      <3>2. k # Len(f)
        BY <1>3, <3>1
      <3>. QED  BY <2>2, <3>1, <3>2 DEF Above
    <2>. QED  BY <1>4, <2>1, <2>3 DEF Settled
  <1>. QED  BY <1>6, <1>7, <1>8 DEF FinishedInv, t, d, g

\* A function on 1 .. n is a sequence.
LEMMA IsSequence ==
  ASSUME NEW S, NEW n \in Nat, NEW p, p = [i \in 1 .. n |-> p[i]], \A i \in 1 .. n : p[i] \in S
  PROVE  p \in Seq(S) /\ Len(p) = n /\ DOMAIN p = 1 .. n
  <1>1. p \in [1 .. n -> S]
    OBVIOUS
  <1>. QED  BY <1>1

\* The members of a concatenation.
LEMMA Joined ==
  ASSUME NEW S, NEW a \in Seq(S), NEW b \in Seq(S)
  PROVE  /\ a \o b \in Seq(S) /\ Len(a \o b) = Len(a) + Len(b)
         /\ Len(a) \in Nat /\ Len(b) \in Nat /\ DOMAIN (a \o b) = 1 .. Len(a) + Len(b)
         /\ \A i \in 1 .. Len(a) + Len(b) :
              (a \o b)[i] = IF i <= Len(a) THEN a[i] ELSE b[i - Len(a)]
  OBVIOUS

\* Rotating a closed path to its least name keeps it a closed path.
LEMMA Rotated ==
  ASSUME NEW n \in Nat \ {0}, NEW p \in Seq(graph.planned), Len(p) = n,
         \A i \in 1 .. n - 1 : p[i + 1] \in Outgoing(graph, p[i]),
         p[1] \in Outgoing(graph, p[n]),
         \A i, j \in 1 .. n : p[i] = p[j] => i = j,
         NEW first \in 1 .. n, \A i \in 1 .. n : p[first] <= p[i]
  PROVE  RealCycle(SubSeq(p, first, n) \o SubSeq(p, 1, first - 1))
  <1>. DEFINE a == SubSeq(p, first, n)
              b == SubSeq(p, 1, first - 1)
              q == a \o b
              at(i) == IF i <= n - first + 1 THEN first + i - 1 ELSE i - (n - first + 1)
  <1>1. \A i \in 1 .. n : p[i] \in graph.planned
    OBVIOUS
  <1>2. /\ a \in Seq(graph.planned) /\ Len(a) = n - first + 1
        /\ \A i \in 1 .. n - first + 1 : a[i] = p[first + i - 1]
    <2>1. a = [i \in 1 .. n - first + 1 |-> p[first + i - 1]]
      <3>1. \A i \in 1 .. n - first + 1 : p[first + i - 1] = p[i + first - 1]
        OBVIOUS
      <3>. QED  BY <3>1
    <2>2. n - first + 1 \in Nat /\ \A i \in 1 .. n - first + 1 : first + i - 1 \in 1 .. n
      OBVIOUS
    <2>. HIDE DEF a
    <2>3. \A i \in 1 .. n - first + 1 : a[i] = p[first + i - 1] /\ a[i] \in graph.planned
      BY <1>1, <2>1, <2>2
    <2>4. a = [i \in 1 .. n - first + 1 |-> a[i]]
      BY <2>1
    <2>5. a \in Seq(graph.planned) /\ Len(a) = n - first + 1
      BY <2>2, <2>3, <2>4, IsSequence
    <2>. QED  BY <2>3, <2>5
  <1>3. /\ b \in Seq(graph.planned) /\ Len(b) = first - 1
        /\ \A i \in 1 .. first - 1 : b[i] = p[i]
    <2>1. b = [i \in 1 .. first - 1 |-> p[i]]
      OBVIOUS
    <2>2. first - 1 \in Nat /\ \A i \in 1 .. first - 1 : i \in 1 .. n
      OBVIOUS
    <2>. HIDE DEF b
    <2>3. \A i \in 1 .. first - 1 : b[i] = p[i] /\ b[i] \in graph.planned
      BY <1>1, <2>1, <2>2
    <2>4. b = [i \in 1 .. first - 1 |-> b[i]]
      BY <2>1
    <2>5. b \in Seq(graph.planned) /\ Len(b) = first - 1
      BY <2>2, <2>3, <2>4, IsSequence
    <2>. QED  BY <2>3, <2>5
  <1>. HIDE DEF a, b
  <1>4. /\ q \in Seq(graph.planned) /\ Len(q) = n /\ DOMAIN q = 1 .. n
        /\ \A i \in 1 .. n : q[i] = IF i <= n - first + 1 THEN a[i] ELSE b[i - (n - first + 1)]
    <2>1. /\ q \in Seq(graph.planned) /\ Len(q) = Len(a) + Len(b)
          /\ DOMAIN q = 1 .. Len(a) + Len(b)
          /\ \A i \in 1 .. Len(a) + Len(b) :
               q[i] = IF i <= Len(a) THEN a[i] ELSE b[i - Len(a)]
      <3>1. a \in Seq(graph.planned) /\ b \in Seq(graph.planned)
        BY <1>2, <1>3
      <3>. QED  BY <3>1, Joined
    <2>2. Len(a) + Len(b) = n
      BY <1>2, <1>3
    <2>. HIDE DEF q
    <2>. QED  BY <1>2, <2>1, <2>2
  <1>. HIDE DEF q
  <1>5. \A i \in 1 .. n : at(i) \in 1 .. n /\ q[i] = p[at(i)]
    <2>. SUFFICES ASSUME NEW i \in 1 .. n PROVE at(i) \in 1 .. n /\ q[i] = p[at(i)]
      OBVIOUS
    <2>1. CASE i <= n - first + 1
      <3>1. i \in 1 .. n - first + 1 /\ at(i) = first + i - 1 /\ at(i) \in 1 .. n
        BY <2>1
      <3>2. q[i] = a[i]
        BY <1>4, <2>1
      <3>. QED  BY <1>2, <3>1, <3>2
    <2>2. CASE ~ (i <= n - first + 1)
      <3>1. /\ i - (n - first + 1) \in 1 .. first - 1 /\ at(i) = i - (n - first + 1)
            /\ at(i) \in 1 .. n
        BY <2>2
      <3>2. q[i] = b[i - (n - first + 1)]
        BY <1>4, <2>2
      <3>. QED  BY <1>3, <3>1, <3>2
    <2>. QED  BY <2>1, <2>2
  <1>6. \A i, j \in 1 .. n : at(i) = at(j) => i = j
    OBVIOUS
  <1>7. at(1) = first
    OBVIOUS
  <1>8. \A i \in 1 .. n : q[i] \in graph.planned /\ q[1] <= q[i]
    <2>1. 1 \in 1 .. n /\ q[1] = p[first]
      BY <1>5, <1>7
    <2>. HIDE DEF at
    <2>. QED  BY <1>1, <1>5, <2>1
  <1>9. \A i \in 1 .. n : LET j == IF i = n THEN 1 ELSE i + 1 IN
          j \in 1 .. n /\ (at(j) = at(i) + 1 \/ (at(i) = n /\ at(j) = 1))
    OBVIOUS
  <1>10. \A i \in 1 .. n : q[IF i = n THEN 1 ELSE i + 1] \in Outgoing(graph, q[i])
    <2>. SUFFICES ASSUME NEW i \in 1 .. n, NEW j, j = IF i = n THEN 1 ELSE i + 1
                  PROVE  q[j] \in Outgoing(graph, q[i])
      OBVIOUS
    <2>1. j \in 1 .. n /\ (at(j) = at(i) + 1 \/ (at(i) = n /\ at(j) = 1))
      BY <1>9
    <2>2. at(i) \in 1 .. n /\ at(j) \in 1 .. n /\ q[i] = p[at(i)] /\ q[j] = p[at(j)]
      BY <1>5, <2>1
    <2>. HIDE DEF at
    <2>3. CASE at(j) = at(i) + 1
      <3>1. at(i) \in 1 .. n - 1
        BY <2>2, <2>3
      <3>. QED  BY <2>2, <2>3, <3>1
    <2>. QED  BY <2>1, <2>2, <2>3
  <1>11. IsInjective(q)
    <2>. HIDE DEF at
    <2>. QED  BY <1>4, <1>5, <1>6 DEF IsInjective
  <1>. QED  BY <1>4, <1>8, <1>10, <1>11 DEF RealCycle, q, a, b

\* A dependency on an open node closes a real cycle.
LEMMA ClosedCycle ==
  ASSUME graph.planned \subseteq Nat,
         NEW c, NEW f, StackInv(c, f), f # << >>,
         NEW t \in graph.nodes, c[t] = "gray", t \in Outgoing(graph, Last(f).node)
  PROVE  RealCycle(CanonicalCycle(f, t))
  <1>. DEFINE start == CHOOSE i \in DOMAIN f : f[i].node = t
              n == Len(f) - start + 1
              p == [i \in 1 .. n |-> f[start + i - 1].node]
              first == CHOOSE i \in DOMAIN p : \A j \in DOMAIN p : p[i] <= p[j]
  <1>1. /\ f \in Seq(Frames)
        /\ \A i, j \in DOMAIN f : f[i].node = f[j].node => i = j
        /\ \A u \in graph.nodes : c[u] = "gray" => \E i \in DOMAIN f : f[i].node = u
        /\ \A i, j \in DOMAIN f : j = i + 1 => f[j].node \in Outgoing(graph, f[i].node)
    BY DEF StackInv
  <1>2. start \in DOMAIN f /\ f[start].node = t
    BY <1>1
  <1>3. Len(f) \in Nat \ {0} /\ DOMAIN f = 1 .. Len(f) /\ Last(f) = f[Len(f)]
    BY <1>1, Popped
  <1>. HIDE DEF start
  <1>4. /\ n \in Nat \ {0} /\ \A i \in 1 .. n : start + i - 1 \in DOMAIN f
        /\ start + 1 - 1 = start /\ start + n - 1 = Len(f)
    BY <1>2, <1>3
  <1>. HIDE DEF n
  <1>5. \A i, j \in 1 .. n : p[i] = p[j] => i = j
    <2>. SUFFICES ASSUME NEW i \in 1 .. n, NEW j \in 1 .. n, p[i] = p[j] PROVE i = j
      OBVIOUS
    <2>1. start + i - 1 = start + j - 1
      BY <1>1, <1>4
    <2>. QED  BY <1>2, <1>3, <1>4, <2>1
  <1>6. p[1] = t /\ p[n] = Last(f).node
    BY <1>2, <1>3, <1>4
  <1>7. \A i \in 1 .. n - 1 : p[i + 1] \in Outgoing(graph, p[i])
    <2>. SUFFICES ASSUME NEW i \in 1 .. n - 1 PROVE p[i + 1] \in Outgoing(graph, p[i])
      OBVIOUS
    <2>1. i \in 1 .. n /\ i + 1 \in 1 .. n
      BY <1>4
    <2>2. p[i] = f[start + i - 1].node /\ p[i + 1] = f[start + (i + 1) - 1].node
      BY <2>1
    <2>3. start + (i + 1) - 1 = (start + i - 1) + 1
      BY <1>2, <1>3, <2>1
    <2>. HIDE DEF p
    <2>4. start + i - 1 \in DOMAIN f /\ start + (i + 1) - 1 \in DOMAIN f
      BY <1>4, <2>1
    <2>. QED  BY <1>1, <2>2, <2>3, <2>4
  <1>. DEFINE succ(i) == IF i = n THEN 1 ELSE i + 1
  <1>8. \A i \in 1 .. n : p[i] \in graph.planned
    <2>. SUFFICES ASSUME NEW i \in 1 .. n PROVE p[i] \in graph.planned
      OBVIOUS
    <2>1. CASE i = n
      <3>. HIDE DEF p
      <3>. QED  BY <1>6, <2>1, EdgesLeadToNodes
    <2>2. CASE i # n
      <3>1. i \in 1 .. n - 1
        BY <1>4, <2>2
      <3>2. p[i + 1] \in Outgoing(graph, p[i])
        BY <1>7, <3>1
      <3>. HIDE DEF p
      <3>. QED  BY <3>2, EdgesLeadToNodes
    <2>. QED  BY <2>1, <2>2
  <1>9. p \in Seq(graph.planned) /\ Len(p) = n /\ DOMAIN p = 1 .. n
    <2>1. p = [i \in 1 .. n |-> p[i]]
      OBVIOUS
    <2>. HIDE DEF p
    <2>2. n \in Nat
      BY <1>4
    <2>. QED  BY <1>8, <2>1, <2>2, IsSequence
  <1>10. first \in 1 .. n /\ \A i \in 1 .. n : p[first] <= p[i]
    <2>. DEFINE S == {p[i] : i \in 1 .. n}
    <2>1. S \in SUBSET Nat /\ S # {}
      <3>1. \A i \in 1 .. n : p[i] \in Nat
        BY <1>8
      <3>2. 1 \in 1 .. n
        BY <1>4
      <3>. HIDE DEF p
      <3>. QED  BY <3>1, <3>2
    <2>. HIDE DEF S
    <2>2. Least(S) \in S /\ \A y \in S : Least(S) <= y
      BY <2>1, LeastMember
    <2>. HIDE DEF p
    <2>3. PICK i \in 1 .. n : p[i] = Least(S)
      BY <2>2 DEF S
    <2>4. \A j \in 1 .. n : p[i] <= p[j]
      BY <2>2, <2>3 DEF S
    <2>. QED  BY <1>9, <2>4
  <1>11. CanonicalCycle(f, t) = SubSeq(p, first, n) \o SubSeq(p, 1, first - 1)
    BY <1>9 DEF CanonicalCycle, CanonicalFrom, start, n
  <1>. HIDE DEF p, first
  <1>12. p[1] \in Outgoing(graph, p[n])
    BY <1>6
  <1>13. RealCycle(SubSeq(p, first, n) \o SubSeq(p, 1, first - 1))
    BY <1>4, <1>5, <1>7, <1>9, <1>10, <1>12, Rotated
  <1>. QED  BY <1>11, <1>13

\* What is known of a search whose graph stays.
LEMMA SearchStays ==
  ASSUME graph' = graph
  PROVE  /\ StackInv(color', stack') => StackInv(color, stack)'
         /\ FinishedInv(color', stack') => FinishedInv(color, stack)'
         /\ (\A c \in cycles' : RealCycle(c)) => CyclesKnown'
         /\ Grounded(graph.nodes) => Grounded(graph.nodes)'
  <1>1. StackInv(color', stack') => StackInv(color, stack)'
    BY DEF StackInv, Frames
  <1>2. FinishedInv(color', stack') => FinishedInv(color, stack)'
    BY DEF FinishedInv, Grounded, Black, Settled, Above
  <1>3. (\A c \in cycles' : RealCycle(c)) => CyclesKnown'
    BY DEF RealCycle, CyclesKnown
  <1>4. Grounded(graph.nodes) => Grounded(graph.nodes)'
    BY DEF Grounded
  <1>. QED  BY <1>1, <1>2, <1>3, <1>4

\* A step that leaves the catalog, the graph and the cycles alone, outside the search.
LEMMA SearchIsOver ==
  ASSUME SearchInv, UNCHANGED <<graphVars, cycles>>, phase # "open", phase' # "open",
         phase' # "searching", phase' = "planning" => phase = "planning"
  PROVE  SearchInv'
  <1>1. /\ graph' = graph /\ catalog' = catalog /\ satisfied' = satisfied
        /\ decisions' = decisions /\ cycles' = cycles
    BY DEF graphVars
  <1>2. CyclesKnown'
    BY <1>1 DEF SearchInv, CyclesKnown, RealCycle
  <1>3. phase' = "planning" => Grounded(graph.nodes)'
    BY <1>1 DEF SearchInv, Grounded
  <1>. QED  BY <1>1, <1>2, <1>3 DEF SearchInv

\* Analysis starts the search with every node white.
LEMMA AnalyzeStartsSearch ==
  ASSUME SearchInv, Analyze
  PROVE  SearchInv'
  <1>1. /\ phase = "open" /\ graph' = Resolve(catalog, satisfied, decisions')
        /\ UNCHANGED <<catalog, satisfied, stack, cycles>>
        /\ \/ phase' = "searching" /\ color' = [t \in graph'.nodes |-> "white"]
           \/ phase' = "done"
    BY DEF Analyze, Finish
  <1>2. stack' = << >> /\ cycles' = {} /\ DOMAIN satisfied' \subseteq Types
    BY <1>1 DEF SearchInv
  <1>3. CyclesKnown'
    BY <1>2 DEF CyclesKnown
  <1>4. phase' = "searching" => StackInv(color, stack)' /\ FinishedInv(color, stack)'
    <2>. SUFFICES ASSUME color' = [t \in graph'.nodes |-> "white"]
                  PROVE  StackInv(color, stack)' /\ FinishedInv(color, stack)'
      BY <1>1
    <2>1. /\ color' \in [graph'.nodes -> {"white", "gray", "black"}]
          /\ \A t \in graph'.nodes : color'[t] = "white"
      OBVIOUS
    <2>2. << >> \in Seq(Frames') /\ DOMAIN << >> = {}
      OBVIOUS
    <2>3. StackInv(color, stack)'
      BY <1>2, <2>1, <2>2 DEF StackInv
    <2>4. Black(color)' = {}
      BY <2>1 DEF Black
    <2>5. Grounded(Black(color))'
      BY <2>4 DEF Grounded
    <2>6. FinishedInv(color, stack)'
      BY <1>2, <2>2, <2>4, <2>5 DEF FinishedInv
    <2>. QED  BY <2>3, <2>6
  <1>. QED  BY <1>1, <1>2, <1>3, <1>4 DEF SearchInv

\* The facts every search step starts from.
LEMMA SearchHas ==
  ASSUME SearchInv, BuildInv, phase = "searching"
  PROVE  /\ StackInv(color, stack) /\ stack \in Seq(Frames)
         /\ color \in [graph.nodes -> {"white", "gray", "black"}]
         /\ (cycles = {} => FinishedInv(color, stack))
         /\ graph.nodes \subseteq Nat /\ graph.planned \subseteq graph.nodes
         /\ \A c \in cycles : RealCycle(c)
  <1>1. catalog \in Catalogs /\ DOMAIN satisfied \subseteq Types
        /\ graph = Resolve(catalog, satisfied, decisions)
    BY DEF BuildInv, Shape, SearchInv
  <1>2. graph.nodes \subseteq Nat /\ graph.planned \subseteq graph.nodes
    BY <1>1, NodesAreTypes
  <1>. QED  BY <1>2 DEF SearchInv, StackInv, CyclesKnown, RealCycle

\* A step of the search keeps its invariant if it keeps that of its frames.
LEMMA SearchGoesOn ==
  ASSUME SearchInv, phase = "searching", phase' = "searching", UNCHANGED graphVars,
         StackInv(color', stack'), cycles' = {} => FinishedInv(color', stack'),
         \A c \in cycles' : RealCycle(c)
  PROVE  SearchInv'
  <1>1. /\ graph' = graph /\ catalog' = catalog /\ satisfied' = satisfied
        /\ decisions' = decisions
    BY DEF graphVars
  <1>. QED  BY <1>1, SearchStays DEF SearchInv

\* A root is visited.
LEMMA SearchRootPreserves ==
  ASSUME SearchInv, BuildInv, SearchRoot
  PROVE  SearchInv'
  <1>. DEFINE white == {t \in graph.nodes : color[t] = "white"}
              t == Least(white)
  <1>1. /\ phase = "searching" /\ phase' = "searching" /\ cycles' = cycles
        /\ UNCHANGED graphVars /\ stack = << >> /\ white # {}
        /\ color' = [color EXCEPT ![t] = "gray"]
        /\ stack' = Append(stack, [node |-> t, pending |-> Outgoing(graph, t)])
    BY DEF SearchRoot, Searching, Visit, SearchUnchanged
  <1>2. /\ StackInv(color, stack) /\ (cycles = {} => FinishedInv(color, stack))
        /\ graph.nodes \subseteq Nat /\ \A c \in cycles : RealCycle(c)
    BY <1>1, SearchHas
  <1>3. t \in white
    <2>1. white \in SUBSET Nat
      BY <1>2
    <2>. HIDE DEF white
    <2>. QED  BY <1>1, <2>1, LeastMember
  <1>4. t \in graph.nodes /\ color[t] = "white"
    BY <1>3
  <1>. HIDE DEF t
  <1>5. StackInv(color', stack')
    BY <1>1, <1>2, <1>4, VisitedStack
  <1>6. cycles' = {} => FinishedInv(color', stack')
    <2>. SUFFICES ASSUME cycles = {} PROVE FinishedInv(color', stack')
      BY <1>1
    <2>1. /\ Grounded(Black(color))
          /\ \A u \in Black(color) : Outgoing(graph, u) \subseteq Black(color)
      BY <1>2 DEF FinishedInv
    <2>2. \A i \in DOMAIN stack : FALSE
      BY <1>1
    <2>. QED  BY <1>1, <1>2, <1>4, <2>1, <2>2, VisitedFinished
  <1>. QED  BY <1>1, <1>2, <1>5, <1>6, SearchGoesOn

\* A dependency of the top frame is visited, closes a cycle or is passed over.
LEMMA SearchDependencyPreserves ==
  ASSUME SearchInv, BuildInv, SearchDependency
  PROVE  SearchInv'
  <1>. DEFINE top  == Last(stack)
              next == Least(top.pending)
              rest == Passed(stack, next)
  <1>1. /\ phase = "searching" /\ phase' = "searching" /\ UNCHANGED graphVars
        /\ stack # << >> /\ top.pending # {}
        /\ \/ /\ color[next] = "white" /\ cycles' = cycles
              /\ color' = [color EXCEPT ![next] = "gray"]
              /\ stack' = Append(rest, [node |-> next, pending |-> Outgoing(graph, next)])
           \/ /\ color[next] = "gray" /\ cycles' = cycles \cup {CanonicalCycle(stack, next)}
              /\ stack' = rest /\ color' = color
           \/ /\ color[next] = "black" /\ cycles' = cycles
              /\ stack' = rest /\ color' = color
    BY DEF SearchDependency, Searching, Visit, SearchUnchanged, Passed
  <1>2. /\ StackInv(color, stack) /\ (cycles = {} => FinishedInv(color, stack))
        /\ stack \in Seq(Frames)
        /\ graph.nodes \subseteq Nat /\ graph.planned \subseteq graph.nodes
        /\ \A c \in cycles : RealCycle(c)
    BY <1>1, SearchHas
  <1>3. /\ top \in Frames /\ top = stack[Len(stack)] /\ Len(stack) \in DOMAIN stack
        /\ Len(rest) = Len(stack) /\ DOMAIN rest = DOMAIN stack /\ rest # << >>
        /\ \A i \in DOMAIN stack : rest[i].node = stack[i].node
    <2>1. /\ top \in Frames /\ top = stack[Len(stack)]
      BY <1>1, <1>2, Popped
    <2>2. /\ Len(rest) = Len(stack) /\ DOMAIN rest = DOMAIN stack /\ rest # << >>
          /\ \A i \in DOMAIN stack : rest[i].node = stack[i].node
          /\ DOMAIN stack = 1 .. Len(stack) /\ Len(stack) \in Nat \ {0}
      BY <1>1, <1>2, PassedFrames
    <2>. QED  BY <2>1, <2>2
  <1>4. next \in top.pending
    <2>1. top.pending \in SUBSET Nat
      BY <1>2, <1>3 DEF Frames
    <2>. HIDE DEF top
    <2>. QED  BY <1>1, <2>1, LeastMember
  <1>5. /\ next \in graph.nodes /\ next \in Outgoing(graph, top.node)
        /\ next \in Outgoing(graph, rest[Len(rest)].node)
    <2>1. next \in graph.nodes
      BY <1>3, <1>4 DEF Frames
    <2>2. top.pending \subseteq Outgoing(graph, top.node)
      BY <1>2, <1>3 DEF StackInv
    <2>. QED  BY <1>3, <1>4, <2>1, <2>2
  <1>6. StackInv(color, rest)
    BY <1>1, <1>2, PassedStack
  <1>7. ASSUME cycles = {}
        PROVE  /\ FinishedInv(color, stack) /\ Grounded(Black(color))
               /\ \A u \in Black(color) : Outgoing(graph, u) \subseteq Black(color)
               /\ \A i \in DOMAIN rest :
                    \/ Settled(color, rest, i)
                    \/ /\ i = Len(rest) /\ next \notin Black(color)
                       /\ Outgoing(graph, rest[i].node) \ rest[i].pending
                            \subseteq Black(color) \cup {next}
    <2>1. FinishedInv(color, stack)
      BY <1>2, <1>7
    <2>2. \A i \in DOMAIN stack :
            \/ Settled(color, Passed(stack, next), i)
            \/ /\ i = Len(stack) /\ next \notin Black(color)
               /\ Outgoing(graph, stack[i].node) \ Passed(stack, next)[i].pending
                    \subseteq Black(color) \cup {next}
      <3>. HIDE DEF next
      <3>. QED  BY <1>1, <1>2, <2>1, PassedFinished
    <2>. HIDE DEF rest
    <2>3. rest = Passed(stack, next)
      BY DEF rest
    <2>. HIDE DEF next
    <2>. QED  BY <1>3, <2>1, <2>2, <2>3 DEF FinishedInv
  <1>. HIDE DEF next, rest, top
  <1>8. CASE color[next] = "white"
    <2>1. /\ color' = [color EXCEPT ![next] = "gray"] /\ cycles' = cycles
          /\ stack' = Append(rest, [node |-> next, pending |-> Outgoing(graph, next)])
      BY <1>1, <1>8
    <2>2. StackInv(color', stack')
      BY <1>3, <1>5, <1>6, <1>8, <2>1, VisitedStack
    <2>3. cycles' = {} => FinishedInv(color', stack')
      BY <1>5, <1>6, <1>7, <1>8, <2>1, VisitedFinished
    <2>. QED  BY <1>1, <1>2, <2>1, <2>2, <2>3, SearchGoesOn
  <1>9. CASE color[next] = "gray"
    <2>1. /\ color' = color /\ stack' = rest
          /\ cycles' = cycles \cup {CanonicalCycle(stack, next)}
      BY <1>1, <1>9
    <2>2. RealCycle(CanonicalCycle(stack, next))
      <3>1. graph.planned \subseteq Nat
        BY <1>2
      <3>2. next \in Outgoing(graph, Last(stack).node)
        BY <1>5 DEF top
      <3>. QED  BY <1>1, <1>2, <1>5, <1>9, <3>1, <3>2, ClosedCycle
    <2>3. StackInv(color', stack') /\ cycles' # {} /\ \A c \in cycles' : RealCycle(c)
      BY <1>2, <1>6, <2>1, <2>2
    <2>. QED  BY <1>1, <2>3, SearchGoesOn
  <1>10. CASE color[next] = "black"
    <2>1. /\ color' = color /\ stack' = rest /\ cycles' = cycles
      BY <1>1, <1>10
    <2>2. next \in Black(color)
      BY <1>5, <1>10 DEF Black
    <2>3. cycles' = {} => FinishedInv(color', stack')
      BY <1>7, <2>1, <2>2 DEF FinishedInv
    <2>. QED  BY <1>1, <1>2, <1>6, <2>1, <2>3, SearchGoesOn
  <1>. QED  BY <1>1, <1>8, <1>9, <1>10

\* A frame is left.
LEMMA SearchLeavePreserves ==
  ASSUME SearchInv, BuildInv, SearchLeave
  PROVE  SearchInv'
  <1>1. /\ phase = "searching" /\ phase' = "searching" /\ UNCHANGED graphVars
        /\ stack # << >> /\ Last(stack).pending = {} /\ cycles' = cycles
        /\ color' = [color EXCEPT ![Last(stack).node] = "black"]
        /\ stack' = Front(stack)
    BY DEF SearchLeave, Searching, SearchUnchanged
  <1>2. /\ StackInv(color, stack) /\ (cycles = {} => FinishedInv(color, stack))
        /\ \A c \in cycles : RealCycle(c)
    BY <1>1, SearchHas
  <1>3. StackInv(color', stack')
    BY <1>1, <1>2, LeftStack
  <1>4. cycles' = {} => FinishedInv(color', stack')
    BY <1>1, <1>2, LeftFinished
  <1>. QED  BY <1>1, <1>2, <1>3, <1>4, SearchGoesOn

\* When the search ends without a cycle every node is black, and so grounded.
LEMMA SearchEndGrounds ==
  ASSUME SearchInv, BuildInv, SearchEnd
  PROVE  SearchInv'
  <1>1. /\ phase = "searching" /\ stack = << >> /\ \A t \in graph.nodes : color[t] # "white"
        /\ UNCHANGED <<graphVars, cycles, stack, color>>
        /\ \/ phase' = "done" /\ cycles # {}
           \/ phase' = "planning" /\ cycles = {}
    BY DEF SearchEnd, Searching, Finish, searchVars
  <1>2. /\ StackInv(color, stack) /\ (cycles = {} => FinishedInv(color, stack))
        /\ color \in [graph.nodes -> {"white", "gray", "black"}]
        /\ \A c \in cycles : RealCycle(c)
    BY <1>1, SearchHas
  <1>3. \A t \in graph.nodes : color[t] # "gray"
    BY <1>1, <1>2 DEF StackInv
  <1>4. Black(color) = graph.nodes
    BY <1>1, <1>2, <1>3 DEF Black
  <1>5. phase' = "planning" => Grounded(graph.nodes)
    BY <1>1, <1>2, <1>4 DEF FinishedInv
  <1>6. /\ graph' = graph /\ catalog' = catalog /\ satisfied' = satisfied
        /\ decisions' = decisions /\ cycles' = cycles
    BY <1>1 DEF graphVars
  <1>7. CyclesKnown' /\ (phase' = "planning" => Grounded(graph.nodes)')
    BY <1>2, <1>5, <1>6, SearchStays
  <1>. QED  BY <1>1, <1>6, <1>7 DEF SearchInv

\* Where the nodes are grounded, Kahn's algorithm runs dry only when it is done:
\* a provider without a step that waits for no other is ready.
LEMMA AllPlaced ==
  ASSUME BuildInv, phase = "planning", Grounded(graph.nodes), ready = {}
  PROVE  Placed = graph.planned
  <1>. DEFINE part == graph.planned \ Placed
  <1>1. /\ plan \in Seq(graph.planned)
        /\ ready = {c \in graph.planned : c \notin Placed /\ Waiting(c) = {}}
    BY DEF BuildInv, Shape, Counting
  <1>2. graph.planned \subseteq graph.nodes
    BY DEF BuildInv, Analysis, Analyzed, Resolve
  <1>3. Placed \subseteq graph.planned
    BY <1>1 DEF Placed
  <1>4. ASSUME part # {} PROVE FALSE
    <2>1. PICK t \in part : Outgoing(graph, t) \cap part = {}
      BY <1>2, <1>4 DEF Grounded
    <2>2. ASSUME NEW i \in Waiting(t) PROVE FALSE
      <3>1. i \in DOMAIN graph.deps[t] /\ graph.deps[t][i] \in part
        BY <2>2 DEF Waiting, PlannedEdges
      <3>2. graph.deps[t][i] \in Outgoing(graph, t)
        BY <1>2, <2>1, <3>1 DEF Outgoing, Edges
      <3>. QED  BY <2>1, <3>1, <3>2
    <2>. QED  BY <1>1, <2>1, <2>2
  <1>. QED  BY <1>3, <1>4

\* A plan that places every planned provider once has a step for each.
LEMMA PlanLength ==
  ASSUME plan \in Seq(graph.planned), Placed = graph.planned,
         \A j, k \in DOMAIN plan : plan[j] = plan[k] => j = k
  PROVE  Len(plan) = Cardinality(graph.planned)
  <1>1. Len(plan) \in Nat /\ DOMAIN plan = 1 .. Len(plan)
        /\ plan \in [1 .. Len(plan) -> graph.planned]
    OBVIOUS
  <1>2. \A t \in graph.planned : \E k \in 1 .. Len(plan) : plan[k] = t
    BY <1>1 DEF Placed
  <1>3. plan \in Bijection(1 .. Len(plan), graph.planned)
    BY <1>1, <1>2 DEF Bijection, Injection, Surjection, IsInjective
  <1>. QED  BY <1>1, <1>3, FS_CountingElements DEF ExistsBijection

\* The assertion of plan::create holds.
LEMMA PlanEndPasses ==
  ASSUME BuildInv, SearchInv, PlanEnd
  PROVE  outcome' # "panicked" \/ outcome = "panicked"
  <1>1. phase = "planning" /\ ready = {}
    BY DEF PlanEnd
  <1>2. /\ plan \in Seq(graph.planned)
        /\ \A j, k \in DOMAIN plan : plan[j] = plan[k] => j = k
    BY <1>1 DEF BuildInv, Shape, Ordered
  <1>3. Placed = graph.planned
    BY <1>1, AllPlaced DEF SearchInv
  <1>4. Len(plan) = Cardinality(graph.planned)
    BY <1>2, <1>3, PlanLength
  <1>. QED  BY <1>4 DEF PlanEnd, Finish

\* No step but the end of planning asserts anything.
LEMMA NothingElsePanics ==
  ASSUME PlanningNeverPanics, [BuildNext]_buildVars, ~PlanEnd
  PROVE  PlanningNeverPanics'
  <1>. USE DEF PlanningNeverPanics, Finish
  <1>1. CASE \E t \in Types : Provide(t) \/ Construct(t)
    BY <1>1 DEF Provide, Construct
  <1>2. CASE Analyze
    BY <1>2 DEF Analyze
  <1>3. CASE SearchRoot \/ SearchDependency \/ SearchLeave
    BY <1>3 DEF SearchRoot, SearchDependency, SearchLeave, SearchUnchanged
  <1>4. CASE SearchEnd
    BY <1>4 DEF SearchEnd
  <1>5. CASE PlanStep
    BY <1>5 DEF PlanStep
  <1>6. CASE ApplyDefault \/ ApplyEnd
    BY <1>6 DEF ApplyDefault, ApplyEnd, InsertErased
  <1>7. CASE ConstructStep
    BY <1>7 DEF ConstructStep, InsertErased
  <1>8. CASE ConstructFails
    BY <1>8 DEF ConstructFails, Explain
  <1>9. CASE DropBuild \/ BuildEnd
    BY <1>9 DEF DropBuild, BuildEnd
  <1>10. CASE ExplainStep \/ ExplainEnd
    BY <1>10 DEF ExplainStep, ExplainEnd, ExplainUnchanged
  <1>11. CASE Ended \/ UNCHANGED buildVars
    BY <1>11 DEF Ended, buildVars
  <1>. QED  BY <1>1, <1>2, <1>3, <1>4, <1>5, <1>6, <1>7, <1>8, <1>9, <1>10, <1>11 DEF BuildNext

\* A new builder satisfies the invariant of the search.
LEMMA SearchInitEstablishes == BuildInit => SearchInv
  <1>. SUFFICES ASSUME BuildInit PROVE SearchInv
    OBVIOUS
  <1>1. phase = "open" /\ stack = << >> /\ cycles = {} /\ satisfied = << >>
    BY DEF BuildInit
  <1>2. DOMAIN satisfied \subseteq Types
    BY <1>1
  <1>. QED  BY <1>1, <1>2 DEF SearchInv, CyclesKnown

\* Every step of the builder keeps it.
LEMMA SearchStepPreserves ==
  ASSUME BuildInv, SearchInv, [BuildNext]_buildVars
  PROVE  SearchInv'
  <1>. USE DEF searchVars, Finish
  <1>1. CASE \E t \in Types : Provide(t) \/ Construct(t)
    <2>1. PICK t \in Types : Provide(t) \/ Construct(t)
      BY <1>1
    <2>2. /\ phase = "open" /\ phase' = "open" /\ stack' = stack /\ cycles' = cycles
          /\ DOMAIN satisfied' = DOMAIN satisfied \cup {t}
      BY <2>1 DEF Provide, Construct
    <2>. QED  BY <2>2 DEF SearchInv, CyclesKnown
  <1>2. CASE Analyze
    BY <1>2, AnalyzeStartsSearch
  <1>3. CASE SearchRoot \/ SearchDependency \/ SearchLeave
    BY <1>3, SearchRootPreserves, SearchDependencyPreserves, SearchLeavePreserves
  <1>4. CASE SearchEnd
    BY <1>4, SearchEndGrounds
  <1>5. CASE PlanStep \/ PlanEnd
    BY <1>5, SearchIsOver DEF PlanStep, PlanEnd
  <1>6. CASE ApplyDefault \/ ApplyEnd
    BY <1>6, SearchIsOver DEF ApplyDefault, ApplyEnd, InsertErased
  <1>7. CASE ConstructStep \/ DropBuild
    BY <1>7, SearchIsOver DEF ConstructStep, DropBuild, Constructing, ConstructUnchanged, InsertErased
  <1>8. CASE ConstructFails
    BY <1>8, SearchIsOver DEF ConstructFails, Constructing, ConstructUnchanged, Explain
  <1>9. CASE BuildEnd
    BY <1>9, SearchIsOver DEF BuildEnd
  <1>10. CASE ExplainStep \/ ExplainEnd
    BY <1>10, SearchIsOver DEF ExplainStep, ExplainEnd, ExplainUnchanged
  <1>11. CASE Ended \/ UNCHANGED buildVars
    <2>1. UNCHANGED <<graphVars, phase, searchVars>>
      BY <1>11 DEF Ended, buildVars
    <2>2. CASE phase = "searching"
      <3>1. StackInv(color', stack') /\ (cycles' = {} => FinishedInv(color', stack'))
            /\ \A c \in cycles' : RealCycle(c)
        BY <2>1, <2>2, SearchHas
      <3>. QED  BY <2>1, <2>2, <3>1, SearchGoesOn
    <2>3. CASE phase = "open"
      BY <2>1, <2>3 DEF SearchInv, CyclesKnown, graphVars
    <2>4. CASE phase \notin {"open", "searching"}
      BY <2>1, <2>4, SearchIsOver
    <2>. QED  BY <2>2, <2>3, <2>4
  <1>. QED  BY <1>1, <1>2, <1>3, <1>4, <1>5, <1>6, <1>7, <1>8, <1>9, <1>10, <1>11 DEF BuildNext

\* Every cycle a build is refused for is one of its declarations, and a graph
\* without a cycle is ordered completely, whatever the catalog.
THEOREM PlanningSound == BuildSpec => []PlanningIsSound
  <1>1. BuildInit => SearchInv /\ PlanningNeverPanics
    BY SearchInitEstablishes DEF BuildInit, PlanningNeverPanics
  <1>2. BuildInv /\ SearchInv /\ PlanningNeverPanics /\ [BuildNext]_buildVars
          => SearchInv' /\ PlanningNeverPanics'
    BY SearchStepPreserves, NothingElsePanics, PlanEndPasses DEF PlanningNeverPanics
  <1>3. SearchInv /\ PlanningNeverPanics => PlanningIsSound
    BY DEF SearchInv, CyclesKnown, RealCycle, CyclesAreReal, PlanningIsSound
  <1>. QED  BY <1>1, <1>2, <1>3, BuildInvariance, PTL DEF BuildSpec

-----------------------------------------------------------------------------
(***************************************************************************)
(* The builder accepts what can be built, and nothing else.                 *)
(***************************************************************************)
Held == DOMAIN satisfied \cup Outputs(Selected(decisions))

\* The graph is the one of the declarations, which name each type once.
Static ==
  /\ catalog \in Catalogs
  /\ DOMAIN satisfied \subseteq Types
  /\ graph = Resolve(catalog, satisfied, decisions)

-----------------------------------------------------------------------------
\* Without an ambiguous type there is one declaration of each, and conversely.
LEMMA Unambiguous ==
  ASSUME NEW c \in Catalogs
  PROVE  Ambiguous(c) = {} <=> \A d, e \in c.declared : d.type = e.type => d = e
  <1>. DEFINE of(t) == {d \in c.declared : d.type = t}
  <1>1. c.declared \subseteq Declaration /\ IsFiniteSet(c.declared)
    BY CatalogsAssumption
  <1>2. \A d \in c.declared : d.type \in Types
    BY <1>1 DEF Declaration
  <1>3. \A t : IsFiniteSet(of(t)) /\ Cardinality(of(t)) \in Nat
    BY <1>1, FS_Subset, FS_CardinalityType
  <1>4. ASSUME Ambiguous(c) = {}, NEW d \in c.declared, NEW e \in c.declared,
               d.type = e.type, d # e
        PROVE  FALSE
    <2>1. ~ (Cardinality(of(d.type)) > 1)
      BY <1>2, <1>4 DEF Ambiguous
    <2>2. {d, e} \subseteq of(d.type)
      BY <1>4
    <2>3. Cardinality({d, e}) = 2
      <3>1. IsFiniteSet({e}) /\ Cardinality({e}) = 1
        BY FS_Singleton
      <3>2. {d, e} = {e} \cup {d} /\ d \notin {e}
        BY <1>4
      <3>3. Cardinality({e} \cup {d}) = Cardinality({e}) + 1
        BY <3>1, <3>2, FS_AddElement
      <3>4. Cardinality({d, e}) = Cardinality({e} \cup {d})
        BY <3>2
      <3>. QED  BY <3>1, <3>3, <3>4
    <2>4. Cardinality({d, e}) <= Cardinality(of(d.type))
      BY <1>3, <2>2, FS_Subset
    <2>. HIDE DEF of
    <2>. QED  BY <1>3, <2>1, <2>3, <2>4
  <1>5. ASSUME \A d, e \in c.declared : d.type = e.type => d = e, NEW t \in Types,
               Cardinality(of(t)) > 1
        PROVE  FALSE
    <2>1. CASE of(t) = {}
      BY <1>5, <2>1, FS_EmptySet
    <2>2. CASE of(t) # {}
      <3>1. PICK d \in of(t) : TRUE
        BY <2>2
      <3>2. of(t) = {d}
        BY <1>5, <3>1
      <3>3. Cardinality(of(t)) = 1
        BY <3>2, FS_Singleton
      <3>. HIDE DEF of
      <3>. QED  BY <1>5, <3>3
    <2>. QED  BY <2>1, <2>2
  <1>. QED  BY <1>4, <1>5 DEF Ambiguous

\* Types nobody holds, each declaration of one of which depends on another of
\* them, cannot be had.
LEMMA Blocked ==
  ASSUME Static, Buildable, NEW S \in SUBSET Types, S \cap Held = {},
         \A d \in catalog.declared : d.type \in S => \E i \in DOMAIN d.deps : d.deps[i] \in S,
         NEW p \in catalog.declared, p.type \in S
  PROVE  FALSE
  <1>1. Held \subseteq Types
    BY DefaultsAssumption DEF Static, Held, Outputs, Selected
  <1>2. \A d \in catalog.declared : d.type \in Types
    BY CatalogsAssumption DEF Static, Declaration
  <1>3. Supports(Types \ S)
    BY <1>1, <1>2 DEF Supports, Held
  <1>4. p.type \in Types \ S
    BY <1>3 DEF Buildable, Obtainable
  <1>. QED  BY <1>4

\* A planned provider and its dependencies are those of its declaration.
LEMMA PlannedDeclared ==
  ASSUME Static, \A d, e \in catalog.declared : d.type = e.type => d = e, NEW t \in graph.planned
  PROVE  /\ t \in Types \ Held
         /\ \E d \in catalog.declared : d.type = t
         /\ \A d \in catalog.declared : d.type = t => d.deps = graph.deps[t]
  <1>1. /\ t \in {d.type : d \in catalog.declared} \ Held
        /\ graph.deps[t] = (CHOOSE d \in catalog.declared : d.type = t).deps
    BY DEF Static, Resolve, Held
  <1>2. \A d \in catalog.declared : d.type \in Types
    BY CatalogsAssumption DEF Static, Declaration
  <1>3. \A d \in catalog.declared : d.type = t =>
          d = CHOOSE e \in catalog.declared : e.type = t
    OBVIOUS
  <1>. QED  BY <1>1, <1>2, <1>3

\* A diagnostic of the declarations is the sign of one that cannot be built.
LEMMA ProblemsBlock ==
  Static /\ Problems(catalog, graph, decisions) # {} => ~ Buildable
  <1>. SUFFICES ASSUME Static, Problems(catalog, graph, decisions) # {}, Buildable PROVE FALSE
    OBVIOUS
  <1>1. /\ catalog.repeated = {} /\ Failed(decisions) = {}
        /\ \A d, e \in catalog.declared : d.type = e.type => d = e
    BY DEF Buildable
  <1>2. Ambiguous(catalog) = {}
    BY <1>1, Unambiguous DEF Static
  <1>3. CoveredMissing(catalog, decisions) = {}
    BY <1>1 DEF CoveredMissing, Outputs
  <1>4. PICK t \in Missing(catalog, graph, {}) : TRUE
    BY <1>1, <1>2, <1>3 DEF Problems
  <1>5. PICK p \in graph.planned : \E i \in DOMAIN graph.deps[p] : graph.deps[p][i] = t
    BY <1>4 DEF Missing
  <1>6. t \in Types /\ t \notin Held /\ \A d \in catalog.declared : d.type # t
    <2>1. t \in Types \ graph.nodes
      BY <1>2, <1>4 DEF Missing
    <2>. QED  BY <1>2, <2>1 DEF Static, Resolve, Held
  <1>7. /\ p \in Types \ Held
        /\ \E d \in catalog.declared : d.type = p
        /\ \A d \in catalog.declared : d.type = p => d.deps = graph.deps[p]
    BY <1>1, PlannedDeclared
  <1>. DEFINE S == {p, t}
  <1>8. S \in SUBSET Types /\ S \cap Held = {}
    BY <1>6, <1>7
  <1>9. \A d \in catalog.declared : d.type \in S => \E i \in DOMAIN d.deps : d.deps[i] \in S
    BY <1>5, <1>6, <1>7
  <1>10. PICK d \in catalog.declared : d.type = p
    BY <1>7
  <1>11. d.type \in S
    BY <1>10
  <1>. HIDE DEF S
  <1>. QED  BY <1>8, <1>9, <1>11, Blocked

\* So is a cycle of declared providers.
LEMMA CyclesBlock ==
  Static /\ (\E c : RealCycle(c)) => ~ Buildable
  <1>. SUFFICES ASSUME Static, Buildable, NEW c, RealCycle(c) PROVE FALSE
    OBVIOUS
  <1>1. \A d, e \in catalog.declared : d.type = e.type => d = e
    BY DEF Buildable
  <1>. DEFINE S == {c[i] : i \in DOMAIN c}
  <1>2. /\ c \in Seq(graph.planned) /\ c # << >>
        /\ \A i \in DOMAIN c : c[IF i = Len(c) THEN 1 ELSE i + 1] \in Outgoing(graph, c[i])
    BY DEF RealCycle
  <1>3. /\ DOMAIN c = 1 .. Len(c) /\ Len(c) \in Nat \ {0}
        /\ \A i \in DOMAIN c : c[i] \in graph.planned
        /\ \A i \in DOMAIN c : (IF i = Len(c) THEN 1 ELSE i + 1) \in DOMAIN c
    BY <1>2
  <1>4. S \subseteq graph.planned /\ c[1] \in S
    BY <1>3
  <1>5. \A t \in S : \E u \in S : u \in Outgoing(graph, t)
    BY <1>2, <1>3
  <1>. HIDE DEF S
  <1>6. \A t \in S :
          /\ t \in Types \ Held
          /\ \E d \in catalog.declared : d.type = t
          /\ \A d \in catalog.declared : d.type = t => d.deps = graph.deps[t]
    BY <1>1, <1>4, PlannedDeclared
  <1>7. S \in SUBSET Types /\ S \cap Held = {}
    BY <1>6
  <1>8. ASSUME NEW d \in catalog.declared, d.type \in S
        PROVE  \E i \in DOMAIN d.deps : d.deps[i] \in S
    <2>1. PICK u \in S : u \in Outgoing(graph, d.type)
      BY <1>5, <1>8
    <2>2. PICK i \in DOMAIN graph.deps[d.type] : u = graph.deps[d.type][i]
      BY <1>4, <1>8, <2>1 DEF Outgoing, Edges
    <2>. QED  BY <1>6, <1>8, <2>1, <2>2
  <1>9. PICK d \in catalog.declared : d.type = c[1]
    BY <1>4, <1>6
  <1>. QED  BY <1>4, <1>7, <1>8, <1>9, Blocked

\* A complete plan is an order of construction.
LEMMA OrderedIsBuildable ==
  ASSUME BuildInv, DOMAIN satisfied \subseteq Types, phase \in Accepted, Placed = graph.planned
  PROVE  Buildable
  <1>1. /\ catalog \in Catalogs /\ plan \in Seq(graph.planned)
        /\ graph = Resolve(catalog, satisfied, decisions)
        /\ Problems(catalog, graph, decisions) = {} /\ Failed(decisions) = {}
        /\ \A k \in DOMAIN plan : \A i \in PlannedEdges(graph, plan[k]) :
             \E j \in 1 .. k - 1 : plan[j] = graph.deps[plan[k]][i]
    BY DEF BuildInv, Shape, Analysis, Ordered, Accepted, Analyzed
  <1>2. Static
    BY <1>1 DEF Static
  <1>3. catalog.repeated = {} /\ Ambiguous(catalog) = {}
    <2>1. ASSUME NEW d \in catalog.repeated PROVE FALSE
      <3>1. <<"MADS001", d.type>> \in Problems(catalog, graph, decisions)
        BY DEF Problems
      <3>. QED  BY <1>1, <3>1
    <2>2. ASSUME NEW t \in Ambiguous(catalog) PROVE FALSE
      <3>1. <<"MADS002", t>> \in Problems(catalog, graph, decisions)
        BY DEF Problems
      <3>. QED  BY <1>1, <3>1
    <2>. QED  BY <2>1, <2>2
  <1>4. \A d, e \in catalog.declared : d.type = e.type => d = e
    BY <1>1, <1>3, Unambiguous
  <1>5. \A t \in graph.planned :
          /\ \A i \in DOMAIN graph.deps[t] : graph.deps[t][i] \in graph.planned \cup Held
          /\ \A d \in catalog.declared : d.type = t => d.deps = graph.deps[t]
          /\ \E d \in catalog.declared : d.type = t
    BY <1>1, <1>2, <1>4, Resolution, PlannedDeclared DEF Held
  <1>6. \A d \in catalog.declared : d.type \in graph.planned \cup Held /\ d.type \in Types
    <2>1. \A d \in catalog.declared : d.type \in Types
      BY <1>1, CatalogsAssumption DEF Declaration
    <2>. QED  BY <1>1, <1>3, <2>1 DEF Resolve, Held
  <1>7. ASSUME NEW S \in SUBSET Types, Supports(S), NEW k \in DOMAIN plan, plan[k] \notin S
        PROVE  FALSE
    <2>. DEFINE late == {l \in DOMAIN plan : plan[l] \notin S}
    <2>0. DOMAIN plan = 1 .. Len(plan) /\ Len(plan) \in Nat
      BY <1>1
    <2>1. late \in SUBSET Nat /\ late # {}
      BY <1>7, <2>0
    <2>. DEFINE l == Least(late)
    <2>2. l \in late /\ \A m \in late : l <= m
      <3>. HIDE DEF late
      <3>. QED  BY <2>1, LeastMember
    <2>. HIDE DEF l
    <2>3. l \in DOMAIN plan /\ plan[l] \notin S /\ plan[l] \in graph.planned
      BY <1>1, <2>2
    <2>4. \A j \in 1 .. l - 1 : plan[j] \in S
      BY <2>0, <2>2
    <2>5. PICK d \in catalog.declared : d.type = plan[l] /\ d.deps = graph.deps[plan[l]]
      BY <1>5, <2>3
    <2>6. ASSUME NEW i \in DOMAIN d.deps PROVE d.deps[i] \in S
      <3>1. CASE d.deps[i] \in graph.planned
        <4>1. i \in PlannedEdges(graph, plan[l])
          BY <2>5, <2>6, <3>1 DEF PlannedEdges
        <4>2. PICK j \in 1 .. l - 1 : plan[j] = d.deps[i]
          BY <1>1, <2>3, <2>5, <4>1
        <4>. QED  BY <2>4, <4>2
      <3>2. CASE d.deps[i] \in Held
        BY <1>7, <3>2 DEF Supports, Held
      <3>. QED  BY <1>5, <2>3, <2>5, <2>6, <3>1, <3>2
    <2>. QED  BY <1>7, <2>3, <2>5, <2>6 DEF Supports
  <1>8. ASSUME NEW d \in catalog.declared PROVE d.type \in Obtainable
    <2>1. d.type \in Placed \cup Held
      BY <1>6
    <2>2. ASSUME NEW S \in SUBSET Types, Supports(S) PROVE d.type \in S
      <3>1. CASE d.type \in Held
        BY <2>2, <3>1 DEF Supports, Held
      <3>2. CASE d.type \in Placed
        BY <1>7, <2>2, <3>2 DEF Placed
      <3>. QED  BY <2>1, <3>1, <3>2
    <2>. QED  BY <1>6, <2>2 DEF Obtainable
  <1>. QED  BY <1>1, <1>3, <1>4, <1>8 DEF Buildable

\* An accepted plan is complete.
Complete == phase \in Accepted => Placed = graph.planned

\* What is known of a build that has ended.
EndInv ==
  /\ outcome # "none" => phase \in {"explaining", "done"}
  /\ phase = "explaining" => outcome \in {"constructor", "unresolved"}
  /\ outcome = "rejected" => ~ Buildable
  /\ BuiltFromDeclarations

-----------------------------------------------------------------------------
\* Whether the declarations can be built depends on nothing else.
LEMMA BuildableStands == graphVars' = graphVars => Buildable' = Buildable
  BY DEF graphVars, Buildable, Obtainable, Supports

\* The end of a build that is neither rejected nor built says nothing.
LEMMA EndGoesOn ==
  ASSUME outcome' \notin {"rejected", "built"},
         outcome' # "none" => phase' \in {"explaining", "done"},
         phase' = "explaining" => outcome' \in {"constructor", "unresolved"}
  PROVE  EndInv'
  BY DEF EndInv, BuiltFromDeclarations

\* A plan that is complete stays so.
LEMMA CompleteStays ==
  ASSUME Complete, phase' \in Accepted => phase \in Accepted, UNCHANGED <<plan, graph>>
  PROVE  Complete'
  BY DEF Complete, Placed

\* After the analysis the graph is that of the declarations.
LEMMA AnalyzedIsStatic ==
  ASSUME BuildInv, SearchInv, phase \in Analyzed
  PROVE  Static /\ Problems(catalog, graph, decisions) = {}
  BY DEF BuildInv, SearchInv, Shape, Analysis, Static

\* Analysis rejects only declarations that cannot be built.
LEMMA AnalyzeEnds ==
  ASSUME BuildInv, SearchInv, EndInv, Analyze
  PROVE  EndInv'
  <1>1. /\ phase = "open" /\ UNCHANGED <<catalog, satisfied>>
        /\ graph' = Resolve(catalog, satisfied, decisions')
        /\ \/ phase' = "searching" /\ outcome' = outcome
           \/ /\ phase' = "done" /\ outcome' = "rejected"
              /\ Problems(catalog, graph', decisions') # {}
    BY DEF Analyze, Finish
  <1>2. outcome = "none"
    BY <1>1 DEF EndInv
  <1>3. Static'
    BY <1>1 DEF BuildInv, Shape, SearchInv, Static
  <1>4. (Static /\ Problems(catalog, graph, decisions) # {} => ~ Buildable)'
    BY ProblemsBlock, PTL
  <1>5. outcome' = "rejected" => ~ Buildable'
    BY <1>1, <1>2, <1>3, <1>4
  <1>. QED  BY <1>1, <1>2, <1>5 DEF EndInv, BuiltFromDeclarations

\* The search rejects only declarations with a cycle.
LEMMA SearchEnds ==
  ASSUME BuildInv, SearchInv, EndInv, SearchEnd
  PROVE  EndInv'
  <1>1. /\ phase = "searching" /\ graphVars' = graphVars
        /\ \/ phase' = "done" /\ outcome' = "rejected" /\ cycles # {}
           \/ phase' = "planning" /\ outcome' = outcome
    BY DEF SearchEnd, Searching, Finish
  <1>2. outcome = "none" /\ Static
    BY <1>1, AnalyzedIsStatic DEF EndInv, Analyzed
  <1>3. cycles # {} => ~ Buildable
    BY <1>2, CyclesBlock DEF SearchInv, CyclesKnown
  <1>. QED  BY <1>1, <1>2, <1>3, BuildableStands DEF EndInv, BuiltFromDeclarations

\* Planning ends with a complete plan, or with a default that failed.
LEMMA PlanEnds ==
  ASSUME BuildInv, SearchInv, EndInv, PlanEnd
  PROVE  EndInv' /\ Complete'
  <1>1. /\ phase = "planning" /\ ready = {} /\ graphVars' = graphVars /\ plan' = plan
        /\ \/ phase' = "done" /\ outcome' = "panicked"
           \/ phase' = "done" /\ outcome' = "rejected" /\ Failed(decisions) # {}
           \/ phase' = "applying" /\ outcome' = outcome
    BY DEF PlanEnd, Finish, planVars
  <1>2. outcome = "none" /\ Placed = graph.planned
    BY <1>1, AllPlaced DEF EndInv, SearchInv
  <1>3. Failed(decisions) # {} => ~ Buildable
    BY DEF Buildable
  <1>4. Complete'
    BY <1>1, <1>2 DEF Complete, Placed, graphVars
  <1>. QED  BY <1>1, <1>2, <1>3, <1>4, BuildableStands DEF EndInv, BuiltFromDeclarations

\* In a built application the registry is what was held, applied and planned,
\* and the plan is what is declared and not held.
LEMMA BuildEnds ==
  ASSUME BuildInv, SearchInv, EndInv, Complete, BuildEnd
  PROVE  EndInv'
  <1>1. /\ phase = "constructing" /\ constructed = Len(plan)
        /\ phase' = "done" /\ outcome' = "built"
        /\ UNCHANGED <<catalog, satisfied, decisions, graph, registry, plan, applied>>
    BY DEF BuildEnd, Finish, graphVars, planVars, progressVars
  <1>2. /\ plan \in Seq(graph.planned) /\ applied = Selected(decisions)
        /\ Placed = graph.planned
        /\ registry = Held \cup {plan[k] : k \in 1 .. constructed}
        /\ \A j, k \in DOMAIN plan : plan[j] = plan[k] => j = k
        /\ \A d \in Selected(decisions) : ~ HasProvider(catalog, satisfied, d.output)
    BY <1>1 DEF BuildInv, Shape, Analysis, Holding, Ordered, Yielding, Complete, Analyzed,
                Accepted, Held
  <1>3. Static /\ Problems(catalog, graph, decisions) = {}
    BY <1>1, AnalyzedIsStatic DEF Analyzed
  <1>4. ToSet(plan) = Placed /\ DOMAIN plan = 1 .. constructed
    BY <1>1, <1>2 DEF ToSet, Placed
  <1>5. Ambiguous(catalog) = {}
    <2>1. ASSUME NEW t \in Ambiguous(catalog) PROVE FALSE
      <3>1. <<"MADS002", t>> \in Problems(catalog, graph, decisions)
        BY DEF Problems
      <3>. QED  BY <1>3, <3>1
    <2>. QED  BY <2>1
  <1>6. graph.planned = {d.type : d \in catalog.declared} \ Held
    BY <1>3, <1>5 DEF Static, Resolve, Held
  <1>7. {d.type : d \in catalog.declared} \cap Outputs(Selected(decisions)) = {}
    BY <1>2 DEF Outputs, HasProvider
  <1>8. ToSet(plan) = {d.type : d \in catalog.declared} \ DOMAIN satisfied
    BY <1>2, <1>4, <1>6, <1>7 DEF Held
  <1>9. IsInjective(plan)
    BY <1>2 DEF IsInjective
  <1>10. registry = DOMAIN satisfied \cup Outputs(applied) \cup ToSet(plan)
    BY <1>2, <1>4 DEF Held, Placed
  <1>11. BuiltFromDeclarations'
    BY <1>1, <1>8, <1>9, <1>10 DEF BuiltFromDeclarations, Outputs
  <1>. QED  BY <1>1, <1>11 DEF EndInv

\* Every step of the builder keeps both.
LEMMA EndStepPreserves ==
  ASSUME BuildInv, SearchInv, EndInv, Complete, InsertionNeverCollides', [BuildNext]_buildVars
  PROVE  EndInv' /\ Complete'
  <1>. USE DEF Finish, graphVars, planVars, Accepted
  <1>0. outcome # "none" => phase \in {"explaining", "done"}
    BY DEF EndInv
  <1>1. CASE \E t \in Types : Provide(t) \/ Construct(t)
    <2>1. phase = "open" /\ phase' = "open" /\ outcome' = outcome
      BY <1>1 DEF Provide, Construct
    <2>. QED  BY <1>0, <2>1, EndGoesOn DEF Complete
  <1>2. CASE Analyze
    <2>1. phase' \in {"searching", "done"}
      BY <1>2 DEF Analyze
    <2>. QED  BY <1>2, <2>1, AnalyzeEnds DEF Complete
  <1>3. CASE SearchRoot \/ SearchDependency \/ SearchLeave
    <2>1. phase = "searching" /\ phase' = "searching" /\ outcome' = outcome
      BY <1>3 DEF SearchRoot, SearchDependency, SearchLeave, Searching, SearchUnchanged
    <2>. QED  BY <1>0, <2>1, EndGoesOn DEF Complete
  <1>4. CASE SearchEnd
    <2>1. phase' \in {"planning", "done"}
      BY <1>4 DEF SearchEnd
    <2>. QED  BY <1>4, <2>1, SearchEnds DEF Complete
  <1>5. CASE PlanStep
    <2>1. phase = "planning" /\ phase' = "planning" /\ outcome' = outcome
      BY <1>5 DEF PlanStep
    <2>. QED  BY <1>0, <2>1, EndGoesOn DEF Complete
  <1>6. CASE PlanEnd
    BY <1>6, PlanEnds
  <1>7. CASE ApplyDefault \/ ApplyEnd \/ ConstructStep
    <2>1. /\ phase \in {"applying", "constructing"} /\ UNCHANGED <<plan, graph>>
          /\ \/ phase' \in {"applying", "constructing"} /\ outcome' = outcome
             \/ phase' = "done" /\ outcome' \in {"applier", "duplicate"}
      BY <1>7 DEF ApplyDefault, ApplyEnd, ConstructStep, InsertErased, Constructing,
                  ConstructUnchanged
    <2>. QED  BY <1>0, <2>1, EndGoesOn, CompleteStays
  <1>8. CASE ConstructFails \/ DropBuild
    <2>1. /\ phase = "constructing" /\ UNCHANGED <<plan, graph>>
          /\ \/ phase' \in {"explaining", "done"} /\ outcome' \in {"constructor", "unresolved"}
             \/ phase' = "done" /\ outcome' = "dropped"
      BY <1>8 DEF ConstructFails, DropBuild, Explain, Constructing, ConstructUnchanged
    <2>. QED  BY <1>0, <2>1, EndGoesOn, CompleteStays
  <1>9. CASE BuildEnd
    <2>1. phase' = "done"
      BY <1>9 DEF BuildEnd
    <2>. QED  BY <1>9, <2>1, BuildEnds DEF Complete
  <1>10. CASE ExplainStep \/ ExplainEnd
    <2>1. /\ phase = "explaining" /\ UNCHANGED <<plan, graph>> /\ outcome' = outcome
          /\ phase' \in {"explaining", "done"}
      BY <1>10 DEF ExplainStep, ExplainEnd, ExplainUnchanged
    <2>2. outcome \in {"constructor", "unresolved"}
      BY <2>1 DEF EndInv
    <2>. QED  BY <2>1, <2>2, EndGoesOn, CompleteStays
  <1>11. CASE Ended \/ UNCHANGED buildVars
    <2>1. UNCHANGED buildVars
      BY <1>11 DEF Ended
    <2>2. EndInv'
      <3>1. outcome' = outcome /\ phase' = phase /\ Buildable' = Buildable
        BY <2>1, BuildableStands DEF buildVars
      <3>2. BuiltFromDeclarations'
        BY <2>1 DEF EndInv, BuiltFromDeclarations, buildVars, progressVars, Outputs
      <3>. QED  BY <3>1, <3>2 DEF EndInv
    <2>. QED  BY <2>1, <2>2, CompleteStays DEF buildVars
  <1>. QED  BY <1>1, <1>2, <1>3, <1>4, <1>5, <1>6, <1>7, <1>8, <1>9, <1>10, <1>11 DEF BuildNext

-----------------------------------------------------------------------------
(***************************************************************************)
(* The search for a consumer.  Each queued path is one from a root, and a   *)
(* node seen waits at the end of one or has its dependencies seen.          *)
(***************************************************************************)
IsPath(p) ==
  /\ p \in Seq(graph.nodes) /\ p # << >> /\ p[1] \in Roots
  /\ \A i \in 1 .. Len(p) - 1 : p[i + 1] \in Outgoing(graph, p[i])

Awaited(q, t) == \E i \in DOMAIN q : Last(q[i]) = t

ExplainInv ==
  /\ phase # "done" => path = << >>
  /\ phase = "explaining" =>
       /\ constructed < Len(plan)
       /\ queue \in Seq(Seq(graph.nodes))
       /\ \A i \in DOMAIN queue : IsPath(queue[i])
       /\ Roots \subseteq visited
       /\ \A t \in visited :
            Awaited(queue, t) \/ (t # NextStep /\ Outgoing(graph, t) \subseteq visited)
  /\ FailureIsExplained

-----------------------------------------------------------------------------
\* Ith counts through a finite set of naturals.
LEMMA Ranked ==
  ASSUME NEW S \in SUBSET Nat, IsFiniteSet(S)
  PROVE  /\ Cardinality(S) \in Nat
         /\ \A i \in 1 .. Cardinality(S) : Ith(S, i) \in S
         /\ \A t \in S : \E i \in 1 .. Cardinality(S) : Ith(S, i) = t
  <1>. DEFINE n == Cardinality(S)
              below(t) == {s \in S : s < t}
              rank == [t \in S |-> Cardinality(below(t)) + 1]
  <1>1. n \in Nat
    BY FS_CardinalityType
  <1>2. \A t \in S : IsFiniteSet(below(t)) /\ Cardinality(below(t)) \in Nat
    BY FS_Subset, FS_CardinalityType
  <1>3. \A t \in S : /\ IsFiniteSet(below(t) \cup {t})
                     /\ Cardinality(below(t) \cup {t}) = Cardinality(below(t)) + 1
    <2>. SUFFICES ASSUME NEW t \in S
                  PROVE  /\ IsFiniteSet(below(t) \cup {t})
                         /\ Cardinality(below(t) \cup {t}) = Cardinality(below(t)) + 1
      OBVIOUS
    <2>1. t \notin below(t)
      OBVIOUS
    <2>2. IsFiniteSet(below(t))
      BY <1>2
    <2>. HIDE DEF below
    <2>. QED  BY <2>1, <2>2, FS_AddElement
  <1>4. \A t \in S : rank[t] \in 1 .. n
    <2>. SUFFICES ASSUME NEW t \in S PROVE Cardinality(below(t)) + 1 \in 1 .. n
      OBVIOUS
    <2>1. below(t) \cup {t} \subseteq S
      OBVIOUS
    <2>. HIDE DEF below
    <2>2. Cardinality(below(t) \cup {t}) <= n
      BY <2>1, FS_Subset
    <2>3. Cardinality(below(t)) \in Nat /\ Cardinality(below(t)) + 1 <= n
      BY <1>2, <1>3, <2>2
    <2>. HIDE DEF n
    <2>. QED  BY <1>1, <2>3
  <1>5. \A s, t \in S : s < t => rank[s] < rank[t]
    <2>. SUFFICES ASSUME NEW s \in S, NEW t \in S, s < t
                  PROVE  Cardinality(below(s)) + 1 < Cardinality(below(t)) + 1
      OBVIOUS
    <2>1. below(s) \cup {s} \subseteq below(t)
      <3>1. \A r \in S : r < s => r < t
        OBVIOUS
      <3>. QED  BY <3>1
    <2>. HIDE DEF below
    <2>2. Cardinality(below(s) \cup {s}) <= Cardinality(below(t))
      BY <1>2, <2>1, FS_Subset
    <2>. QED  BY <1>2, <1>3, <2>2
  <1>6. \A s, t \in S : rank[s] = rank[t] => s = t
    <2>. SUFFICES ASSUME NEW s \in S, NEW t \in S, rank[s] = rank[t], s # t PROVE FALSE
      OBVIOUS
    <2>1. s < t \/ t < s
      OBVIOUS
    <2>2. rank[s] < rank[t] \/ rank[t] < rank[s]
      BY <1>5, <2>1
    <2>3. rank[s] \in 1 .. n /\ rank[t] \in 1 .. n
      BY <1>4
    <2>. HIDE DEF rank, n
    <2>. QED  BY <1>1, <2>2, <2>3
  <1>7. rank \in Injection(S, 1 .. n)
    <2>1. rank \in [S -> 1 .. n]
      BY <1>4
    <2>. QED  BY <1>6, <2>1 DEF Injection, IsInjective
  <1>8. IsFiniteSet(1 .. n) /\ Cardinality(1 .. n) = n
    BY <1>1, FS_Interval
  <1>9. rank \in Surjection(S, 1 .. n)
    <2>. HIDE DEF rank
    <2>. QED  BY <1>7, <1>8, FS_Injection
  <1>10. \A i \in 1 .. n : \E t \in S : rank[t] = i
    BY <1>9 DEF Surjection
  <1>11. \A i \in 1 .. n : \A t \in S : Cardinality(below(t)) = i - 1 <=> rank[t] = i
    BY <1>1, <1>2
  <1>12. \A i \in 1 .. n : \A t \in S : rank[t] = i => Ith(S, i) = t
    <2>. SUFFICES ASSUME NEW i \in 1 .. n, NEW t \in S, rank[t] = i PROVE Ith(S, i) = t
      OBVIOUS
    <2>1. Cardinality(below(t)) = i - 1
      BY <1>11
    <2>2. \A s \in S : Cardinality(below(s)) = i - 1 => s = t
      BY <1>6, <1>11
    <2>. QED  BY <2>1, <2>2 DEF Ith
  <1>. HIDE DEF rank, n
  <1>13. \A i \in 1 .. n : Ith(S, i) \in S
    BY <1>10, <1>12
  <1>14. \A t \in S : \E i \in 1 .. n : Ith(S, i) = t
    BY <1>4, <1>12
  <1>. QED  BY <1>1, <1>13, <1>14 DEF n

\* What is seen when no path is left to extend has the failing step in it: of
\* the planned providers not seen, the last in the plan is a root or has its
\* consumers seen.
LEMMA SearchIsComplete ==
  ASSUME BuildInv, Complete, phase = "explaining", constructed < Len(plan),
         Roots \subseteq visited,
         \A t \in visited : t # NextStep /\ Outgoing(graph, t) \subseteq visited
  PROVE  FALSE
  <1>1. /\ plan \in Seq(graph.planned) /\ constructed \in 0 .. Len(plan)
        /\ Placed = graph.planned /\ graph.planned \subseteq graph.nodes
        /\ \A k \in DOMAIN plan : \A i \in PlannedEdges(graph, plan[k]) :
             \E j \in 1 .. k - 1 : plan[j] = graph.deps[plan[k]][i]
        /\ \A j, k \in DOMAIN plan : plan[j] = plan[k] => j = k
    BY DEF BuildInv, Shape, Analysis, Ordered, Complete, Accepted, Analyzed, Resolve
  <1>2. DOMAIN plan = 1 .. Len(plan) /\ Len(plan) \in Nat
    BY <1>1
  <1>. DEFINE back == {n \in 0 .. Len(plan) - 1 : plan[Len(plan) - n] \notin visited}
  <1>3. back \in SUBSET Nat /\ back # {}
    <2>1. NextStep \notin visited /\ NextStep = plan[constructed + 1]
      BY DEF NextStep
    <2>2. Len(plan) - (Len(plan) - (constructed + 1)) = constructed + 1
          /\ Len(plan) - (constructed + 1) \in 0 .. Len(plan) - 1
      BY <1>1, <1>2
    <2>. QED  BY <2>1, <2>2
  <1>. DEFINE n == Least(back)
  <1>4. n \in back /\ \A m \in back : n <= m
    <2>. HIDE DEF back
    <2>. QED  BY <1>3, LeastMember
  <1>. HIDE DEF n
  <1>. DEFINE k == Len(plan) - n
  <1>5. k \in DOMAIN plan /\ plan[k] \notin visited
    BY <1>2, <1>4
  <1>6. \A j \in DOMAIN plan : k < j => plan[j] \in visited
    <2>. SUFFICES ASSUME NEW j \in DOMAIN plan, k < j, plan[j] \notin visited PROVE FALSE
      OBVIOUS
    <2>1. Len(plan) - j \in 0 .. Len(plan) - 1 /\ Len(plan) - (Len(plan) - j) = j
      BY <1>2
    <2>2. Len(plan) - j \in back
      BY <2>1
    <2>. QED  BY <1>2, <1>4, <2>2
  <1>. HIDE DEF k, back
  <1>7. plan[k] \in graph.planned /\ plan[k] \in graph.nodes
    BY <1>1, <1>5
  <1>8. PICK s \in graph.nodes : plan[k] \in Outgoing(graph, s)
    BY <1>5, <1>7 DEF Roots
  <1>9. s \in graph.planned
    BY <1>8, EdgesLeadToNodes
  <1>10. PICK j \in DOMAIN plan : plan[j] = s
    BY <1>1, <1>9 DEF Placed
  <1>11. PICK i \in DOMAIN graph.deps[s] : graph.deps[s][i] = plan[k]
    BY <1>8, <1>9 DEF Outgoing, Edges
  <1>12. i \in PlannedEdges(graph, plan[j])
    BY <1>7, <1>10, <1>11 DEF PlannedEdges
  <1>13. PICK l \in 1 .. j - 1 : plan[l] = plan[k]
    BY <1>1, <1>10, <1>11, <1>12
  <1>14. l = k /\ k < j
    BY <1>1, <1>2, <1>5, <1>10, <1>13
  <1>15. s \in visited
    BY <1>6, <1>10, <1>14
  <1>. QED  BY <1>5, <1>8, <1>15

\* A sequence of one.
LEMMA Singleton ==
  ASSUME NEW S, NEW t \in S
  PROVE  <<t>> \in Seq(S) /\ Len(<<t>>) = 1 /\ <<t>>[1] = t /\ <<t>> # << >>
  OBVIOUS

\* A path of one root, and a path extended by an edge.
LEMMA PathsGrow ==
  /\ \A t \in Roots : IsPath(<<t>>) /\ Last(<<t>>) = t
  /\ \A p : \A t \in graph.nodes : IsPath(p) /\ t \in Outgoing(graph, Last(p)) =>
       IsPath(Append(p, t)) /\ Last(Append(p, t)) = t
  <1>1. ASSUME NEW t \in Roots PROVE IsPath(<<t>>) /\ Last(<<t>>) = t
    <2>1. t \in graph.nodes
      BY <1>1 DEF Roots
    <2>2. /\ <<t>> \in Seq(graph.nodes) /\ <<t>> # << >> /\ Len(<<t>>) = 1 /\ <<t>>[1] = t
      BY <2>1, Singleton
    <2>3. \A i \in 1 .. Len(<<t>>) - 1 : FALSE
      OBVIOUS
    <2>. QED  BY <1>1, <2>2, <2>3 DEF IsPath, Last
  <1>2. ASSUME NEW p, NEW t \in graph.nodes, IsPath(p), t \in Outgoing(graph, Last(p))
        PROVE  IsPath(Append(p, t)) /\ Last(Append(p, t)) = t
    <2>1. /\ p \in Seq(graph.nodes) /\ p # << >> /\ p[1] \in Roots
          /\ \A i \in 1 .. Len(p) - 1 : p[i + 1] \in Outgoing(graph, p[i])
      BY <1>2 DEF IsPath
    <2>. DEFINE q == Append(p, t)
    <2>2. /\ q \in Seq(graph.nodes) /\ Len(q) = Len(p) + 1 /\ Len(p) \in Nat
          /\ DOMAIN p = 1 .. Len(p) /\ \A i \in 1 .. Len(p) : q[i] = p[i]
          /\ q[Len(p) + 1] = t
      BY <2>1, Pushed
    <2>3. Len(p) # 0
      BY <2>1
    <2>. HIDE DEF q
    <2>4. q # << >> /\ q[1] \in Roots /\ Last(q) = t
      BY <2>1, <2>2, <2>3 DEF Last
    <2>5. ASSUME NEW i \in 1 .. Len(q) - 1 PROVE q[i + 1] \in Outgoing(graph, q[i])
      <3>1. CASE i = Len(p)
        BY <1>2, <2>2, <2>3, <3>1 DEF Last
      <3>2. CASE i \in 1 .. Len(p) - 1
        BY <2>1, <2>2, <3>2
      <3>3. i = Len(p) \/ i \in 1 .. Len(p) - 1
        <4>1. i \in 1 .. Len(p)
          BY <2>2, <2>5
        <4>. QED  BY <2>2, <4>1
      <3>. QED  BY <3>1, <3>2, <3>3
    <2>. QED  BY <2>2, <2>4, <2>5 DEF IsPath, q
  <1>. QED  BY <1>1, <1>2

\* The nodes of an analyzed graph are finitely many naturals.
LEMMA NodesRanked ==
  ASSUME BuildInv, SearchInv, phase \in Analyzed, NEW S \in SUBSET graph.nodes
  PROVE  S \in SUBSET Nat /\ IsFiniteSet(S)
  <1>1. catalog \in Catalogs /\ DOMAIN satisfied \subseteq Types
        /\ graph = Resolve(catalog, satisfied, decisions)
    BY AnalyzedIsStatic DEF Static
  <1>2. graph.nodes \subseteq Nat /\ IsFiniteSet(graph.nodes)
    BY <1>1, NodesAreTypes
  <1>. QED  BY <1>2, FS_Subset

\* A constructor that fails starts the search at the roots.
LEMMA FailureStartsSearch ==
  ASSUME BuildInv, SearchInv, ExplainInv, ConstructFails
  PROVE  ExplainInv'
  <1>1. /\ phase = "constructing" /\ constructed < Len(plan)
        /\ UNCHANGED <<constructed, plan, graph, path>>
        /\ \/ /\ phase' = "explaining"
              /\ queue' = SingletonPaths(Roots) /\ visited' = Roots
           \/ phase' = "done" /\ \A s \in graph.nodes : NextStep \notin Outgoing(graph, s)
    BY DEF ConstructFails, Constructing, ConstructUnchanged, Explain, graphVars, planVars
  <1>2. path' = << >>
    BY <1>1 DEF ExplainInv
  <1>3. NextStep' = NextStep /\ Roots' = Roots
    BY <1>1 DEF NextStep, Roots
  <1>4. CASE phase' = "done"
    BY <1>1, <1>2, <1>3, <1>4 DEF ExplainInv, FailureIsExplained
  <1>5. CASE phase' = "explaining"
    <2>1. Roots \subseteq graph.nodes
      BY DEF Roots
    <2>. DEFINE n == Cardinality(Roots)
    <2>2. /\ n \in Nat /\ \A i \in 1 .. n : Ith(Roots, i) \in Roots
          /\ \A t \in Roots : \E i \in 1 .. n : Ith(Roots, i) = t
      <3>1. Roots \in SUBSET Nat /\ IsFiniteSet(Roots)
        BY <1>1, <2>1, NodesRanked DEF Analyzed
      <3>. QED  BY <3>1, Ranked
    <2>. HIDE DEF n
    <2>3. queue' = [i \in 1 .. n |-> <<Ith(Roots, i)>>]
      BY <1>1, <1>5 DEF SingletonPaths, n
    <2>4. \A i \in 1 .. n : queue'[i] \in Seq(graph.nodes) /\ IsPath(queue'[i])
      BY <2>1, <2>2, <2>3, PathsGrow DEF IsPath
    <2>5. queue' \in Seq(Seq(graph.nodes)) /\ DOMAIN queue' = 1 .. n
      <3>1. queue' = [i \in 1 .. n |-> queue'[i]]
        BY <2>3
      <3>. QED  BY <2>2, <2>4, <3>1, IsSequence
    <2>6. \A t \in Roots : Awaited(queue', t)
      BY <2>2, <2>3, <2>5, PathsGrow DEF Awaited
    <2>. QED  BY <1>1, <1>2, <1>3, <1>5, <2>4, <2>5, <2>6
              DEF ExplainInv, FailureIsExplained, IsPath, Awaited
  <1>. QED  BY <1>1, <1>4, <1>5

\* A step of it extends the first path by what it leads to that was not seen.
LEMMA ExplainStepPreserves ==
  ASSUME BuildInv, SearchInv, ExplainInv, ExplainStep
  PROVE  ExplainInv'
  <1>. DEFINE head == Head(queue)
              new  == Outgoing(graph, Last(head)) \ visited
              n    == Cardinality(new)
              more == [i \in 1 .. n |-> Append(head, Ith(new, i))]
  <1>1. /\ phase = "explaining" /\ phase' = "explaining" /\ queue # << >>
        /\ Last(head) # NextStep
        /\ visited' = visited \cup new /\ queue' = Tail(queue) \o more
        /\ UNCHANGED <<constructed, plan, graph, path>>
    BY DEF ExplainStep, ExplainUnchanged, graphVars, planVars, progressVars
  <1>2. /\ path = << >> /\ constructed < Len(plan) /\ queue \in Seq(Seq(graph.nodes))
        /\ \A i \in DOMAIN queue : IsPath(queue[i])
        /\ Roots \subseteq visited
        /\ \A t \in visited :
             Awaited(queue, t) \/ (t # NextStep /\ Outgoing(graph, t) \subseteq visited)
    BY <1>1 DEF ExplainInv
  <1>3. NextStep' = NextStep /\ Roots' = Roots
    BY <1>1 DEF NextStep, Roots
  <1>4. /\ Len(queue) \in Nat \ {0} /\ DOMAIN queue = 1 .. Len(queue) /\ head = queue[1]
        /\ Tail(queue) \in Seq(Seq(graph.nodes)) /\ Len(Tail(queue)) = Len(queue) - 1
        /\ \A i \in 1 .. Len(queue) - 1 : Tail(queue)[i] = queue[i + 1]
    BY <1>1, <1>2
  <1>5. IsPath(head)
    BY <1>2, <1>4
  <1>. HIDE DEF head
  <1>6. new \subseteq graph.nodes
    BY EdgesLeadToNodes
  <1>7. /\ n \in Nat /\ \A i \in 1 .. n : Ith(new, i) \in new
        /\ \A t \in new : \E i \in 1 .. n : Ith(new, i) = t
    <2>. HIDE DEF new
    <2>1. new \in SUBSET Nat /\ IsFiniteSet(new)
      BY <1>1, <1>6, NodesRanked DEF Analyzed
    <2>. QED  BY <2>1, Ranked
  <1>8. new \subseteq Outgoing(graph, Last(head)) /\ Outgoing(graph, Last(head)) \subseteq visited'
    BY <1>1
  <1>. HIDE DEF new, n
  <1>9. \A i \in 1 .. n : IsPath(more[i]) /\ Last(more[i]) = Ith(new, i)
    BY <1>5, <1>6, <1>7, <1>8, PathsGrow
  <1>10. more \in Seq(Seq(graph.nodes)) /\ Len(more) = n /\ DOMAIN more = 1 .. n
    <2>1. more = [i \in 1 .. n |-> more[i]]
      OBVIOUS
    <2>. HIDE DEF more
    <2>2. \A i \in 1 .. n : more[i] \in Seq(graph.nodes)
      BY <1>9 DEF IsPath
    <2>. QED  BY <1>7, <2>1, <2>2, IsSequence
  <1>11. \A t \in new : \E i \in 1 .. n : Last(more[i]) = t
    BY <1>7, <1>9
  <1>. HIDE DEF more
  <1>. DEFINE m == Len(queue) - 1
  <1>12. /\ queue' \in Seq(Seq(graph.nodes)) /\ DOMAIN queue' = 1 .. m + n
         /\ \A i \in 1 .. m + n : queue'[i] = IF i <= m THEN Tail(queue)[i] ELSE more[i - m]
    BY <1>1, <1>4, <1>10, Joined
  <1>13. m \in Nat /\ \A i \in 1 .. m : i \in 1 .. m + n /\ queue'[i] = queue[i + 1]
    <2>1. m \in Nat
      BY <1>4
    <2>. SUFFICES ASSUME NEW i \in 1 .. m PROVE i \in 1 .. m + n /\ queue'[i] = queue[i + 1]
      BY <2>1
    <2>2. Tail(queue)[i] = queue[i + 1]
      BY <1>4
    <2>. HIDE DEF m
    <2>3. i \in 1 .. m + n /\ i <= m
      BY <1>7, <2>1
    <2>. QED  BY <1>12, <2>2, <2>3
  <1>14. \A i \in 1 .. n : i + m \in 1 .. m + n /\ queue'[i + m] = more[i]
    <2>. SUFFICES ASSUME NEW i \in 1 .. n
                  PROVE  i + m \in 1 .. m + n /\ queue'[i + m] = more[i]
      OBVIOUS
    <2>1. i + m \in 1 .. m + n /\ ~ (i + m <= m) /\ (i + m) - m = i
      BY <1>7, <1>13
    <2>. HIDE DEF m
    <2>. QED  BY <1>12, <2>1
  <1>15. \A i \in 1 .. m + n : IsPath(queue'[i])
    <2>. SUFFICES ASSUME NEW i \in 1 .. m + n PROVE IsPath(queue'[i])
      OBVIOUS
    <2>1. CASE i \in 1 .. m
      <3>1. i + 1 \in DOMAIN queue
        BY <1>4, <2>1
      <3>. QED  BY <1>2, <1>13, <2>1, <3>1
    <2>2. CASE i \notin 1 .. m
      <3>1. i - m \in 1 .. n /\ queue'[i] = more[i - m]
        BY <1>7, <1>12, <1>13, <2>2
      <3>. QED  BY <1>9, <3>1
    <2>. QED  BY <2>1, <2>2
  <1>16. ASSUME NEW t \in visited'
         PROVE  Awaited(queue', t) \/ (t # NextStep /\ Outgoing(graph, t) \subseteq visited')
    <2>1. CASE t \in new
      <3>1. PICK i \in 1 .. n : Last(more[i]) = t
        BY <1>11, <2>1
      <3>. QED  BY <1>12, <1>14, <3>1 DEF Awaited
    <2>2. CASE t \in visited /\ t # NextStep /\ Outgoing(graph, t) \subseteq visited
      BY <1>1, <2>2
    <2>3. CASE t \in visited /\ Awaited(queue, t)
      <3>1. PICK i \in DOMAIN queue : Last(queue[i]) = t
        BY <2>3 DEF Awaited
      <3>2. CASE i = 1
        BY <1>1, <1>4, <1>8, <3>1, <3>2
      <3>3. CASE i # 1
        <4>1. i - 1 \in 1 .. m /\ queue'[i - 1] = queue[i]
          BY <1>4, <1>13, <3>1, <3>3
        <4>. QED  BY <1>12, <1>13, <3>1, <4>1 DEF Awaited
      <3>. QED  BY <3>2, <3>3
    <2>. QED  BY <1>1, <1>2, <1>16, <2>1, <2>2, <2>3
  <1>17. \A i \in DOMAIN queue' : IsPath(queue'[i])
    BY <1>12, <1>15
  <1>. QED  BY <1>1, <1>2, <1>3, <1>12, <1>16, <1>17
            DEF ExplainInv, FailureIsExplained, IsPath, Awaited

\* It ends at the failing step, and does not run dry before.
LEMMA ExplainEndPreserves ==
  ASSUME BuildInv, Complete, ExplainInv, ExplainEnd
  PROVE  ExplainInv'
  <1>1. /\ phase = "explaining" /\ phase' = "done"
        /\ UNCHANGED <<constructed, plan, graph>>
        /\ \/ queue = << >>
           \/ queue # << >> /\ Last(Head(queue)) = NextStep /\ path' = Head(queue)
    BY DEF ExplainEnd, ExplainUnchanged, graphVars, planVars, progressVars
  <1>2. /\ constructed < Len(plan) /\ queue \in Seq(Seq(graph.nodes))
        /\ \A i \in DOMAIN queue : IsPath(queue[i])
        /\ Roots \subseteq visited
        /\ \A t \in visited :
             Awaited(queue, t) \/ (t # NextStep /\ Outgoing(graph, t) \subseteq visited)
    BY <1>1 DEF ExplainInv
  <1>3. queue # << >>
    <2>. SUFFICES ASSUME queue = << >> PROVE FALSE
      OBVIOUS
    <2>1. \A t : ~ Awaited(queue, t)
      BY DEF Awaited
    <2>. QED  BY <1>1, <1>2, <2>1, SearchIsComplete
  <1>4. 1 \in DOMAIN queue /\ Head(queue) = queue[1]
    BY <1>2, <1>3
  <1>5. IsPath(path') /\ Last(path') = NextStep
    BY <1>1, <1>2, <1>3, <1>4
  <1>6. NextStep' = NextStep /\ Roots' = Roots
    BY <1>1 DEF NextStep, Roots
  <1>. QED  BY <1>1, <1>5, <1>6 DEF ExplainInv, FailureIsExplained, IsPath

\* Every other step leaves it alone.
LEMMA ExplainInvPreserved ==
  ASSUME BuildInv, SearchInv, EndInv, Complete, ExplainInv, [BuildNext]_buildVars
  PROVE  ExplainInv'
  <1>. USE DEF Finish, graphVars, planVars, pathVars, progressVars
  <1>1. CASE ConstructFails
    BY <1>1, FailureStartsSearch
  <1>2. CASE ExplainStep
    BY <1>2, ExplainStepPreserves
  <1>3. CASE ExplainEnd
    BY <1>3, ExplainEndPreserves
  <1>4. CASE Ended \/ UNCHANGED buildVars
    BY <1>4 DEF Ended, buildVars, ExplainInv, FailureIsExplained, NextStep, Roots, IsPath, Awaited
  <1>5. ASSUME phase \notin {"explaining", "done"}, path' = path, phase' # "explaining",
               outcome' \notin {"constructor", "unresolved"}
        PROVE  ExplainInv'
    BY <1>5 DEF ExplainInv, FailureIsExplained
  <1>0. phase \notin {"explaining", "done"} => outcome = "none"
    BY DEF EndInv
  <1>6. CASE \E t \in Types : Provide(t) \/ Construct(t)
    BY <1>0, <1>5, <1>6 DEF Provide, Construct
  <1>7. CASE Analyze
    BY <1>0, <1>5, <1>7 DEF Analyze
  <1>8. CASE SearchRoot \/ SearchDependency \/ SearchLeave
    BY <1>0, <1>5, <1>8 DEF SearchRoot, SearchDependency, SearchLeave, Searching, SearchUnchanged
  <1>9. CASE SearchEnd
    BY <1>0, <1>5, <1>9 DEF SearchEnd, Searching
  <1>10. CASE PlanStep \/ PlanEnd
    BY <1>0, <1>5, <1>10 DEF PlanStep, PlanEnd
  <1>11. CASE ApplyDefault \/ ApplyEnd
    BY <1>0, <1>5, <1>11 DEF ApplyDefault, ApplyEnd, InsertErased
  <1>12. CASE ConstructStep \/ DropBuild \/ BuildEnd
    BY <1>0, <1>5, <1>12 DEF ConstructStep, DropBuild, BuildEnd, InsertErased, Constructing
  <1>. QED  BY <1>1, <1>2, <1>3, <1>4, <1>6, <1>7, <1>8, <1>9, <1>10, <1>11, <1>12 DEF BuildNext

-----------------------------------------------------------------------------
\* For every catalog: build() goes on exactly when the declarations can be
\* built, a built application is what they declare, and the path reported with
\* a failed constructor is one.
THEOREM BuildFaithful == BuildSpec => []BuildIsFaithful
  <1>. DEFINE FaithInv == SearchInv /\ EndInv /\ Complete /\ ExplainInv
  <1>1. BuildInit => FaithInv
    <2>. SUFFICES ASSUME BuildInit PROVE EndInv /\ Complete /\ ExplainInv
      BY SearchInitEstablishes
    <2>1. phase = "open" /\ outcome = "none" /\ path = << >>
      BY DEF BuildInit
    <2>. QED  BY <2>1 DEF EndInv, BuiltFromDeclarations, Complete, Accepted, ExplainInv,
                          FailureIsExplained
  <1>2. BuildInv /\ BuildInv' /\ FaithInv /\ [BuildNext]_buildVars => FaithInv'
    <2>1. BuildInv' => InsertionNeverCollides'
      BY DEF BuildInv
    <2>. QED  BY <2>1, SearchStepPreserves, EndStepPreserves, ExplainInvPreserved
  <1>3. BuildInv /\ FaithInv => BuildIsFaithful
    <2>. SUFFICES ASSUME BuildInv, FaithInv PROVE BuildIsFaithful
      OBVIOUS
    <2>1. phase \in {"applying", "constructing"} => Buildable
      BY OrderedIsBuildable DEF Complete, SearchInv, Accepted
    <2>2. outcome = "rejected" => ~ Buildable
      BY DEF EndInv
    <2>. QED  BY <2>1, <2>2 DEF EndInv, ExplainInv, AcceptsExactlyBuildable, BuildIsFaithful
  <1>. QED  BY <1>1, <1>2, <1>3, BuildInvariance, PTL DEF BuildSpec
=============================================================================
