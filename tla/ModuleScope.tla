----------------------------- MODULE ModuleScope -----------------------------
(***************************************************************************)
(* The analysis of a rooted build (MadsBuilder::analyze_builder): the      *)
(* import graph of the root module (graph/module.rs), the providers in its *)
(* scope (graph/scope.rs), the defaults decided on that scope, the         *)
(* selection once more with their outputs, and the diagnostics.            *)
(*                                                                         *)
(* It is one synchronous call; its recursion and its work queue are steps  *)
(* here. What is linked into the program and what the application holds    *)
(* before build() is fixed, and any member of Programs.                    *)
(***************************************************************************)
EXTENDS ProviderGraph, SequencesExt

CONSTANTS
  Modules,    \* the types of modules
  Programs    \* what can be linked: [root, modules, providers, repeated, held]

NoModule == 0

\* A Rust path, segment by segment; metadata without a namespace has none.
NoNamespace == << >>
Namespace == Seq(Nat)

\* ModuleDescriptor and ProviderDescriptor; the place is the source location.
ModuleDeclaration ==
  [type : Modules, place : Nat, namespace : Namespace, imports : Seq(Modules)]
OwnedDeclaration ==
  [type : Types, place : Nat, deps : Seq(Types), namespace : Namespace, public : BOOLEAN]

ASSUME ModulesAssumption == Modules \subseteq Nat \ {NoModule}

ASSUME ProgramsAssumption ==
  \A p \in Programs : /\ p.root \in Modules
                      /\ p.modules \subseteq ModuleDeclaration /\ IsFiniteSet(p.modules)
                      /\ p.providers \subseteq OwnedDeclaration /\ IsFiniteSet(p.providers)
                      /\ p.repeated \subseteq p.providers
                      /\ p.held \subseteq Types

VARIABLES
  phase,      \* where analyze_builder() is
  program,    \* Catalog::modules(), Catalog::providers(), root, satisfied types
  calls,      \* the calls of visit() in progress: module, imports handled
  visited,    \* BuildState.visited
  nodes,      \* BuildState.modules
  imports,    \* BuildState.imports: importer and imported
  problem,    \* why the import graph was refused
  work,       \* select_scoped_providers: items queued
  processed,  \* items done
  refused,    \* boundary failures: the requesting context and the provider
  initial,    \* the providers of the first selection
  decisions   \* auto-configuration descriptor -> its status

moduleVars == <<calls, visited, nodes, imports, problem>>
selectVars == <<work, processed, refused>>
scopeVars  == <<phase, program, moduleVars, selectVars, initial, decisions>>

Phases == {"importing", "scoping", "rescoping", "analyzed", "rejected"}
ModuleProblems == {"none", "missing", "ambiguous", "no_namespace",
                   "namespace_conflict", "duplicate_import", "cycle"}

Item == [provider : OwnedDeclaration, context : Modules]

-----------------------------------------------------------------------------
(***************************************************************************)
(* build_module_graph().                                                   *)
(***************************************************************************)
Declared(m) == {d \in program.modules : d.type = m}
TheModule(m) == CHOOSE d \in program.modules : d.type = m

\* `validate_unique_namespace`: in the whole catalog, imported or not.
NamespaceConflict(d) ==
  \E other \in program.modules : other.type # d.type /\ other.namespace = d.namespace

\* What require_descriptor, ensure_node, validate_unique_namespace and
\* validate_duplicate_direct_imports say of a module, in that order.
ModuleProblem(m) ==
  LET d == TheModule(m) IN
  IF Declared(m) = {} THEN "missing"
  ELSE IF Cardinality(Declared(m)) > 1 THEN "ambiguous"
  ELSE IF d.namespace = NoNamespace THEN "no_namespace"
  ELSE IF NamespaceConflict(d) THEN "namespace_conflict"
  ELSE IF ~ IsInjective(d.imports) THEN "duplicate_import"
  ELSE "none"

Visiting(m) == \E i \in DOMAIN calls : calls[i].module = m

Refuse(reason) ==
  /\ phase' = "rejected" /\ problem' = reason
  /\ UNCHANGED <<calls, visited, nodes, imports>>

\* The beginning of visit() for a module not visited, called by the frames.
Enter(m, frames) ==
  /\ visited' = visited \cup {m}
  /\ nodes' = Append(nodes, m)
  /\ calls' = Append(frames, [module |-> m, done |-> 0])

VisitRoot ==
  /\ phase = "importing" /\ visited = {}
  /\ IF ModuleProblem(program.root) = "none"
     THEN Enter(program.root, calls) /\ UNCHANGED <<phase, imports, problem>>
     ELSE Refuse(ModuleProblem(program.root))
  /\ UNCHANGED <<program, selectVars, initial, decisions>>

PushEdge(importer, imported) == imports' = Append(imports, <<importer, imported>>)

\* One iteration of the loop over the imports of the module on top.
Import ==
  /\ phase = "importing" /\ calls # << >>
  /\ LET top == Len(calls)
         importer == calls[top].module
         direct == TheModule(importer).imports
         imported == direct[calls[top].done + 1]
         frames == [calls EXCEPT ![top].done = @ + 1]
     IN  /\ calls[top].done < Len(direct)
         /\ IF ModuleProblem(imported) # "none" THEN Refuse(ModuleProblem(imported))
            ELSE IF Visiting(imported) THEN Refuse("cycle")
            ELSE /\ PushEdge(importer, imported)
                 /\ UNCHANGED <<phase, problem>>
                 /\ IF imported \in visited
                    THEN calls' = frames /\ UNCHANGED <<visited, nodes>>
                    ELSE Enter(imported, frames)
  /\ UNCHANGED <<program, selectVars, initial, decisions>>

Leave ==
  /\ phase = "importing" /\ calls # << >>
  /\ Last(calls).done = Len(TheModule(Last(calls).module).imports)
  /\ calls' = Front(calls)
  /\ UNCHANGED <<phase, program, visited, nodes, imports, problem, selectVars, initial,
                 decisions>>

-----------------------------------------------------------------------------
(***************************************************************************)
(* select_scoped_providers().                                              *)
(***************************************************************************)
Reached(m) == m \in Range(nodes)
DirectlyImports(m, n) == <<m, n>> \in Range(imports)

\* `namespace_contains`, and `owner_of`: the longest namespace wins.
NamespaceContains(parent, child) == parent # NoNamespace /\ IsPrefix(parent, child)

Owner(p) ==
  LET owners == {d \in program.modules : NamespaceContains(d.namespace, p.namespace)} IN
  IF owners = {} THEN NoModule
  ELSE (CHOOSE d \in owners : \A e \in owners : Len(e.namespace) <= Len(d.namespace)).type

CanAccess(context, p) ==
  Owner(p) = context \/ (p.public /\ DirectlyImports(context, Owner(p)))

\* What the application holds, and what the defaults will provide.
Satisfied == [t \in program.held |-> "provided"]
Available == program.held \cup Outputs(Selected(decisions))

Candidates(t) == {p \in program.providers : p.type = t}

\* Seeded fault: an unowned provider speaks for the root module.
ContextOfUnownedRoot(context, p) ==
  IF Owner(p) = NoModule THEN program.root ELSE Owner(p)

\* An unowned provider keeps the requesting context.
ContextOf(context, p) == IF Owner(p) = NoModule THEN context ELSE Owner(p)

Admissible(context, t) ==
  {[provider |-> p, context |-> ContextOf(context, p)] :
     p \in {q \in Candidates(t) : Owner(q) = NoModule \/ CanAccess(context, q)}}

Requested(item) == Range(item.provider.deps) \ Available

\* Declarations of a requested type none of which may be used.
Inaccessible(item) ==
  UNION {Candidates(t) : t \in {u \in Requested(item) : Admissible(item.context, u) = {}}}

\* Work starts at the providers that reachable modules own.
OwnedItems(available) ==
  {[provider |-> p, context |-> Owner(p)] :
     p \in {q \in program.providers : q.type \notin available /\ Reached(Owner(q))}}

StartScope ==
  /\ phase = "importing" /\ visited # {} /\ calls = << >>
  /\ phase' = "scoping"
  /\ work' = OwnedItems(program.held)
  /\ UNCHANGED <<program, moduleVars, processed, refused, initial, decisions>>

\* The order of the queue is only seen in the order of diagnostics.
SelectNext ==
  LET item == CHOOSE i \in work : TRUE IN
  /\ phase \in {"scoping", "rescoping"} /\ work # {}
  /\ processed' = processed \cup {item}
  /\ work' = (work \cup UNION {Admissible(item.context, t) : t \in Requested(item)})
             \ processed'
  /\ refused' = refused \cup {[context |-> item.context, provider |-> p] :
                                p \in Inaccessible(item)}
  /\ UNCHANGED <<phase, program, moduleVars, initial, decisions>>

InScope == {i.provider : i \in processed}
Catalog == [declared |-> InScope, repeated |-> program.repeated \cap InScope]

\* The defaults are decided on the scope; then the selection starts again
\* with what they will provide.
DecideDefaults ==
  /\ phase = "scoping" /\ work = {}
  /\ \E evaluated \in [Defaults -> Statuses] :
       /\ \A d \in Defaults : evaluated[d] \in Evaluations(Catalog, Satisfied, d)
       /\ decisions' = Decide(evaluated)
  /\ initial' = InScope
  /\ phase' = "rescoping"
  /\ work' = OwnedItems(program.held \cup Outputs(Selected(decisions')))
  /\ processed' = {} /\ refused' = {}
  /\ UNCHANGED <<program, moduleVars>>

EndScope ==
  /\ phase = "rescoping" /\ work = {}
  /\ phase' = "analyzed"
  /\ UNCHANGED <<program, moduleVars, selectVars, initial, decisions>>

-----------------------------------------------------------------------------
(***************************************************************************)
(* The diagnostics of the analysis, but for the cycles of providers.       *)
(***************************************************************************)
Graph == Resolve(Catalog, Satisfied, decisions)

\* Seeded fault: every requirement nothing is selected for counts as covered.
CoveredAll ==
  CoveredMissing([Catalog EXCEPT !.declared = initial], decisions)
    \cup UNION {Requested(i) : i \in processed}

\* Requirements that a failed default or a boundary failure is reported for.
Covered ==
  CoveredMissing([Catalog EXCEPT !.declared = initial], decisions)
    \cup {r.provider.type : r \in refused}

Diagnostics ==
       {<<"MADS001", p.type>> : p \in Catalog.repeated}
  \cup {<<"MADS002", t>> : t \in Ambiguous(Catalog)}
  \cup {<<"MADS003", t>> : t \in Missing(Catalog, Graph, Covered)}
  \cup {<<"MADS007", d.output>> : d \in Failed(decisions)}
  \cup {<<"MADS009", r.provider.type>> : r \in refused}

Accepted == phase = "analyzed" /\ Diagnostics = {}

-----------------------------------------------------------------------------
ScopeInit ==
  /\ program \in Programs
  /\ phase = "importing"
  /\ calls = << >> /\ visited = {} /\ nodes = << >> /\ imports = << >> /\ problem = "none"
  /\ work = {} /\ processed = {} /\ refused = {} /\ initial = {}
  /\ decisions = [d \in Defaults |-> "skipped"]

Ended == phase \in {"analyzed", "rejected"} /\ UNCHANGED scopeVars

ScopeNext ==
  \/ VisitRoot \/ Import \/ Leave \/ StartScope \/ SelectNext
  \/ DecideDefaults \/ EndScope \/ Ended

ScopeSpec == ScopeInit /\ [][ScopeNext]_scopeVars

-----------------------------------------------------------------------------
\* Traversal and selection keep their types, and a context is always a module
\* of the graph: boundary_error() looks it up there and would panic.
ScopeTypeOK ==
  /\ phase \in Phases
  /\ calls \in Seq([module : Modules, done : Nat])
  /\ visited \subseteq Modules
  /\ nodes \in Seq(Modules) /\ imports \in Seq(Modules \X Modules)
  /\ problem \in ModuleProblems
  /\ work \subseteq Item /\ processed \subseteq Item /\ refused \subseteq Item
  /\ \A item \in work \cup processed \cup refused : Reached(item.context)
  /\ initial \subseteq program.providers
  /\ decisions \in [Defaults -> Statuses]

(***************************************************************************)
(* Reference definitions: what the root module imports, directly or not.   *)
(***************************************************************************)
ImportsOf(m) == UNION {Range(d.imports) : d \in Declared(m)}

Closure ==
  {m \in Modules : \A S \in SUBSET Modules :
     (program.root \in S /\ \A n \in S : ImportsOf(n) \subseteq S) => m \in S}

WellFormed ==
  /\ \A m \in Closure : \E d \in program.modules :
       /\ Declared(m) = {d}
       /\ d.namespace # NoNamespace
       /\ \A e \in program.modules : e.namespace = d.namespace => e.type = m
       /\ IsInjective(d.imports)
  /\ \A S \in SUBSET Closure : S # {} => \E m \in S : ImportsOf(m) \cap S = {}

(***************************************************************************)
(* Properties.                                                             *)
(***************************************************************************)
\* The traversal refuses a program exactly if a module it imports is not
\* declared once, has no namespace of its own or names an import twice, or
\* if imports form a cycle (build_module_graph, graph/module.rs). Otherwise
\* the graph has every module imported by the root, directly or not, once, and
\* every direct import of each once, shared imports included.
ImportGraphIsExact ==
  /\ phase = "rejected" => ~WellFormed
  /\ phase \in {"scoping", "rescoping", "analyzed"} =>
    /\ WellFormed
    /\ IsInjective(nodes) /\ Range(nodes) = Closure
    /\ IsInjective(imports)
    /\ Range(imports) = {e \in Closure \X Closure : e[2] \in ImportsOf(e[1])}

\* The providers that can get hold of what p asks for: those p depends on,
\* and, through the unowned among them, those they depend on.
DependsOn(p) == {q \in InScope : q.type \in Range(p.deps)}

Carried(p) ==
  {q \in InScope : \A S \in SUBSET InScope :
     (DependsOn(p) \subseteq S /\ \A r \in S : Owner(r) = NoModule => DependsOn(r) \subseteq S)
       => q \in S}

\* In an accepted program a module uses only its own providers and public
\* ones of modules it imports directly, whatever unowned providers stand in
\* between and whoever else selected them.
BoundariesRespected ==
  Accepted => \A p \in InScope : Owner(p) # NoModule =>
    \A q \in Carried(p) :
      Owner(q) \in {NoModule, Owner(p)} \/ (q.public /\ DirectlyImports(Owner(p), Owner(q)))

\* Every provider that a reachable module owns is in scope unless the type is
\* available already; any other is there only because these require it.
ScopeIsLeast ==
  Accepted =>
    LET Owned == {p \in program.providers : p.type \notin Available /\ Owner(p) \in Closure} IN
    /\ Owned \subseteq InScope
    /\ \A S \in SUBSET InScope :
         (Owned \subseteq S /\ \A p \in S : DependsOn(p) \subseteq S) => S = InScope

\* The defaults are decided on a first selection and change what is available
\* to the second: both select the same providers, so that the decisions were
\* made on the requirements of the graph that is built.
SelectionIsStable == phase = "analyzed" => InScope = initial

\* A requirement nothing in scope provides is diagnosed, as missing, as that
\* of a failed default or as inaccessible, although each of these reports
\* silences another.
AcceptedIsComplete ==
  Accepted => \A p \in InScope : Range(p.deps) \subseteq Graph.nodes

\* The scope is exact: the modules are those the root imports, the providers
\* those they require and no more, and the defaults do not change the selection
\* they were decided on.
ScopeIsExact == ImportGraphIsExact /\ ScopeIsLeast /\ SelectionIsStable

=============================================================================
