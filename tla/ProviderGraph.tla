--------------------------- MODULE ProviderGraph ---------------------------
(***************************************************************************)
(* What `analyze_parts` (graph/analysis.rs) makes of a catalog of provider  *)
(* declarations, of the providers the builder already holds and of the      *)
(* decisions of the auto-configuration pass (auto_configuration/            *)
(* analysis.rs): the resolved graph and the diagnostics.                    *)
(*                                                                          *)
(* A provider is known by the type it produces.  Types are numbers, and     *)
(* their order is the one the code sorts nodes, outgoing edges and ready    *)
(* providers by: name, then origin and location.                            *)
(***************************************************************************)
EXTENDS Naturals, Sequences, FiniteSets

CONSTANTS
  Types,     \* the concrete types providers produce
  Defaults   \* the auto-configuration descriptors: [identifier, output]

ASSUME TypesAssumption == Types \subseteq Nat /\ IsFiniteSet(Types)

ASSUME DefaultsAssumption ==
  Defaults \subseteq [identifier : Nat, output : Types] /\ IsFiniteSet(Defaults)

\* A `ProviderDescriptor`: the place tells two declarations of a type apart,
\* the dependencies are in declaration order and may name a type twice.
Declaration == [type : Types, place : Nat, deps : Seq(Types)]

Statuses == {"active", "failed", "skipped", "overridden"}

Least(S) == CHOOSE x \in S : \A y \in S : x <= y

(***************************************************************************)
(* Auto-configuration decisions.                                            *)
(***************************************************************************)
\* Seeded fault: declared providers do not count.
HasProviderHeld(catalog, satisfied, t) == t \in DOMAIN satisfied

\* `AutoConfigurationContext::has_provider`: the application holds the type
\* already or declares a provider of it.
HasProvider(catalog, satisfied, t) ==
  t \in DOMAIN satisfied \/ \E d \in catalog.declared : d.type = t

\* `requirements` and `has_direct_requirement`: a declaration depends on it.
DirectlyRequired(catalog, t) ==
  \E d \in catalog.declared : \E i \in DOMAIN d.deps : d.deps[i] = t

\* The evaluators are integrations outside the core.  Each leaves the
\* application's own provider alone and may fail on its configuration; a
\* default nobody requires is usually skipped, though HTTP guards can
\* require one that no provider does.
Evaluations(catalog, satisfied, default) ==
  IF HasProvider(catalog, satisfied, default.output)
  THEN {"overridden", "failed"}
  ELSE {"active", "failed"} \cup
       (IF DirectlyRequired(catalog, default.output) THEN {} ELSE {"skipped"})

DuplicateIdentifier(default) ==
  \E other \in Defaults \ {default} : other.identifier = default.identifier

\* Seeded fault: defaults active for one output are all kept.
DecideKeepsRivals(evaluated) ==
  [d \in Defaults |-> IF DuplicateIdentifier(d) THEN "failed" ELSE evaluated[d]]

\* Duplicate identifiers fail unevaluated; then defaults that are active for
\* the same output all fail.  No default wins over another.
Decide(evaluated) ==
  LET unique == [d \in Defaults |->
                   IF DuplicateIdentifier(d) THEN "failed" ELSE evaluated[d]]
      Conflicting(d) == \E other \in Defaults \ {d} :
                          /\ other.output = d.output
                          /\ unique[d] = "active" /\ unique[other] = "active"
  IN  [d \in Defaults |-> IF Conflicting(d) THEN "failed" ELSE unique[d]]

Selected(decisions) == {d \in Defaults : decisions[d] = "active"}
Failed(decisions)   == {d \in Defaults : decisions[d] = "failed"}
Outputs(defaults)   == {d.output : d \in defaults}

\* Requirements whose failed default is diagnosed elsewhere.
CoveredMissing(catalog, decisions) ==
  {t \in Outputs(Failed(decisions)) : DirectlyRequired(catalog, t)}

(***************************************************************************)
(* The resolved graph.                                                      *)
(***************************************************************************)
Ambiguous(catalog) ==
  {t \in Types : Cardinality({d \in catalog.declared : d.type = t}) > 1}

\* Held providers come first, then the declared types nobody holds yet; only
\* the latter are planned, and only planned providers keep dependencies.
Resolve(catalog, satisfied, decisions) ==
  LET held     == DOMAIN satisfied \cup Outputs(Selected(decisions))
      declared == {d.type : d \in catalog.declared}
      nodes    == (held \cup declared) \ Ambiguous(catalog)
      planned  == nodes \ held
  IN  [nodes   |-> nodes,
       planned |-> planned,
       deps    |-> [t \in planned |->
                      (CHOOSE d \in catalog.declared : d.type = t).deps]]

\* The resolved edges of a provider, by position: a type named twice gives
\* two edges, and a dependency without a node gives none.
Edges(graph, t) ==
  IF t \in graph.planned
  THEN {i \in DOMAIN graph.deps[t] : graph.deps[t][i] \in graph.nodes}
  ELSE {}

\* `outgoing`: as the code visits them in name order, a set is enough.
Outgoing(graph, t) == {graph.deps[t][i] : i \in Edges(graph, t)}

\* Seeded fault: planning waits for the first planned dependency only.
PlannedEdgesFirst(graph, t) ==
  LET all == {i \in DOMAIN graph.deps[t] : graph.deps[t][i] \in graph.planned} IN
  {i \in all : \A j \in all : i <= j}

\* Edges between planned providers, the ones planning waits for.
PlannedEdges(graph, t) ==
  {i \in DOMAIN graph.deps[t] : graph.deps[t][i] \in graph.planned}

Missing(catalog, graph, covered) ==
  {t \in Types \ (graph.nodes \cup Ambiguous(catalog) \cup covered) :
     \E p \in graph.planned : \E i \in DOMAIN graph.deps[p] :
       graph.deps[p][i] = t}

\* The diagnostics `analyze_parts` reports before it looks for cycles.
Problems(catalog, graph, decisions) ==
       {<<"MADS001", d.type>> : d \in catalog.repeated}
  \cup {<<"MADS002", t>> : t \in Ambiguous(catalog)}
  \cup {<<"MADS003", t>> :
          t \in Missing(catalog, graph, CoveredMissing(catalog, decisions))}
=============================================================================
