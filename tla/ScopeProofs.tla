---------------------------- MODULE ScopeProofs ----------------------------
(***************************************************************************)
(* Proofs about ModuleScope, for every set of programs: accepted programs  *)
(* keep their boundaries and miss nothing, the import graph and the scope  *)
(* are exact, and the contexts of the selection are modules of the graph.  *)
(***************************************************************************)
EXTENDS ModuleScope, FiniteSetTheorems, TLAPS

(***************************************************************************)
(* The inductive invariant of the selection. An item of an owned provider  *)
(* carries its owner; what an item done may use is done or queued; and an  *)
(* item done that may use no declaration of a type has refused them all.   *)
(***************************************************************************)
Items == work \cup processed

Sound ==
  \A i \in Items : /\ i.provider \in program.providers
                   /\ i.provider.type \notin Available
                   /\ Owner(i.provider) # NoModule => i.context = Owner(i.provider)

Followed ==
  \A i \in processed : \A t \in Requested(i) :
    /\ Admissible(i.context, t) \subseteq Items
    /\ Admissible(i.context, t) = {} =>
         \A p \in Candidates(t) : [context |-> i.context, provider |-> p] \in refused

Quiet ==
  /\ phase \in {"importing", "rejected"} => Items = {}
  /\ phase \in {"importing", "scoping"} => Selected(decisions) = {}
  /\ phase = "analyzed" => work = {}

SelectionInv == program \in Programs /\ Sound /\ Followed /\ Quiet

-----------------------------------------------------------------------------
\* While the program and its import graph stand still, so does visibility.
LEMMA VisibilityStands ==
  ASSUME program' = program, imports' = imports
  PROVE  /\ \A p : Owner(p)' = Owner(p)
         /\ \A c, p : ContextOf(c, p)' = ContextOf(c, p)
         /\ \A t : Candidates(t)' = Candidates(t)
         /\ \A c, t : Admissible(c, t)' = Admissible(c, t)
  <1>1. \A p : Owner(p)' = Owner(p)
    BY DEF Owner
  <1>2. \A c, p : ContextOf(c, p)' = ContextOf(c, p)
    BY <1>1 DEF ContextOf
  <1>3. \A t : Candidates(t)' = Candidates(t)
    BY DEF Candidates
  <1>4. \A c, p : CanAccess(c, p)' = CanAccess(c, p)
    BY <1>1 DEF CanAccess, DirectlyImports
  <1>5. \A c, t : Admissible(c, t)' = Admissible(c, t)
    BY <1>1, <1>2, <1>3, <1>4 DEF Admissible
  <1>. QED  BY <1>1, <1>2, <1>3, <1>5

\* The providers selection starts from are sound whatever is available.
LEMMA OwnedItemsSound ==
  ASSUME NEW available, NEW i \in OwnedItems(available)
  PROVE  /\ i.provider \in program.providers
         /\ i.provider.type \notin available
         /\ i.context = Owner(i.provider)
  BY DEF OwnedItems

\* A new analysis satisfies the invariant.
LEMMA ScopeInitEstablishes == ScopeInit => SelectionInv
  BY DEF ScopeInit, SelectionInv, Sound, Followed, Quiet, Items, Selected

\* One item of the work queue keeps it.
LEMMA SelectNextPreserves ==
  ASSUME SelectionInv, SelectNext
  PROVE  SelectionInv'
  <1>. DEFINE item == CHOOSE i \in work : TRUE
  <1>. DEFINE new == UNION {Admissible(item.context, t) : t \in Requested(item)}
  <1>1. /\ item \in work
        /\ processed' = processed \cup {item}
        /\ work' = (work \cup new) \ processed'
        /\ refused' = refused \cup {[context |-> item.context, provider |-> p] :
                                      p \in Inaccessible(item)}
        /\ program' = program /\ imports' = imports /\ decisions' = decisions
        /\ phase' = phase /\ phase \in {"scoping", "rescoping"}
    BY DEF SelectNext, moduleVars
  <1>. HIDE DEF item
  <1>2. Available' = Available
    BY <1>1 DEF Available
  <1>3. \A i : Requested(i)' = Requested(i)
    BY <1>2 DEF Requested
  <1>4. Items' = Items \cup new
    BY <1>1 DEF Items
  <1>5. Sound'
    <2>1. ASSUME NEW i \in new
          PROVE  /\ i.provider \in program.providers
                 /\ i.provider.type \notin Available
                 /\ Owner(i.provider) # NoModule => i.context = Owner(i.provider)
      <3>1. PICK t \in Requested(item) : i \in Admissible(item.context, t)
        BY <2>1
      <3>2. PICK p \in Candidates(t) :
              i = [provider |-> p, context |-> ContextOf(item.context, p)]
        BY <3>1 DEF Admissible
      <3>. QED  BY <3>1, <3>2 DEF Candidates, ContextOf, Requested
    <2>. QED  BY <1>1, <1>2, <1>4, <2>1, VisibilityStands DEF Sound, SelectionInv
  <1>6. Followed'
    <2>. SUFFICES ASSUME NEW i \in processed', NEW t \in Requested(i)
                  PROVE  /\ Admissible(i.context, t) \subseteq Items'
                         /\ Admissible(i.context, t) = {} =>
                              \A p \in Candidates(t) :
                                [context |-> i.context, provider |-> p] \in refused'
      BY <1>1, <1>3, VisibilityStands DEF Followed
    <2>1. CASE i \in processed
      BY <1>1, <1>4, <2>1 DEF Followed, SelectionInv
    <2>2. CASE i = item
      BY <1>1, <1>4, <2>2 DEF Inaccessible
    <2>. QED  BY <1>1, <2>1, <2>2
  <1>7. Quiet'
    BY <1>1 DEF SelectionInv, Quiet, Selected
  <1>. QED  BY <1>1, <1>5, <1>6, <1>7 DEF SelectionInv

\* The decisions start the selection again.
LEMMA DecidePreserves ==
  ASSUME SelectionInv, DecideDefaults
  PROVE  SelectionInv'
  <1>1. /\ program' = program /\ processed' = {} /\ phase' = "rescoping"
        /\ work' = OwnedItems(program.held \cup Outputs(Selected(decisions')))
    BY DEF DecideDefaults
  <1>2. Available' = program.held \cup Outputs(Selected(decisions'))
    BY <1>1 DEF Available, Selected, Outputs
  <1>3. imports' = imports
    BY DEF DecideDefaults, moduleVars
  <1>4. Sound'
    BY <1>1, <1>2, <1>3, OwnedItemsSound, VisibilityStands DEF Sound, Items
  <1>. QED  BY <1>1, <1>4 DEF SelectionInv, Followed, Quiet

\* Every step of the analysis keeps the invariant.
LEMMA ScopeNextPreserves == SelectionInv /\ [ScopeNext]_scopeVars => SelectionInv'
  <1>. SUFFICES ASSUME SelectionInv, [ScopeNext]_scopeVars PROVE SelectionInv'
    OBVIOUS
  <1>1. CASE VisitRoot \/ Import \/ Leave
    <2>1. /\ program' = program /\ work' = work /\ processed' = processed
          /\ decisions' = decisions /\ phase = "importing"
          /\ phase' \in {"importing", "rejected"}
      BY <1>1 DEF VisitRoot, Import, Leave, Refuse, selectVars
    <2>. QED  BY <2>1 DEF SelectionInv, Sound, Followed, Quiet, Items, Selected
  <1>2. CASE StartScope
    <2>1. /\ program' = program /\ imports' = imports /\ processed' = processed
          /\ decisions' = decisions /\ phase = "importing" /\ phase' = "scoping"
          /\ work' = OwnedItems(program.held)
      BY <1>2 DEF StartScope, moduleVars
    <2>2. processed' = {} /\ Available' = program.held
      BY <2>1 DEF SelectionInv, Quiet, Items, Available, Outputs, Selected
    <2>3. Sound'
      BY <2>1, <2>2, OwnedItemsSound, VisibilityStands DEF Sound, Items
    <2>. QED  BY <2>1, <2>2, <2>3 DEF SelectionInv, Followed, Quiet
  <1>3. CASE SelectNext
    BY <1>3, SelectNextPreserves
  <1>4. CASE DecideDefaults
    BY <1>4, DecidePreserves
  <1>5. CASE EndScope \/ UNCHANGED scopeVars
    <2>1. /\ program' = program /\ imports' = imports /\ work' = work
          /\ processed' = processed /\ refused' = refused /\ decisions' = decisions
      BY <1>5 DEF EndScope, scopeVars, moduleVars, selectVars
    <2>2. Available' = Available /\ Items' = Items /\ \A i : Requested(i)' = Requested(i)
      BY <2>1 DEF Available, Items, Requested
    <2>3. Sound' /\ Followed'
      BY <2>1, <2>2, VisibilityStands DEF SelectionInv, Sound, Followed
    <2>4. Quiet'
      BY <1>5, <2>1, <2>2 DEF SelectionInv, Quiet, EndScope, scopeVars
    <2>. QED  BY <2>1, <2>3, <2>4 DEF SelectionInv
  <1>. QED  BY <1>1, <1>2, <1>3, <1>4, <1>5 DEF ScopeNext, Ended

-----------------------------------------------------------------------------
\* In an accepted program no declaration was refused, no default failed, and
\* no two providers in scope have one type.
LEMMA AcceptedIsUnambiguous ==
  ASSUME SelectionInv, Accepted
  PROVE  /\ refused = {} /\ Failed(decisions) = {}
         /\ \A p \in InScope : p \in program.providers /\ p.type \in Types
         /\ \A p, q \in InScope : p.type = q.type => p = q
  <1>1. \A p \in InScope : p \in program.providers /\ p.type \in Types
    BY ProgramsAssumption DEF InScope, SelectionInv, Sound, Items, OwnedDeclaration
  <1>2. refused = {} /\ Failed(decisions) = {} /\ Ambiguous(Catalog) = {}
    BY DEF Accepted, Diagnostics
  <1>3. ASSUME NEW p \in InScope, NEW q \in InScope, p.type = q.type, p # q
        PROVE  FALSE
    <2>. DEFINE same == {d \in InScope : d.type = p.type}
    <2>1. IsFiniteSet(program.providers) /\ same \subseteq program.providers
      BY <1>1, ProgramsAssumption DEF SelectionInv
    <2>2. IsFiniteSet(same)
      BY <2>1, FS_Subset
    <2>3. ~ (Cardinality(same) > 1)
      <3>1. Catalog.declared = InScope /\ p.type \in Types
        BY <1>1 DEF Catalog
      <3>. QED  BY <1>2, <3>1 DEF Ambiguous
    <2>4. Cardinality(same) \in {0, 1}
      BY <2>2, <2>3, FS_CardinalityType
    <2>5. same = {} \/ \E x : same = {x}
      BY <2>2, <2>4, FS_EmptySet, FS_Singleton
    <2>6. p \in same /\ q \in same
      BY <1>3
    <2>. QED  BY <1>3, <2>5, <2>6
  <1>. QED  BY <1>1, <1>2, <1>3

\* What an item may use directly is in the set the next lemma closes.
LEMMA DependenciesFollowed ==
  ASSUME SelectionInv, Accepted, NEW j \in processed, NEW q \in DependsOn(j.provider)
  PROVE  /\ q \in InScope
         /\ Owner(q) = NoModule =>
              \E k \in processed : k.provider = q /\ k.context = j.context
         /\ Owner(q) # NoModule => CanAccess(j.context, q)
  <1>1. q \in InScope /\ q.type \in Range(j.provider.deps)
    BY DEF DependsOn
  <1>2. q \in program.providers /\ q.type \notin Available
    BY <1>1 DEF InScope, SelectionInv, Sound, Items
  <1>3. q.type \in Requested(j) /\ q \in Candidates(q.type)
    BY <1>1, <1>2 DEF Requested, Candidates
  <1>4. Admissible(j.context, q.type) # {}
    BY <1>3, AcceptedIsUnambiguous DEF SelectionInv, Followed
  <1>5. PICK r \in Candidates(q.type) :
          /\ Owner(r) = NoModule \/ CanAccess(j.context, r)
          /\ [provider |-> r, context |-> ContextOf(j.context, r)]
               \in Admissible(j.context, q.type)
    BY <1>4 DEF Admissible
  <1>. DEFINE k == [provider |-> r, context |-> ContextOf(j.context, r)]
  <1>6. k \in processed
    BY <1>3, <1>5 DEF SelectionInv, Followed, Items, Quiet, Accepted
  <1>7. r = q
    <2>1. r \in InScope
      BY <1>6 DEF InScope
    <2>2. r.type = q.type
      BY DEF Candidates
    <2>. QED  BY <1>1, <2>1, <2>2, AcceptedIsUnambiguous
  <1>. QED  BY <1>1, <1>5, <1>6, <1>7 DEF ContextOf

\* In every reachable state of every program the invariant holds.
THEOREM SelectionInvariance == ScopeSpec => []SelectionInv
  BY ScopeInitEstablishes, ScopeNextPreserves, PTL DEF ScopeSpec

\* An accepted program keeps its module boundaries: whatever chain of unowned
\* providers a module's provider reaches another through, that one is its own,
\* or public in a module it imports directly (select_scoped_providers).
THEOREM BoundariesKept == ScopeSpec => []BoundariesRespected
  <1>1. SelectionInv => BoundariesRespected
    <2>. SUFFICES ASSUME SelectionInv, Accepted, NEW p \in InScope, Owner(p) # NoModule,
                         NEW q \in Carried(p)
                  PROVE  \/ Owner(q) \in {NoModule, Owner(p)}
                         \/ q.public /\ DirectlyImports(Owner(p), Owner(q))
      BY DEF BoundariesRespected
    <2>. DEFINE S == {r \in InScope :
                        \/ /\ Owner(r) = NoModule
                           /\ \E k \in processed : k.provider = r /\ k.context = Owner(p)
                        \/ Owner(r) # NoModule /\ CanAccess(Owner(p), r)}
    <2>1. ASSUME NEW j \in processed, j.context = Owner(p)
          PROVE  DependsOn(j.provider) \subseteq S
      BY <2>1, DependenciesFollowed
    <2>2. PICK i \in processed : i.provider = p /\ i.context = Owner(p)
      BY DEF InScope, SelectionInv, Sound, Items
    <2>3. DependsOn(p) \subseteq S
      BY <2>1, <2>2
    <2>4. \A r \in S : Owner(r) = NoModule => DependsOn(r) \subseteq S
      BY <2>1
    <2>5. S \in SUBSET InScope
      OBVIOUS
    <2>6. q \in S
      BY <2>3, <2>4, <2>5 DEF Carried
    <2>. QED  BY <2>6 DEF CanAccess
  <1>. QED  BY <1>1, SelectionInvariance, PTL

\* An accepted program has a provider for everything its providers require,
\* although boundary failures and failed defaults silence the report of a
\* missing one (analyze_builder, covered_missing).
THEOREM RequirementsMet == ScopeSpec => []AcceptedIsComplete
  <1>1. SelectionInv => AcceptedIsComplete
    <2>. SUFFICES ASSUME SelectionInv, Accepted, NEW p \in InScope, NEW t \in Range(p.deps),
                         t \notin Graph.nodes
                  PROVE  FALSE
      BY DEF AcceptedIsComplete
    <2>1. t \in Types
      BY AcceptedIsUnambiguous, ProgramsAssumption DEF SelectionInv, OwnedDeclaration, Range
    <2>2. Ambiguous(Catalog) = {} /\ Missing(Catalog, Graph, Covered) = {}
      BY DEF Accepted, Diagnostics
    <2>3. Catalog.declared = InScope
      BY DEF Catalog
    <2>4. /\ p.type \in Graph.planned
          /\ Graph.deps[p.type] = p.deps
      <3>1. p.type \notin DOMAIN Satisfied \cup Outputs(Selected(decisions))
        BY DEF SelectionInv, Sound, Items, InScope, Available, Satisfied
      <3>2. p.type \in Graph.planned
        BY <2>2, <2>3, <3>1 DEF Graph, Resolve
      <3>3. (CHOOSE d \in Catalog.declared : d.type = p.type) = p
        BY <2>3, AcceptedIsUnambiguous
      <3>. QED  BY <3>2, <3>3 DEF Graph, Resolve
    <2>5. t \in Covered
      BY <2>1, <2>2, <2>4 DEF Missing, Range
    <2>6. Covered = {}
      BY AcceptedIsUnambiguous DEF Covered, CoveredMissing, Outputs
    <2>. QED  BY <2>5, <2>6
  <1>. QED  BY <1>1, SelectionInvariance, PTL

-----------------------------------------------------------------------------
(***************************************************************************)
(* The traversal of the import graph.  A module in progress is on the stack*)
(* of calls; one that is left has only modules that are left behind it, and*)
(* no cycle among them.  Every import handled is an edge, and is one once. *)
(***************************************************************************)
\* The imports of a module that is declared once.
Direct(m) == TheModule(m).imports

\* Only what the root module imports and nothing is wrong with is visited.
Traversing ==
  /\ calls \in Seq([module : Modules, done : Nat])
  /\ visited \subseteq Modules
  /\ nodes \in Seq(Modules) /\ IsInjective(nodes) /\ Range(nodes) = visited
  /\ imports \in Seq(Modules \X Modules) /\ IsInjective(imports)
  /\ visited # {} => program.root \in visited
  /\ \A m \in visited : m \in Closure /\ ModuleProblem(m) = "none"

\* Each frame but the top one is at the import the next frame is of.
Stacked ==
  /\ \A i \in DOMAIN calls : /\ calls[i].module \in visited
                             /\ calls[i].done <= Len(Direct(calls[i].module))
  /\ \A i, j \in DOMAIN calls : calls[i].module = calls[j].module => i = j
  /\ \A i \in DOMAIN calls : i < Len(calls) =>
       /\ calls[i].done > 0
       /\ Direct(calls[i].module)[calls[i].done] = calls[i + 1].module

\* An import handled: of a module that is left, every one.
Handled(m, k) == \A i \in DOMAIN calls : calls[i].module = m => k <= calls[i].done

Recorded ==
  /\ \A j \in DOMAIN imports : \E m \in visited : \E k \in DOMAIN Direct(m) :
       Handled(m, k) /\ imports[j] = <<m, Direct(m)[k]>>
  /\ \A m \in visited : \A k \in DOMAIN Direct(m) :
       Handled(m, k) => \E j \in DOMAIN imports : imports[j] = <<m, Direct(m)[k]>>

Finished == {m \in visited : ~ Visiting(m)}

\* What is left imports only what is left, in no cycle; so does the handled
\* part of a frame, but for the import in progress.
Left ==
  /\ \A m \in Finished : ImportsOf(m) \subseteq Finished
  /\ \A S \in SUBSET Finished : S # {} => \E m \in S : ImportsOf(m) \cap S = {}
  /\ \A i \in DOMAIN calls : \A k \in 1 .. calls[i].done :
       Direct(calls[i].module)[k] \in Finished \/ (k = calls[i].done /\ i < Len(calls))

ImportInv == Traversing /\ Stacked /\ Recorded /\ Left

\* A program is refused for a fault; one that is not has been traversed.
GraphInv ==
  /\ program \in Programs /\ phase \in Phases
  /\ phase # "rejected" => ImportInv
  /\ phase = "rejected" => ~ WellFormed
  /\ phase \notin {"importing", "rejected"} => calls = << >> /\ visited # {}

-----------------------------------------------------------------------------
\* A sequence over a set.
LEMMA Elements ==
  ASSUME NEW S, NEW s \in Seq(S)
  PROVE  Len(s) \in Nat /\ DOMAIN s = 1 .. Len(s) /\ \A i \in 1 .. Len(s) : s[i] \in S
  OBVIOUS

\* A sequence without elements.
LEMMA NoElements ==
  ASSUME NEW S, NEW s \in Seq(S), 1 .. Len(s) = {}
  PROVE  s = << >>
  <1>1. Len(s) \in Nat
    OBVIOUS
  <1>2. Len(s) = 0
    <2>1. ~ (1 <= Len(s))
      <3>. SUFFICES ASSUME 1 <= Len(s) PROVE FALSE
        OBVIOUS
      <3>1. 1 \in 1 .. Len(s)
        BY <1>1
      <3>. QED  BY <3>1
    <2>. QED  BY <1>1, <2>1
  <1>. QED  BY <1>2

\* A sequence with one element replaced.
LEMMA Replaced ==
  ASSUME NEW S, NEW s \in Seq(S), NEW n \in 1 .. Len(s), NEW x \in S
  PROVE  /\ [s EXCEPT ![n] = x] \in Seq(S) /\ Len([s EXCEPT ![n] = x]) = Len(s)
         /\ DOMAIN [s EXCEPT ![n] = x] = 1 .. Len(s)
         /\ [s EXCEPT ![n] = x][n] = x
         /\ \A i \in 1 .. Len(s) : i # n => [s EXCEPT ![n] = x][i] = s[i]
  OBVIOUS

\* A sequence with an element appended.
LEMMA Pushed ==
  ASSUME NEW S, NEW s \in Seq(S), NEW x \in S
  PROVE  /\ Append(s, x) \in Seq(S) /\ Len(Append(s, x)) = Len(s) + 1 /\ Len(s) \in Nat
         /\ DOMAIN s = 1 .. Len(s) /\ DOMAIN Append(s, x) = 1 .. Len(s) + 1
         /\ \A i \in 1 .. Len(s) : Append(s, x)[i] = s[i]
         /\ Append(s, x)[Len(s) + 1] = x
  OBVIOUS

\* A sequence without its last element.
LEMMA Popped ==
  ASSUME NEW S, NEW s \in Seq(S), s # << >>
  PROVE  /\ Front(s) \in Seq(S) /\ Len(Front(s)) = Len(s) - 1 /\ Len(s) \in Nat \ {0}
         /\ DOMAIN s = 1 .. Len(s) /\ DOMAIN Front(s) = 1 .. Len(s) - 1
         /\ \A i \in 1 .. Len(s) - 1 : Front(s)[i] = s[i]
         /\ Last(s) = s[Len(s)]
  <1>1. /\ Len(s) \in Nat \ {0} /\ Len(s) - 1 \in Nat /\ DOMAIN s = 1 .. Len(s)
        /\ \A i \in 1 .. Len(s) : s[i] \in S
    OBVIOUS
  <1>2. Front(s) = [i \in 1 .. Len(s) - 1 |-> s[i]]
    BY <1>1 DEF Front
  <1>. HIDE DEF Front
  <1>3. Front(s) \in Seq(S) /\ Len(Front(s)) = Len(s) - 1
    BY <1>1, <1>2
  <1>. QED  BY <1>1, <1>2, <1>3 DEF Last

-----------------------------------------------------------------------------
\* Nothing a program says of its modules changes.
LEMMA ModulesStand ==
  ASSUME program' = program
  PROVE  /\ \A m : Declared(m)' = Declared(m)
         /\ \A m : Direct(m)' = Direct(m)
         /\ \A m : ModuleProblem(m)' = ModuleProblem(m)
         /\ \A m : ImportsOf(m)' = ImportsOf(m)
         /\ Closure' = Closure
         /\ WellFormed' = WellFormed
  <1>1. \A m : Declared(m)' = Declared(m)
    BY DEF Declared
  <1>2. \A m : TheModule(m)' = TheModule(m)
    BY DEF TheModule
  <1>3. \A d : NamespaceConflict(d)' = NamespaceConflict(d)
    BY DEF NamespaceConflict
  <1>4. \A m : Direct(m)' = Direct(m)
    BY <1>2 DEF Direct
  <1>5. \A m : ModuleProblem(m)' = ModuleProblem(m)
    BY <1>1, <1>2, <1>3 DEF ModuleProblem
  <1>6. \A m : ImportsOf(m)' = ImportsOf(m)
    BY <1>1 DEF ImportsOf
  <1>7. Closure' = Closure
    BY <1>6 DEF Closure
  <1>8. WellFormed' = WellFormed
    BY <1>1, <1>6, <1>7 DEF WellFormed
  <1>. QED  BY <1>1, <1>4, <1>5, <1>6, <1>7, <1>8

\* A module without a problem is declared once, and its imports are those of
\* that declaration.
LEMMA DeclaredOnce ==
  ASSUME program \in Programs, NEW m, ModuleProblem(m) = "none"
  PROVE  /\ Declared(m) = {TheModule(m)} /\ TheModule(m) \in program.modules
         /\ Direct(m) \in Seq(Modules) /\ IsInjective(Direct(m))
         /\ ImportsOf(m) = Range(Direct(m)) /\ ImportsOf(m) \subseteq Modules
         /\ TheModule(m).namespace # NoNamespace
         /\ ~ NamespaceConflict(TheModule(m))
  <1>1. /\ Declared(m) # {} /\ ~ (Cardinality(Declared(m)) > 1)
        /\ TheModule(m).namespace # NoNamespace /\ ~ NamespaceConflict(TheModule(m))
        /\ IsInjective(Direct(m))
    BY DEF ModuleProblem, Direct
  <1>2. Declared(m) \subseteq program.modules /\ IsFiniteSet(Declared(m))
    BY ProgramsAssumption, FS_Subset DEF Declared
  <1>3. Cardinality(Declared(m)) = 1
    BY <1>1, <1>2, FS_CardinalityType, FS_EmptySet
  <1>4. PICK d : Declared(m) = {d}
    BY <1>2, <1>3, FS_Singleton
  <1>5. TheModule(m) = d
    BY <1>4 DEF TheModule, Declared
  <1>6. d \in program.modules /\ d \in ModuleDeclaration
    BY <1>2, <1>4, ProgramsAssumption
  <1>7. Direct(m) \in Seq(Modules)
    BY <1>5, <1>6 DEF Direct, ModuleDeclaration
  <1>8. ImportsOf(m) = Range(Direct(m))
    BY <1>4, <1>5 DEF ImportsOf, Direct
  <1>9. Range(Direct(m)) \subseteq Modules
    BY <1>7 DEF Range
  <1>. QED  BY <1>1, <1>4, <1>5, <1>6, <1>7, <1>8, <1>9

\* One with a problem, imported directly or not, is a fault of the program.
LEMMA ProblemRefutes ==
  ASSUME program \in Programs, NEW m \in Closure, ModuleProblem(m) # "none"
  PROVE  ~ WellFormed
  <1>. SUFFICES ASSUME WellFormed PROVE FALSE
    OBVIOUS
  <1>1. PICK d \in program.modules :
          /\ Declared(m) = {d}
          /\ d.namespace # NoNamespace
          /\ \A e \in program.modules : e.namespace = d.namespace => e.type = m
          /\ IsInjective(d.imports)
    BY DEF WellFormed
  <1>2. TheModule(m) = d /\ d.type = m
    BY <1>1 DEF TheModule, Declared
  <1>3. Cardinality(Declared(m)) = 1
    BY <1>1, FS_Singleton
  <1>4. ~ NamespaceConflict(d)
    BY <1>1, <1>2 DEF NamespaceConflict
  <1>. QED  BY <1>1, <1>2, <1>3, <1>4 DEF ModuleProblem

\* The root module and what is imported by an imported module is imported.
LEMMA ClosureCloses ==
  ASSUME program \in Programs
  PROVE  /\ program.root \in Closure
         /\ \A m \in Closure : \A n \in ImportsOf(m) \cap Modules : n \in Closure
  BY ProgramsAssumption DEF Closure

\* What every direct import of a sound module is.
LEMMA DirectIsImported ==
  ASSUME program \in Programs, NEW m, ModuleProblem(m) = "none"
  PROVE  \A k \in 1 .. Len(Direct(m)) : /\ Direct(m)[k] \in ImportsOf(m)
                                        /\ Direct(m)[k] \in Modules
  BY DeclaredOnce DEF Range

\* The modules in progress are imported, sound and part-way through.
LEMMA Frames ==
  ASSUME program \in Programs, ImportInv
  PROVE  /\ Len(calls) \in Nat /\ DOMAIN calls = 1 .. Len(calls)
         /\ \A i \in 1 .. Len(calls) :
              /\ calls[i] \in [module : Modules, done : Nat]
              /\ calls[i].module \in Closure \cap visited
              /\ ModuleProblem(calls[i].module) = "none"
              /\ Len(Direct(calls[i].module)) \in Nat
              /\ calls[i].done \in 0 .. Len(Direct(calls[i].module))
  <1>1. calls \in Seq([module : Modules, done : Nat])
    BY DEF ImportInv, Traversing
  <1>2. Len(calls) \in Nat /\ DOMAIN calls = 1 .. Len(calls)
    BY <1>1
  <1>3. \A i \in 1 .. Len(calls) : calls[i] \in [module : Modules, done : Nat]
    BY <1>1, Elements
  <1>4. \A i \in 1 .. Len(calls) :
          /\ calls[i].module \in Closure \cap visited
          /\ ModuleProblem(calls[i].module) = "none"
          /\ calls[i].done <= Len(Direct(calls[i].module))
    BY <1>2 DEF ImportInv, Stacked, Traversing
  <1>5. ASSUME NEW i \in 1 .. Len(calls)
        PROVE  /\ Len(Direct(calls[i].module)) \in Nat
               /\ calls[i].done \in 0 .. Len(Direct(calls[i].module))
    <2>1. Direct(calls[i].module) \in Seq(Modules)
      BY <1>4, DeclaredOnce
    <2>. QED  BY <1>3, <1>4, <2>1
  <1>. QED  BY <1>2, <1>3, <1>4, <1>5

\* An import of a module in progress closes a cycle.
LEMMA CycleRefutes ==
  ASSUME program \in Programs, ImportInv, calls # << >>,
         NEW n, n \in ImportsOf(calls[Len(calls)].module), Visiting(n)
  PROVE  ~ WellFormed
  <1>1. PICK s \in 1 .. Len(calls) : calls[s].module = n
    BY Frames DEF Visiting
  <1>. DEFINE S == {m \in Closure : \E i \in 1 .. Len(calls) : i >= s /\ m = calls[i].module}
  <1>2. ASSUME NEW i \in 1 .. Len(calls), i >= s
        PROVE  calls[i].module \in S
    BY <1>2, Frames
  <1>3. n \in S
    BY <1>1, <1>2
  <1>4. ASSUME NEW i \in 1 .. Len(calls), i >= s
        PROVE  ImportsOf(calls[i].module) \cap S # {}
    <2>1. CASE i = Len(calls)
      BY <1>3, <2>1
    <2>2. CASE i # Len(calls)
      <3>1. i + 1 \in 1 .. Len(calls) /\ i < Len(calls) /\ i + 1 >= s
        <4>1. Len(calls) \in Nat
          BY Frames
        <4>2. i \in Nat /\ s \in Nat /\ i <= Len(calls)
          BY <4>1
        <4>. QED  BY <1>4, <2>2, <4>1, <4>2
      <3>2. /\ calls[i].done > 0
            /\ Direct(calls[i].module)[calls[i].done] = calls[i + 1].module
        BY <3>1, Frames DEF ImportInv, Stacked
      <3>3. calls[i].done \in 1 .. Len(Direct(calls[i].module))
        BY <3>2, Frames
      <3>4. calls[i + 1].module \in ImportsOf(calls[i].module)
        BY <3>2, <3>3, Frames, DirectIsImported
      <3>. QED  BY <1>2, <3>1, <3>4
    <2>. QED  BY <2>1, <2>2
  <1>5. \A m \in S : ImportsOf(m) \cap S # {}
    BY <1>4
  <1>6. S \in SUBSET Closure /\ S # {}
    BY <1>3
  <1>. HIDE DEF S
  <1>. QED  BY <1>5, <1>6 DEF WellFormed

\* A traversal that has returned has seen all the program imports.
LEMMA TraversalCompletes ==
  ASSUME program \in Programs, ImportInv, calls = << >>, visited # {}
  PROVE  /\ WellFormed
         /\ visited = Closure
         /\ Range(imports) = {e \in Closure \X Closure : e[2] \in ImportsOf(e[1])}
  <1>1. Finished = visited
    BY DEF Finished, Visiting
  <1>2. visited \in SUBSET Modules /\ program.root \in visited
        /\ \A m \in visited : ImportsOf(m) \subseteq visited
    BY <1>1 DEF ImportInv, Traversing, Left
  <1>3. visited = Closure
    <2>1. Closure \subseteq visited
      BY <1>2 DEF Closure
    <2>. QED  BY <2>1 DEF ImportInv, Traversing
  <1>4. WellFormed
    <2>1. ASSUME NEW m \in Closure
          PROVE  \E d \in program.modules :
                   /\ Declared(m) = {d}
                   /\ d.namespace # NoNamespace
                   /\ \A e \in program.modules : e.namespace = d.namespace => e.type = m
                   /\ IsInjective(d.imports)
      <3>1. ModuleProblem(m) = "none"
        BY <1>3 DEF ImportInv, Traversing
      <3>2. TheModule(m).type = m
        BY <3>1, DeclaredOnce DEF Declared
      <3>3. \A e \in program.modules :
              e.namespace = TheModule(m).namespace => e.type = m
        BY <3>1, <3>2, DeclaredOnce DEF NamespaceConflict
      <3>. QED  BY <3>1, <3>3, DeclaredOnce DEF Direct
    <2>2. \A S \in SUBSET Closure : S # {} => \E m \in S : ImportsOf(m) \cap S = {}
      BY <1>1, <1>3 DEF ImportInv, Left
    <2>. QED  BY <2>1, <2>2 DEF WellFormed
  <1>5. \A m, k : Handled(m, k)
    BY DEF Handled
  <1>6. ASSUME NEW e \in Range(imports)
        PROVE  e \in Closure \X Closure /\ e[2] \in ImportsOf(e[1])
    <2>1. PICK j \in DOMAIN imports : e = imports[j]
      BY DEF Range
    <2>2. PICK m \in visited : \E k \in DOMAIN Direct(m) : e = <<m, Direct(m)[k]>>
      BY <2>1 DEF ImportInv, Recorded
    <2>3. PICK k \in DOMAIN Direct(m) : e = <<m, Direct(m)[k]>>
      BY <2>2
    <2>4. ModuleProblem(m) = "none" /\ ImportsOf(m) \subseteq visited
      BY <1>2 DEF ImportInv, Traversing
    <2>5. Direct(m)[k] \in ImportsOf(m)
      BY <2>4, DeclaredOnce DEF Range
    <2>. QED  BY <1>3, <2>3, <2>4, <2>5
  <1>7. ASSUME NEW m \in Closure, NEW n \in Closure, n \in ImportsOf(m)
        PROVE  <<m, n>> \in Range(imports)
    <2>1. m \in visited /\ ModuleProblem(m) = "none"
      BY <1>3 DEF ImportInv, Traversing
    <2>2. PICK k \in DOMAIN Direct(m) : n = Direct(m)[k]
      BY <1>7, <2>1, DeclaredOnce DEF Range
    <2>3. PICK j \in DOMAIN imports : imports[j] = <<m, Direct(m)[k]>>
      BY <1>5, <2>1 DEF ImportInv, Recorded
    <2>. QED  BY <2>2, <2>3 DEF Range
  <1>. QED  BY <1>3, <1>4, <1>6, <1>7

\* A step that leaves the traversal alone keeps its invariant.
LEMMA ImportStays ==
  ASSUME ImportInv, UNCHANGED <<program, calls, visited, nodes, imports>>
  PROVE  ImportInv'
  <1>1. Traversing'
    BY ModulesStand DEF ImportInv, Traversing
  <1>2. Stacked'
    BY ModulesStand DEF ImportInv, Stacked
  <1>3. \A m, k : Handled(m, k)' = Handled(m, k)
    BY DEF Handled
  <1>4. Recorded'
    BY <1>3, ModulesStand DEF ImportInv, Recorded
  <1>5. Finished' = Finished
    BY DEF Finished, Visiting
  <1>6. Left'
    BY <1>5, ModulesStand DEF ImportInv, Left
  <1>. QED  BY <1>1, <1>2, <1>4, <1>6 DEF ImportInv

\* Of a module in progress, the imports counted in its frame are handled.
LEMMA FrameHandles ==
  ASSUME program \in Programs, ImportInv, NEW i \in 1 .. Len(calls), NEW k
  PROVE  Handled(calls[i].module, k) <=> k <= calls[i].done
  BY Frames DEF ImportInv, Stacked, Handled

\* The next import of the module on top is recorded once.
LEMMA EdgePushed ==
  ASSUME program \in Programs, program' = program, ImportInv, visited \subseteq visited',
         NEW m0 \in visited, NEW k0 \in DOMAIN Direct(m0),
         ~ Handled(m0, k0),
         imports' = Append(imports, <<m0, Direct(m0)[k0]>>),
         \A m \in visited : \A k \in DOMAIN Direct(m) :
           Handled(m, k)' <=> Handled(m, k) \/ (m = m0 /\ k = k0),
         \A m \in visited' \ visited : \A k \in DOMAIN Direct(m) : ~ Handled(m, k)'
  PROVE  /\ imports' \in Seq(Modules \X Modules) /\ IsInjective(imports') /\ Recorded'
  <1>. DEFINE e == <<m0, Direct(m0)[k0]>>
  <1>1. ModuleProblem(m0) = "none" /\ m0 \in Modules
    BY DEF ImportInv, Traversing
  <1>2. Direct(m0) \in Seq(Modules) /\ IsInjective(Direct(m0))
    BY <1>1, DeclaredOnce
  <1>3. e \in Modules \X Modules
    BY <1>1, <1>2
  <1>4. imports \in Seq(Modules \X Modules)
    BY DEF ImportInv, Traversing
  <1>5. ASSUME NEW j \in DOMAIN imports PROVE imports[j] # e
    <2>1. PICK m \in visited : \E k \in DOMAIN Direct(m) :
            Handled(m, k) /\ imports[j] = <<m, Direct(m)[k]>>
      BY DEF ImportInv, Recorded
    <2>0. PICK k \in DOMAIN Direct(m) : Handled(m, k) /\ imports[j] = <<m, Direct(m)[k]>>
      BY <2>1
    <2>2. SUFFICES ASSUME m = m0, Direct(m)[k] = Direct(m0)[k0] PROVE FALSE
      BY <2>0
    <2>3. k = k0
      BY <1>2, <2>2, <2>0 DEF IsInjective
    <2>. QED  BY <2>0, <2>2, <2>3
  <1>. HIDE DEF e
  <1>6. /\ Append(imports, e) \in Seq(Modules \X Modules)
        /\ Len(imports) \in Nat /\ DOMAIN imports = 1 .. Len(imports)
        /\ DOMAIN Append(imports, e) = 1 .. Len(imports) + 1
        /\ \A j \in 1 .. Len(imports) : Append(imports, e)[j] = imports[j]
        /\ Append(imports, e)[Len(imports) + 1] = e
    BY <1>3, <1>4
  <1>7. imports' = Append(imports, e)
    BY DEF e
  <1>8. IsInjective(imports')
    <2>1. IsInjective(imports)
      BY DEF ImportInv, Traversing
    <2>2. ASSUME NEW a \in 1 .. Len(imports) + 1, NEW b \in 1 .. Len(imports) + 1,
                 imports'[a] = imports'[b]
          PROVE  a = b
      <3>1. CASE a \in 1 .. Len(imports) /\ b \in 1 .. Len(imports)
        BY <1>6, <1>7, <2>1, <2>2, <3>1 DEF IsInjective
      <3>2. CASE a = Len(imports) + 1 /\ b \in 1 .. Len(imports)
        BY <1>5, <1>6, <1>7, <2>2, <3>2
      <3>3. CASE b = Len(imports) + 1 /\ a \in 1 .. Len(imports)
        BY <1>5, <1>6, <1>7, <2>2, <3>3
      <3>4. CASE a = Len(imports) + 1 /\ b = Len(imports) + 1
        BY <3>4
      <3>. QED  BY <1>6, <3>1, <3>2, <3>3, <3>4
    <2>. QED  BY <1>6, <1>7, <2>2 DEF IsInjective
  <1>9. ASSUME NEW j \in 1 .. Len(imports) + 1
        PROVE  \E m \in visited' : \E k \in DOMAIN Direct(m) :
                 Handled(m, k)' /\ imports'[j] = <<m, Direct(m)[k]>>
    <2>1. CASE j \in 1 .. Len(imports)
      <3>1. PICK m \in visited : \E k \in DOMAIN Direct(m) :
              Handled(m, k) /\ imports[j] = <<m, Direct(m)[k]>>
        BY <1>6, <2>1 DEF ImportInv, Recorded
      <3>. QED  BY <1>6, <1>7, <2>1, <3>1
    <2>2. CASE j = Len(imports) + 1
      <3>1. Handled(m0, k0)'
        OBVIOUS
      <3>2. imports'[j] = <<m0, Direct(m0)[k0]>>
        BY <1>6, <1>7, <2>2 DEF e
      <3>. QED  BY <3>1, <3>2
    <2>3. j \in 1 .. Len(imports) \/ j = Len(imports) + 1
      BY <1>6
    <2>. QED  BY <2>1, <2>2, <2>3
  <1>10. ASSUME NEW m \in visited', NEW k \in DOMAIN Direct(m), Handled(m, k)'
         PROVE  \E j \in 1 .. Len(imports) + 1 : imports'[j] = <<m, Direct(m)[k]>>
    <2>1. m \in visited
      BY <1>10
    <2>2. CASE Handled(m, k)
      <3>1. PICK j \in DOMAIN imports : imports[j] = <<m, Direct(m)[k]>>
        BY <2>1, <2>2 DEF ImportInv, Recorded
      <3>2. j \in 1 .. Len(imports) + 1 /\ imports'[j] = imports[j]
        BY <1>6, <1>7
      <3>. QED  BY <3>1, <3>2
    <2>3. CASE m = m0 /\ k = k0
      <3>1. Len(imports) + 1 \in 1 .. Len(imports) + 1
        BY <1>6
      <3>2. imports'[Len(imports) + 1] = <<m, Direct(m)[k]>>
        BY <1>6, <1>7, <2>3 DEF e
      <3>. QED  BY <3>1, <3>2
    <2>. QED  BY <1>10, <2>1, <2>2, <2>3
  <1>11. Recorded'
    <2>1. DOMAIN imports' = 1 .. Len(imports) + 1
      BY <1>6, <1>7
    <2>2. \A m : Direct(m)' = Direct(m)
      BY ModulesStand
    <2>3. \A j \in DOMAIN imports' : \E m \in visited' : \E k \in DOMAIN Direct(m)' :
            Handled(m, k)' /\ imports'[j] = <<m, Direct(m)'[k]>>
      BY <1>9, <2>1, <2>2
    <2>4. \A m \in visited' : \A k \in DOMAIN Direct(m)' :
            Handled(m, k)' => \E j \in DOMAIN imports' : imports'[j] = <<m, Direct(m)'[k]>>
      BY <1>10, <2>1, <2>2
    <2>. QED  BY <2>3, <2>4 DEF Recorded
  <1>. QED  BY <1>6, <1>7, <1>8, <1>11

\* The traversal begins with the root module alone.
LEMMA RootEntered ==
  ASSUME program \in Programs, program' = program, ImportInv, visited = {},
         ModuleProblem(program.root) = "none", Enter(program.root, calls), imports' = imports
  PROVE  ImportInv'
  <1>1. PICK r : r = program.root
    OBVIOUS
  <1>2. calls = << >>
    <2>1. 1 .. Len(calls) = {}
      BY Frames
    <2>2. calls \in Seq([module : Modules, done : Nat])
      BY DEF ImportInv, Traversing
    <2>. QED  BY <2>1, <2>2, NoElements
  <1>3. nodes = << >> /\ imports = << >>
    <2>1. nodes \in Seq(Modules) /\ Range(nodes) = {} /\ imports \in Seq(Modules \X Modules)
      BY DEF ImportInv, Traversing
    <2>2. DOMAIN nodes = {}
      BY <2>1 DEF Range
    <2>3. DOMAIN imports = {}
      BY DEF ImportInv, Recorded
    <2>. QED  BY <2>1, <2>2, <2>3
  <1>4. /\ r \in Modules /\ r \in Closure
    BY <1>1, ProgramsAssumption, ClosureCloses
  <1>5. visited' = {r} /\ nodes' = <<r>> /\ imports' = << >>
        /\ calls' = <<[module |-> r, done |-> 0]>>
    BY <1>1, <1>2, <1>3 DEF Enter
  <1>6. /\ Len(calls') = 1 /\ DOMAIN calls' = {1}
        /\ calls'[1] = [module |-> r, done |-> 0]
        /\ calls' \in Seq([module : Modules, done : Nat])
    BY <1>4, <1>5
  <1>7. Len(Direct(r)) \in Nat /\ DOMAIN Direct(r) = 1 .. Len(Direct(r))
    BY <1>1, DeclaredOnce
  <1>8. Traversing'
    <2>1. nodes' \in Seq(Modules) /\ IsInjective(nodes') /\ Range(nodes') = {r}
      BY <1>4, <1>5 DEF IsInjective, Range
    <2>2. imports' \in Seq(Modules \X Modules) /\ IsInjective(imports')
      BY <1>5 DEF IsInjective
    <2>3. ModuleProblem(r) = "none" /\ program' = program /\ program.root = r
      BY <1>1
    <2>. QED  BY <1>4, <1>5, <1>6, <2>1, <2>2, <2>3, ModulesStand DEF Traversing
  <1>9. Stacked'
    BY <1>5, <1>6, <1>7, ModulesStand DEF Stacked
  <1>10. Finished' = {}
    BY <1>5, <1>6 DEF Finished, Visiting
  <1>11. Recorded'
    <2>1. \A k \in DOMAIN Direct(r) : ~ Handled(r, k)'
      <3>1. calls'[1].module = r /\ calls'[1].done = 0
        BY <1>6
      <3>. QED  BY <1>6, <1>7, <3>1 DEF Handled
    <2>2. DOMAIN imports' = {} /\ Direct(r)' = Direct(r)
      BY <1>5, ModulesStand
    <2>. QED  BY <1>5, <2>1, <2>2 DEF Recorded
  <1>12. Left'
    BY <1>6, <1>10 DEF Left
  <1>. QED  BY <1>8, <1>9, <1>11, <1>12 DEF ImportInv

\* What one iteration of the loop over the imports of a module is about.
ImportTop ==
  /\ calls # << >>
  /\ calls[Len(calls)].done < Len(Direct(calls[Len(calls)].module))

\* The import it is at.
Imported == Direct(calls[Len(calls)].module)[calls[Len(calls)].done + 1]

\* That import is one of a sound module, and so imported by the root.
LEMMA TopImport ==
  ASSUME program \in Programs, ImportInv, ImportTop
  PROVE  /\ Len(calls) \in 1 .. Len(calls)
         /\ calls[Len(calls)].done + 1 \in DOMAIN Direct(calls[Len(calls)].module)
         /\ calls[Len(calls)].done \in Nat
         /\ Imported \in ImportsOf(calls[Len(calls)].module)
         /\ Imported \in Closure \cap Modules
  <1>1. Len(calls) \in 1 .. Len(calls)
    <2>1. Len(calls) \in Nat /\ Len(calls) # 0
      BY DEF ImportInv, Traversing, ImportTop
    <2>. QED  BY <2>1
  <1>. DEFINE m == calls[Len(calls)].module
              k == calls[Len(calls)].done + 1
  <1>2. m \in Closure /\ ModuleProblem(m) = "none" /\ Len(Direct(m)) \in Nat
        /\ calls[Len(calls)].done \in 0 .. Len(Direct(m))
    BY <1>1, Frames
  <1>3. k \in 1 .. Len(Direct(m)) /\ calls[Len(calls)].done \in Nat
    BY <1>2 DEF ImportTop
  <1>4. DOMAIN Direct(m) = 1 .. Len(Direct(m))
    BY <1>2, DeclaredOnce
  <1>5. Imported \in ImportsOf(m) /\ Imported \in Modules
    BY <1>2, <1>3, DirectIsImported DEF Imported
  <1>6. Imported \in Closure
    BY <1>2, <1>5, ClosureCloses
  <1>. QED  BY <1>1, <1>3, <1>4, <1>5, <1>6

\* An import of a module the traversal has left.
LEMMA FinishedImported ==
  ASSUME program \in Programs, program' = program, ImportInv, ImportTop,
         Imported \in visited, ~ Visiting(Imported),
         visited' = visited, nodes' = nodes,
         PushEdge(calls[Len(calls)].module, Imported),
         calls' = [calls EXCEPT ![Len(calls)].done = @ + 1]
  PROVE  ImportInv'
  <1>. DEFINE top == Len(calls)
              m0 == calls[top].module
              k0 == calls[top].done + 1
  <1>1. /\ top \in 1 .. Len(calls) /\ k0 \in DOMAIN Direct(m0) /\ calls[top].done \in Nat
    BY TopImport
  <1>2. Len(calls) \in Nat /\ DOMAIN calls = 1 .. Len(calls)
    BY Frames
  <1>3. calls \in Seq([module : Modules, done : Nat])
    BY DEF ImportInv, Traversing
  <1>4. /\ Len(calls') = Len(calls) /\ DOMAIN calls' = 1 .. Len(calls)
        /\ calls'[top] = [module |-> m0, done |-> k0]
        /\ \A i \in 1 .. Len(calls) : i # top => calls'[i] = calls[i]
        /\ calls' \in Seq([module : Modules, done : Nat])
    <2>1. calls[top] \in [module : Modules, done : Nat]
      BY <1>1, <1>3, Elements
    <2>2. [calls[top] EXCEPT !.done = k0] = [module |-> m0, done |-> k0]
      BY <2>1
    <2>3. [module |-> m0, done |-> k0] \in [module : Modules, done : Nat]
      BY <1>1, <2>1
    <2>4. calls' = [calls EXCEPT ![top] = [module |-> m0, done |-> k0]]
      BY <2>2
    <2>. QED  BY <1>1, <1>3, <2>3, <2>4, Replaced
  <1>5. \A i \in 1 .. Len(calls) : calls'[i].module = calls[i].module
    BY <1>4
  <1>6. \A m : Visiting(m)' <=> Visiting(m)
    BY <1>2, <1>4, <1>5 DEF Visiting
  <1>7. Finished' = Finished
    BY <1>6 DEF Finished
  <1>8. m0 \in visited /\ ~ Handled(m0, k0) /\ \A k : Handled(m0, k) <=> k <= calls[top].done
    <2>1. m0 \in visited
      BY <1>1, Frames
    <2>2. \A k : Handled(m0, k) <=> k <= calls[top].done
      BY <1>1, FrameHandles
    <2>3. ~ (k0 <= calls[top].done)
      BY <1>1
    <2>. QED  BY <2>1, <2>2, <2>3
  <1>9. ASSUME NEW m, NEW k \in DOMAIN Direct(m), m \in visited
        PROVE  Handled(m, k)' <=> Handled(m, k) \/ (m = m0 /\ k = k0)
    <2>1. CASE m # m0
      BY <1>2, <1>4, <1>5, <2>1 DEF Handled
    <2>2. CASE m = m0
      <3>1. Handled(m, k)' <=> k <= k0
        <4>1. \A i \in 1 .. Len(calls) : calls'[i].module = m0 => i = top
          BY <1>1, <1>2, <1>5 DEF ImportInv, Stacked
        <4>2. calls'[top].module = m0 /\ calls'[top].done = k0
          BY <1>4
        <4>. QED  BY <1>1, <1>4, <2>2, <4>1, <4>2 DEF Handled
      <3>2. k \in Nat
        BY <1>9, DeclaredOnce DEF ImportInv, Traversing
      <3>. QED  BY <1>1, <1>8, <2>2, <3>1, <3>2
    <2>. QED  BY <2>1, <2>2
  <1>10. imports' = Append(imports, <<m0, Direct(m0)[k0]>>)
    BY DEF PushEdge, Imported
  <1>. HIDE DEF top, m0, k0
  <1>11. imports' \in Seq(Modules \X Modules) /\ IsInjective(imports') /\ Recorded'
    BY <1>1, <1>8, <1>9, <1>10, EdgePushed
  <1>12. Traversing'
    BY <1>4, <1>11, ModulesStand DEF ImportInv, Traversing
  <1>13. Direct(m0)[k0] \in Finished
    BY DEF Finished, Imported, top, m0, k0
  <1>14. Stacked'
    <2>1. \A i \in 1 .. Len(calls) :
            /\ calls'[i].module \in visited'
            /\ calls'[i].done <= Len(Direct(calls'[i].module))
      <3>1. k0 <= Len(Direct(m0)) /\ m0 \in visited
        BY <1>1, <1>8, DeclaredOnce, Elements DEF ImportInv, Traversing
      <3>2. ASSUME NEW i \in 1 .. Len(calls), i # top
            PROVE  /\ calls'[i].module \in visited
                   /\ calls'[i].done <= Len(Direct(calls'[i].module))
        BY <1>2, <1>4, <3>2 DEF ImportInv, Stacked
      <3>. QED  BY <1>4, <3>1, <3>2
    <2>2. \A i, j \in 1 .. Len(calls) : calls'[i].module = calls'[j].module => i = j
      BY <1>2, <1>5 DEF ImportInv, Stacked
    <2>3. ASSUME NEW i \in 1 .. Len(calls), i < Len(calls)
          PROVE  /\ calls'[i].done > 0
                 /\ Direct(calls'[i].module)[calls'[i].done] = calls'[i + 1].module
      <3>1. i # top /\ i + 1 \in 1 .. Len(calls)
        BY <1>2, <2>3 DEF top
      <3>. QED  BY <1>2, <1>4, <1>5, <2>3, <3>1 DEF ImportInv, Stacked
    <2>. QED  BY <1>4, <2>1, <2>2, <2>3, ModulesStand DEF Stacked
  <1>15. Left'
    <2>1. ASSUME NEW i \in 1 .. Len(calls), NEW k \in 1 .. calls'[i].done
          PROVE  \/ Direct(calls'[i].module)[k] \in Finished
                 \/ k = calls'[i].done /\ i < Len(calls)
      <3>1. CASE i # top
        BY <1>2, <1>4, <2>1, <3>1 DEF ImportInv, Left
      <3>2. CASE i = top /\ k = k0
        BY <1>4, <1>13, <3>2
      <3>3. CASE i = top /\ k # k0
        <4>1. k \in 1 .. calls[top].done
          BY <1>1, <1>4, <3>3 DEF k0
        <4>2. ~ (top < Len(calls))
          BY <1>2 DEF top
        <4>. QED  BY <1>2, <1>4, <3>3, <4>1, <4>2 DEF ImportInv, Left, m0
      <3>. QED  BY <3>1, <3>2, <3>3
    <2>2. /\ \A m \in Finished : ImportsOf(m) \subseteq Finished
          /\ \A S \in SUBSET Finished : S # {} => \E m \in S : ImportsOf(m) \cap S = {}
      BY DEF ImportInv, Left
    <2>3. /\ \A m \in Finished' : ImportsOf(m)' \subseteq Finished'
          /\ \A S \in SUBSET Finished' : S # {} => \E m \in S : ImportsOf(m)' \cap S = {}
      BY <1>7, <2>2, ModulesStand
    <2>4. \A i \in DOMAIN calls' : \A k \in 1 .. calls'[i].done :
            \/ Direct(calls'[i].module)[k] \in Finished'
            \/ k = calls'[i].done /\ i < Len(calls')
      BY <1>4, <1>7, <2>1
    <2>. QED  BY <2>3, <2>4, ModulesStand DEF Left
  <1>. QED  BY <1>11, <1>12, <1>14, <1>15 DEF ImportInv

\* The frames with one more import of the top one handled.
Counted == [calls EXCEPT ![Len(calls)].done = @ + 1]

\* Frames with that and a frame for the module imported.
CountedAndPushed(frames, n) ==
  /\ frames \in Seq([module : Modules, done : Nat])
  /\ Len(calls) \in Nat /\ Len(frames) = Len(calls) + 1
  /\ DOMAIN frames = 1 .. Len(calls) + 1
  /\ \A i \in 1 .. Len(calls) : i # Len(calls) => frames[i] = calls[i]
  /\ \A i \in 1 .. Len(calls) : frames[i].module = calls[i].module
  /\ frames[Len(calls)].done = calls[Len(calls)].done + 1
  /\ frames[Len(calls) + 1].module = n /\ frames[Len(calls) + 1].done = 0

\* A frame counts an import handled, and one is pushed on it.
LEMMA FramePushed ==
  ASSUME program \in Programs, ImportInv, ImportTop, NEW n \in Modules
  PROVE  CountedAndPushed(Append(Counted, [module |-> n, done |-> 0]), n)
  <1>0. PICK frames : frames = Append(Counted, [module |-> n, done |-> 0])
    OBVIOUS
  <1>. DEFINE F == [module : Modules, done : Nat]
              top == Len(calls)
              x == [module |-> calls[top].module, done |-> calls[top].done + 1]
              y == [module |-> n, done |-> 0]
              under == [calls EXCEPT ![top] = x]
  <1>1. calls \in Seq(F) /\ top \in 1 .. Len(calls)
    BY TopImport DEF ImportInv, Traversing
  <1>2. calls[top] \in F
    BY <1>1, Elements
  <1>3. [calls[top] EXCEPT !.done = @ + 1] = x /\ x \in F /\ y \in F
    BY <1>2
  <1>4. frames = Append(under, y)
    BY <1>0, <1>3 DEF Counted
  <1>5. x.module = calls[top].module /\ x.done = calls[top].done + 1
        /\ y.module = n /\ y.done = 0
    OBVIOUS
  <1>. HIDE DEF F, x, y, under
  <1>6. /\ under \in Seq(F) /\ Len(under) = top
        /\ under[top] = x /\ \A i \in 1 .. Len(calls) : i # top => under[i] = calls[i]
    BY <1>1, <1>3, Replaced DEF under
  <1>7. Len(calls) \in Nat
    BY <1>1
  <1>8. /\ frames \in Seq(F) /\ Len(frames) = Len(under) + 1
        /\ DOMAIN frames = 1 .. Len(under) + 1
        /\ \A i \in 1 .. Len(under) : frames[i] = under[i]
        /\ frames[Len(under) + 1] = y
    <2>1. under \in Seq(F) /\ y \in F
      BY <1>3, <1>6
    <2>2. /\ Append(under, y) \in Seq(F) /\ Len(Append(under, y)) = Len(under) + 1
          /\ DOMAIN Append(under, y) = 1 .. Len(under) + 1
          /\ \A i \in 1 .. Len(under) : Append(under, y)[i] = under[i]
          /\ Append(under, y)[Len(under) + 1] = y
      BY <2>1, Pushed
    <2>. QED  BY <1>4, <2>2
  <1>9. \A i \in 1 .. Len(calls) : i # Len(calls) => frames[i] = calls[i]
    BY <1>6, <1>8
  <1>10. frames[top] = x
    BY <1>1, <1>6, <1>8
  <1>11. \A i \in 1 .. Len(calls) : frames[i].module = calls[i].module
    BY <1>5, <1>9, <1>10
  <1>12. CountedAndPushed(frames, n)
    BY <1>5, <1>6, <1>7, <1>8, <1>9, <1>10, <1>11 DEF F, CountedAndPushed
  <1>. QED  BY <1>0, <1>12

\* An import of a module the traversal has not met.
LEMMA NewImported ==
  ASSUME program \in Programs, program' = program, ImportInv, ImportTop,
         Imported \notin visited, ModuleProblem(Imported) = "none",
         PushEdge(calls[Len(calls)].module, Imported),
         Enter(Imported, Counted)
  PROVE  ImportInv'
  <1>1. PICK n \in Modules : n = Imported
    BY TopImport
  <1>. DEFINE top == Len(calls)
              m0 == calls[top].module
              k0 == calls[top].done + 1
  <1>2. /\ top \in 1 .. Len(calls) /\ k0 \in DOMAIN Direct(m0) /\ calls[top].done \in Nat
    BY TopImport
  <1>3. Len(calls) \in Nat /\ DOMAIN calls = 1 .. Len(calls)
    BY Frames
  <1>4. visited' = visited \cup {n} /\ nodes' = Append(nodes, n)
        /\ calls' = Append(Counted, [module |-> n, done |-> 0])
    BY <1>1 DEF Enter
  <1>5. /\ calls' \in Seq([module : Modules, done : Nat])
        /\ Len(calls') = top + 1 /\ DOMAIN calls' = 1 .. top + 1
        /\ \A i \in 1 .. top : i # top => calls'[i] = calls[i]
        /\ \A i \in 1 .. top : calls'[i].module = calls[i].module
        /\ calls'[top].done = k0
        /\ calls'[top + 1].module = n /\ calls'[top + 1].done = 0
    <2>1. PICK frames : frames = Append(Counted, [module |-> n, done |-> 0])
      OBVIOUS
    <2>2. calls' = frames
      BY <1>4, <2>1
    <2>3. CountedAndPushed(frames, n)
      BY <2>1, FramePushed
    <2>. QED  BY <2>2, <2>3 DEF CountedAndPushed
  <1>6. n \in Closure /\ n \notin visited /\ ModuleProblem(n) = "none" /\ Direct(m0)[k0] = n
    BY <1>1, TopImport DEF Imported
  <1>7. m0 \in visited /\ ~ Handled(m0, k0) /\ \A k : Handled(m0, k) <=> k <= calls[top].done
    <2>1. m0 \in visited
      BY <1>2, Frames
    <2>2. \A k : Handled(m0, k) <=> k <= calls[top].done
      BY <1>2, FrameHandles
    <2>3. ~ (k0 <= calls[top].done)
      BY <1>2
    <2>. QED  BY <2>1, <2>2, <2>3
  <1>8. imports' = Append(imports, <<m0, Direct(m0)[k0]>>)
    BY <1>1, <1>6 DEF PushEdge
  <1>9. \A i \in 1 .. top : calls[i].module \in visited
    BY Frames
  <1>10. \A i, j \in 1 .. top : calls[i].module = calls[j].module => i = j
    BY <1>3 DEF ImportInv, Stacked
  <1>. HIDE DEF m0, k0
  <1>11. \A i \in 1 .. top + 1 : i \in 1 .. top \/ i = top + 1
    BY <1>3
  <1>12. \A i \in 1 .. top : i \in 1 .. top + 1
    BY <1>3
  <1>13. top \in Nat \ {0} /\ Len(calls) = top /\ DOMAIN calls = 1 .. top /\ top \in 1 .. top
    BY <1>2, <1>3
  <1>. HIDE DEF top
  <1>14. \A m : Visiting(m)' <=> Visiting(m) \/ m = n
    <2>1. top + 1 \in 1 .. top + 1
      BY <1>2, <1>3 DEF top
    <2>2. DOMAIN calls = 1 .. top
      BY <1>3 DEF top
    <2>3. ASSUME NEW m, Visiting(m)' PROVE Visiting(m) \/ m = n
      BY <1>5, <1>11, <2>2, <2>3 DEF Visiting
    <2>4. ASSUME NEW m, Visiting(m) \/ m = n PROVE Visiting(m)'
      BY <1>5, <1>12, <2>1, <2>2, <2>4 DEF Visiting
    <2>. QED  BY <2>3, <2>4
  <1>15. Finished' = Finished
    BY <1>4, <1>6, <1>14 DEF Finished
  <1>16. ASSUME NEW m \in visited, NEW k \in DOMAIN Direct(m)
        PROVE  Handled(m, k)' <=> Handled(m, k) \/ (m = m0 /\ k = k0)
    <2>0. m # n /\ DOMAIN calls = 1 .. top
      BY <1>3, <1>6 DEF top
    <2>1. Handled(m, k)' <=> \A i \in 1 .. top : calls'[i].module = m => k <= calls'[i].done
      BY <1>5, <1>11, <1>12, <2>0 DEF Handled
    <2>2. CASE m # m0
      BY <1>5, <2>0, <2>1, <2>2 DEF Handled, m0
    <2>3. CASE m = m0
      <3>1. \A i \in 1 .. top : calls'[i].module = m0 => i = top
        BY <1>2, <1>5, <1>10 DEF m0, top
      <3>2. calls'[top].module = m0
        BY <1>2, <1>5 DEF m0, top
      <3>3. Handled(m, k)' <=> k <= k0
        BY <1>2, <1>5, <2>1, <2>3, <3>1, <3>2 DEF top
      <3>4. k \in Nat
        BY <1>16, DeclaredOnce DEF ImportInv, Traversing
      <3>. QED  BY <1>2, <1>7, <2>3, <3>3, <3>4 DEF k0
    <2>. QED  BY <2>2, <2>3
  <1>17. \A k \in DOMAIN Direct(n) : ~ Handled(n, k)'
    <2>1. top + 1 \in 1 .. top + 1
      BY <1>2, <1>3 DEF top
    <2>2. ASSUME NEW k \in DOMAIN Direct(n) PROVE k \in Nat \ {0}
      BY <1>6, DeclaredOnce
    <2>. QED  BY <1>5, <2>1, <2>2 DEF Handled
  <1>18. imports' \in Seq(Modules \X Modules) /\ IsInjective(imports') /\ Recorded'
    <2>1. \A m \in visited' \ visited : \A k \in DOMAIN Direct(m) : ~ Handled(m, k)'
      BY <1>4, <1>17
    <2>. QED  BY <1>2, <1>4, <1>7, <1>8, <1>16, <2>1, EdgePushed
  <1>19. nodes' \in Seq(Modules) /\ IsInjective(nodes') /\ Range(nodes') = visited'
    <2>1. nodes \in Seq(Modules) /\ IsInjective(nodes) /\ Range(nodes) = visited
      BY DEF ImportInv, Traversing
    <2>2. /\ Append(nodes, n) \in Seq(Modules) /\ Len(nodes) \in Nat
          /\ DOMAIN nodes = 1 .. Len(nodes) /\ DOMAIN Append(nodes, n) = 1 .. Len(nodes) + 1
          /\ \A i \in 1 .. Len(nodes) : Append(nodes, n)[i] = nodes[i]
          /\ Append(nodes, n)[Len(nodes) + 1] = n
      BY <2>1
    <2>3. \A i \in 1 .. Len(nodes) : nodes[i] # n /\ nodes[i] \in visited
      BY <1>6, <2>1, <2>2 DEF Range
    <2>4. \A i \in 1 .. Len(nodes) + 1 : i \in 1 .. Len(nodes) \/ i = Len(nodes) + 1
      BY <2>2
    <2>5. IsInjective(nodes')
      BY <1>4, <2>1, <2>2, <2>3, <2>4 DEF IsInjective
    <2>6. Range(nodes') \subseteq visited'
      BY <1>4, <2>2, <2>3, <2>4 DEF Range
    <2>7. ASSUME NEW m \in visited' PROVE m \in Range(nodes')
      <3>1. CASE m = n
        <4>1. Len(nodes) + 1 \in DOMAIN nodes' /\ nodes'[Len(nodes) + 1] = n
          BY <1>4, <2>2
        <4>. QED  BY <3>1, <4>1 DEF Range
      <3>2. CASE m \in visited
        <4>1. PICK i \in 1 .. Len(nodes) : m = nodes[i]
          BY <2>1, <2>2, <3>2 DEF Range
        <4>2. i \in DOMAIN nodes' /\ nodes'[i] = m
          BY <1>4, <2>2, <4>1
        <4>. QED  BY <4>2 DEF Range
      <3>. QED  BY <1>4, <2>7, <3>1, <3>2
    <2>. QED  BY <1>4, <2>2, <2>5, <2>6, <2>7
  <1>20. Traversing'
    <2>1. visited' \subseteq Modules /\ program.root \in visited'
      BY <1>4, <1>7 DEF ImportInv, Traversing
    <2>2. \A m \in visited' : m \in Closure /\ ModuleProblem(m) = "none"
      BY <1>4, <1>6 DEF ImportInv, Traversing
    <2>. QED  BY <1>5, <1>18, <1>19, <2>1, <2>2, ModulesStand DEF Traversing
  <1>21. Stacked'
    <2>1. ASSUME NEW i \in 1 .. top + 1
          PROVE  /\ calls'[i].module \in visited'
                 /\ calls'[i].done <= Len(Direct(calls'[i].module))
      <3>1. CASE i = top + 1
        <4>1. Len(Direct(n)) \in Nat
          BY <1>6, DeclaredOnce
        <4>. QED  BY <1>4, <1>5, <3>1, <4>1
      <3>2. CASE i \in 1 .. top /\ i # top
        BY <1>3, <1>4, <1>5, <3>2 DEF top, ImportInv, Stacked
      <3>3. CASE i = top
        <4>1. calls'[top].module = m0 /\ m0 \in visited'
          BY <1>2, <1>4, <1>5, <1>7 DEF m0, top
        <4>2. ModuleProblem(m0) = "none"
          BY <1>7 DEF ImportInv, Traversing
        <4>3. k0 <= Len(Direct(m0))
          BY <1>2, <4>2, DeclaredOnce, Elements
        <4>. QED  BY <1>5, <3>3, <4>1, <4>3
      <3>. QED  BY <1>11, <3>1, <3>2, <3>3
    <2>2. ASSUME NEW i \in 1 .. top + 1, NEW j \in 1 .. top + 1,
                 calls'[i].module = calls'[j].module
          PROVE  i = j
      <3>1. \A l \in 1 .. top : calls'[l].module # n
        BY <1>5, <1>6, <1>9
      <3>2. CASE i = top + 1
        BY <1>5, <1>11, <2>2, <3>1, <3>2
      <3>3. CASE j = top + 1
        BY <1>5, <1>11, <2>2, <3>1, <3>3
      <3>4. CASE i \in 1 .. top /\ j \in 1 .. top
        BY <1>5, <1>10, <2>2, <3>4
      <3>. QED  BY <1>11, <3>2, <3>3, <3>4
    <2>3. ASSUME NEW i \in 1 .. top + 1, i < top + 1
          PROVE  /\ calls'[i].done > 0
                 /\ Direct(calls'[i].module)[calls'[i].done] = calls'[i + 1].module
      <3>1. i \in 1 .. top
        BY <1>11, <2>3
      <3>2. CASE i = top
        <4>1. calls'[i].module = m0 /\ k0 > 0
          BY <1>2, <1>5, <3>2 DEF m0, k0, top
        <4>. QED  BY <1>5, <1>6, <3>2, <4>1
      <3>3. CASE i # top
        <4>1. i < Len(calls) /\ i + 1 \in 1 .. top /\ i \in DOMAIN calls
          BY <1>13, <3>1, <3>3
        <4>. QED  BY <1>5, <3>1, <3>3, <4>1 DEF ImportInv, Stacked
      <3>. QED  BY <3>2, <3>3
    <2>. QED  BY <1>5, <2>1, <2>2, <2>3, ModulesStand DEF Stacked
  <1>22. Left'
    <2>1. ASSUME NEW i \in 1 .. top + 1, NEW k \in 1 .. calls'[i].done
          PROVE  \/ Direct(calls'[i].module)[k] \in Finished
                 \/ k = calls'[i].done /\ i < top + 1
      <3>1. CASE i = top + 1
        BY <1>5, <2>1, <3>1
      <3>2. CASE i \in 1 .. top /\ i # top
        <4>1. i < Len(calls) /\ i < top + 1 /\ i \in DOMAIN calls
          BY <1>13, <3>2
        <4>. QED  BY <1>5, <2>1, <3>2, <4>1 DEF ImportInv, Left
      <3>3. CASE i = top /\ k = k0
        BY <1>13, <1>5, <3>3
      <3>4. CASE i = top /\ k # k0
        <4>1. k \in 1 .. calls[top].done
          <5>1. k \in 1 .. k0 /\ k # k0
            BY <1>5, <3>4
          <5>2. k0 = calls[top].done + 1 /\ calls[top].done \in Nat
            BY <1>2 DEF k0
          <5>. QED  BY <5>1, <5>2
        <4>2. ~ (top < Len(calls)) /\ top \in DOMAIN calls /\ calls'[top].module = m0
          BY <1>13, <1>5 DEF m0
        <4>3. Direct(calls[top].module)[k] \in Finished
          BY <4>1, <4>2 DEF ImportInv, Left
        <4>. QED  BY <3>4, <4>2, <4>3 DEF m0
      <3>. QED  BY <1>11, <3>1, <3>2, <3>3, <3>4
    <2>2. /\ \A m \in Finished : ImportsOf(m) \subseteq Finished
          /\ \A S \in SUBSET Finished : S # {} => \E m \in S : ImportsOf(m) \cap S = {}
      BY DEF ImportInv, Left
    <2>3. /\ \A m \in Finished' : ImportsOf(m)' \subseteq Finished'
          /\ \A S \in SUBSET Finished' : S # {} => \E m \in S : ImportsOf(m)' \cap S = {}
      BY <1>15, <2>2, ModulesStand
    <2>4. \A i \in DOMAIN calls' : \A k \in 1 .. calls'[i].done :
            \/ Direct(calls'[i].module)[k] \in Finished'
            \/ k = calls'[i].done /\ i < Len(calls')
      BY <1>5, <1>15, <2>1
    <2>. QED  BY <2>3, <2>4, ModulesStand DEF Left
  <1>. QED  BY <1>18, <1>20, <1>21, <1>22 DEF ImportInv

\* The module on top is left when all its imports are handled.
LEMMA LeavePreserves ==
  ASSUME program \in Programs, program' = program, ImportInv, calls # << >>,
         Last(calls).done = Len(Direct(Last(calls).module)),
         calls' = Front(calls), visited' = visited, nodes' = nodes, imports' = imports
  PROVE  ImportInv'
  <1>1. calls \in Seq([module : Modules, done : Nat])
    BY DEF ImportInv, Traversing
  <1>2. PICK top \in Nat \ {0} : Len(calls) = top
    BY <1>1, Popped
  <1>3. /\ calls' \in Seq([module : Modules, done : Nat])
        /\ Len(calls') = top - 1 /\ DOMAIN calls' = 1 .. top - 1 /\ DOMAIN calls = 1 .. top
        /\ \A i \in 1 .. top - 1 : calls'[i] = calls[i]
        /\ Last(calls) = calls[top]
    BY <1>1, <1>2, Popped
  <1>4. /\ top \in 1 .. top
        /\ \A i \in 1 .. top - 1 : i \in 1 .. top /\ i + 1 \in 1 .. top /\ i # top /\ i < top
        /\ \A i \in 1 .. top : i \in 1 .. top - 1 \/ i = top
    BY <1>2
  <1>5. PICK m0 \in visited : m0 = calls[top].module
    BY <1>2, <1>4, Frames
  <1>6. /\ ModuleProblem(m0) = "none" /\ Direct(m0) \in Seq(Modules)
        /\ calls[top].done = Len(Direct(m0))
    <2>1. ModuleProblem(m0) = "none"
      BY DEF ImportInv, Traversing
    <2>. QED  BY <1>3, <1>5, <2>1, DeclaredOnce
  <1>7. \A i \in 1 .. top - 1 : calls[i].module # m0
    BY <1>3, <1>4, <1>5 DEF ImportInv, Stacked
  <1>8. \A m : Visiting(m) <=> Visiting(m)' \/ m = m0
    <2>1. ASSUME NEW m, Visiting(m) PROVE Visiting(m)' \/ m = m0
      BY <1>3, <1>4, <1>5, <2>1 DEF Visiting
    <2>2. ASSUME NEW m, Visiting(m)' \/ m = m0 PROVE Visiting(m)
      BY <1>3, <1>4, <1>5, <2>2 DEF Visiting
    <2>. QED  BY <2>1, <2>2
  <1>9. ~ Visiting(m0)'
    BY <1>3, <1>7 DEF Visiting
  <1>10. Finished' = Finished \cup {m0} /\ m0 \notin Finished
    BY <1>5, <1>8, <1>9 DEF Finished
  <1>11. ImportsOf(m0) \subseteq Finished
    <2>1. ASSUME NEW n \in ImportsOf(m0) PROVE n \in Finished
      <3>1. PICK k \in 1 .. Len(Direct(m0)) : n = Direct(m0)[k]
        BY <1>6, DeclaredOnce DEF Range
      <3>2. ~ (top < Len(calls))
        BY <1>2
      <3>. QED  BY <1>3, <1>4, <1>5, <1>6, <3>1, <3>2 DEF ImportInv, Left
    <2>. QED  BY <2>1
  <1>12. ASSUME NEW m \in visited, NEW k \in DOMAIN Direct(m)
         PROVE  Handled(m, k)' <=> Handled(m, k)
    <2>1. ASSUME Handled(m, k) PROVE Handled(m, k)'
      BY <1>3, <1>4, <2>1 DEF Handled
    <2>2. ASSUME Handled(m, k)' PROVE Handled(m, k)
      <3>1. m = m0 => k <= calls[top].done
        BY <1>6, Elements
      <3>. QED  BY <1>3, <1>4, <1>5, <2>2, <3>1 DEF Handled
    <2>. QED  BY <2>1, <2>2
  <1>13. Traversing'
    BY <1>3, ModulesStand DEF ImportInv, Traversing
  <1>14. Stacked'
    <2>1. \A i \in 1 .. top - 1 :
            /\ calls'[i].module \in visited
            /\ calls'[i].done <= Len(Direct(calls'[i].module))
      BY <1>3, <1>4 DEF ImportInv, Stacked
    <2>2. \A i, j \in 1 .. top - 1 : calls'[i].module = calls'[j].module => i = j
      BY <1>3, <1>4 DEF ImportInv, Stacked
    <2>3. ASSUME NEW i \in 1 .. top - 1, i < top - 1
          PROVE  /\ calls'[i].done > 0
                 /\ Direct(calls'[i].module)[calls'[i].done] = calls'[i + 1].module
      <3>1. i + 1 \in 1 .. top - 1 /\ i < Len(calls)
        BY <1>2, <2>3
      <3>. QED  BY <1>3, <1>4, <3>1 DEF ImportInv, Stacked
    <2>4. \A i \in DOMAIN calls' : i < Len(calls') =>
            /\ calls'[i].done > 0
            /\ Direct(calls'[i].module)[calls'[i].done] = calls'[i + 1].module
      BY <1>3, <2>3
    <2>5. /\ \A i \in DOMAIN calls' : /\ calls'[i].module \in visited'
                                      /\ calls'[i].done <= Len(Direct(calls'[i].module))
          /\ \A i, j \in DOMAIN calls' : calls'[i].module = calls'[j].module => i = j
      BY <1>3, <2>1, <2>2
    <2>. QED  BY <2>4, <2>5, ModulesStand DEF Stacked
  <1>15. Recorded'
    BY <1>12, ModulesStand DEF ImportInv, Recorded
  <1>16. Left'
    <2>1. \A m \in Finished \cup {m0} : ImportsOf(m) \subseteq Finished \cup {m0}
      BY <1>11 DEF ImportInv, Left
    <2>2. ASSUME NEW S \in SUBSET (Finished \cup {m0}), S # {}
          PROVE  \E m \in S : ImportsOf(m) \cap S = {}
      <3>1. CASE S \ {m0} = {}
        BY <1>10, <1>11, <2>2, <3>1
      <3>2. CASE S \ {m0} # {}
        <4>1. S \ {m0} \in SUBSET Finished
          OBVIOUS
        <4>2. PICK m \in S \ {m0} : ImportsOf(m) \cap (S \ {m0}) = {}
          BY <3>2, <4>1 DEF ImportInv, Left
        <4>3. m0 \notin ImportsOf(m)
          BY <1>10, <4>1, <4>2 DEF ImportInv, Left
        <4>. QED  BY <4>2, <4>3
      <3>. QED  BY <3>1, <3>2
    <2>3. ASSUME NEW i \in 1 .. top - 1, NEW k \in 1 .. calls'[i].done
          PROVE  \/ Direct(calls'[i].module)[k] \in Finished \cup {m0}
                 \/ k = calls'[i].done /\ i < top - 1
      <3>1. /\ calls'[i] = calls[i] /\ i \in DOMAIN calls
        BY <1>3, <1>4
      <3>2. \/ Direct(calls[i].module)[k] \in Finished
            \/ k = calls[i].done /\ i < Len(calls)
        BY <3>1 DEF ImportInv, Left
      <3>3. CASE i = top - 1 /\ k = calls[i].done
        <4>1. i + 1 = top
          BY <1>2, <3>3
        <4>2. Direct(calls[i].module)[k] = m0
          BY <1>2, <1>4, <1>5, <3>1, <3>3, <4>1 DEF ImportInv, Stacked
        <4>. QED  BY <3>1, <4>2
      <3>4. CASE i # top - 1
        <4>1. i < top - 1
          BY <1>2, <3>4
        <4>. QED  BY <3>1, <3>2, <4>1
      <3>. QED  BY <3>1, <3>2, <3>3, <3>4
    <2>4. /\ \A m \in Finished' : ImportsOf(m)' \subseteq Finished'
          /\ \A S \in SUBSET Finished' : S # {} => \E m \in S : ImportsOf(m)' \cap S = {}
      BY <1>10, <2>1, <2>2, ModulesStand
    <2>5. \A i \in DOMAIN calls' : \A k \in 1 .. calls'[i].done :
            \/ Direct(calls'[i].module)[k] \in Finished'
            \/ k = calls'[i].done /\ i < Len(calls')
      BY <1>3, <1>10, <2>3
    <2>. QED  BY <2>4, <2>5, ModulesStand DEF Left
  <1>. QED  BY <1>13, <1>14, <1>15, <1>16 DEF ImportInv

-----------------------------------------------------------------------------
\* A new analysis has imported nothing.
LEMMA GraphInitEstablishes == ScopeInit => GraphInv
  <1>. SUFFICES ASSUME ScopeInit PROVE GraphInv
    OBVIOUS
  <1>1. /\ program \in Programs /\ phase = "importing"
        /\ calls = << >> /\ visited = {} /\ nodes = << >> /\ imports = << >>
    BY DEF ScopeInit
  <1>2. Traversing /\ Stacked
    BY <1>1 DEF Traversing, Stacked, IsInjective, Range
  <1>3. Recorded /\ Left
    BY <1>1 DEF Recorded, Left, Finished
  <1>. QED  BY <1>1, <1>2, <1>3 DEF GraphInv, ImportInv, Phases

\* An import is recorded, met, or refused for a fault of the program.
LEMMA ImportPreserves ==
  ASSUME GraphInv, Import
  PROVE  GraphInv'
  <1>. DEFINE top == Len(calls)
  <1>1. /\ phase = "importing" /\ calls # << >> /\ program' = program
        /\ calls[top].done < Len(TheModule(calls[top].module).imports)
    BY DEF Import
  <1>2. ImportTop /\ ImportInv /\ program \in Programs
    BY <1>1 DEF ImportTop, Direct, GraphInv
  <1>3. Imported = TheModule(calls[top].module).imports[calls[top].done + 1]
    BY DEF Imported, Direct
  <1>4. CASE ModuleProblem(Imported) # "none" \/ Visiting(Imported)
    <2>1. phase' = "rejected"
      BY <1>3, <1>4 DEF Import, Refuse
    <2>2. ~ WellFormed
      <3>1. Imported \in Closure /\ Imported \in ImportsOf(calls[Len(calls)].module)
        BY <1>2, TopImport
      <3>. QED  BY <1>1, <1>2, <1>4, <3>1, ProblemRefutes, CycleRefutes
    <2>. QED  BY <1>1, <1>2, <2>1, <2>2, ModulesStand DEF GraphInv, Phases
  <1>5. CASE ModuleProblem(Imported) = "none" /\ ~ Visiting(Imported)
    <2>1. /\ PushEdge(calls[top].module, Imported) /\ phase' = phase
          /\ IF Imported \in visited
             THEN calls' = Counted /\ visited' = visited /\ nodes' = nodes
             ELSE Enter(Imported, Counted)
      BY <1>3, <1>5 DEF Import, Counted
    <2>2. CASE Imported \in visited
      <3>1. ImportInv'
        BY <1>1, <1>2, <1>5, <2>1, <2>2, FinishedImported DEF Counted
      <3>. QED  BY <1>1, <1>2, <2>1, <3>1 DEF GraphInv, Phases
    <2>3. CASE Imported \notin visited
      <3>1. ImportInv'
        BY <1>1, <1>2, <1>5, <2>1, <2>3, NewImported
      <3>. QED  BY <1>1, <1>2, <2>1, <3>1 DEF GraphInv, Phases
    <2>. QED  BY <2>2, <2>3
  <1>. QED  BY <1>4, <1>5

\* Every step of the analysis keeps the invariant of the import graph.
LEMMA GraphNextPreserves == GraphInv /\ [ScopeNext]_scopeVars => GraphInv'
  <1>. SUFFICES ASSUME GraphInv, [ScopeNext]_scopeVars PROVE GraphInv'
    OBVIOUS
  <1>1. CASE VisitRoot
    <2>1. phase = "importing" /\ visited = {} /\ program' = program
          /\ ImportInv /\ program \in Programs
      BY <1>1 DEF VisitRoot, GraphInv
    <2>2. CASE ModuleProblem(program.root) = "none"
      <3>1. Enter(program.root, calls) /\ imports' = imports /\ phase' = phase
        BY <1>1, <2>2 DEF VisitRoot
      <3>2. ImportInv'
        BY <2>1, <2>2, <3>1, RootEntered
      <3>. QED  BY <2>1, <3>1, <3>2 DEF GraphInv, Phases
    <2>3. CASE ModuleProblem(program.root) # "none"
      <3>1. phase' = "rejected"
        BY <1>1, <2>3 DEF VisitRoot, Refuse
      <3>2. ~ WellFormed
        BY <2>1, <2>3, ClosureCloses, ProblemRefutes
      <3>. QED  BY <2>1, <3>1, <3>2, ModulesStand DEF GraphInv, Phases
    <2>. QED  BY <2>2, <2>3
  <1>2. CASE Import
    BY <1>2, ImportPreserves
  <1>3. CASE Leave
    <2>1. /\ phase = "importing" /\ phase' = phase /\ program' = program
          /\ ImportInv /\ program \in Programs
          /\ calls # << >> /\ Last(calls).done = Len(Direct(Last(calls).module))
          /\ calls' = Front(calls) /\ visited' = visited /\ nodes' = nodes
          /\ imports' = imports
      BY <1>3 DEF Leave, GraphInv, Direct
    <2>2. ImportInv'
      BY <2>1, LeavePreserves
    <2>. QED  BY <2>1, <2>2 DEF GraphInv, Phases
  <1>4. CASE StartScope \/ SelectNext \/ DecideDefaults \/ EndScope \/ UNCHANGED scopeVars
    <2>1. /\ UNCHANGED <<program, calls, visited, nodes, imports>>
      BY <1>4 DEF StartScope, SelectNext, DecideDefaults, EndScope, scopeVars, moduleVars
    <2>2. /\ phase' \in Phases
          /\ phase' = "rejected" => phase = "rejected"
          /\ phase = "rejected" => phase' = "rejected"
          /\ phase' \notin {"importing", "rejected"} => calls = << >> /\ visited # {}
      BY <1>4 DEF StartScope, SelectNext, DecideDefaults, EndScope, scopeVars, GraphInv, Phases
    <2>3. phase' # "rejected" => ImportInv'
      BY <2>1, <2>2, ImportStays DEF GraphInv
    <2>. QED  BY <2>1, <2>2, <2>3, ModulesStand DEF GraphInv
  <1>. QED  BY <1>1, <1>2, <1>3, <1>4 DEF ScopeNext, Ended

\* What the invariant says of a graph that is built or refused.
LEMMA GraphExact == GraphInv => ImportGraphIsExact
  <1>. SUFFICES ASSUME GraphInv PROVE ImportGraphIsExact
    OBVIOUS
  <1>1. CASE phase \in {"scoping", "rescoping", "analyzed"}
    <2>1. ImportInv /\ calls = << >> /\ visited # {} /\ program \in Programs
      BY <1>1 DEF GraphInv
    <2>2. IsInjective(nodes) /\ IsInjective(imports) /\ Range(nodes) = visited
      BY <2>1 DEF ImportInv, Traversing
    <2>. QED  BY <1>1, <2>1, <2>2, TraversalCompletes DEF ImportGraphIsExact
  <1>. QED  BY <1>1 DEF ImportGraphIsExact, GraphInv

-----------------------------------------------------------------------------
(***************************************************************************)
(* The two selections.  Each is the least set with the items of the owned  *)
(* providers that is closed under what an item may use: nothing is queued  *)
(* that the items done do not require.                                     *)
(***************************************************************************)
\* What an item may use of what is not available.
Uses(i, available) ==
  UNION {Admissible(i.context, t) : t \in Range(i.provider.deps) \ available}

\* The selection has begun at the providers that modules of the graph own.
Began == phase \notin {"importing", "rejected"} => OwnedItems(Available) \subseteq Items

\* Nothing less than the items contains what the items done require.
Required ==
  \A S \in SUBSET Items :
    /\ OwnedItems(Available) \subseteq S
    /\ \A i \in S \cap processed : Uses(i, Available) \subseteq S
    => S = Items

\* A selection with nothing left to do and nothing in it that is not required.
IsSelection(I, available) ==
  /\ OwnedItems(available) \subseteq I
  /\ \A i \in I : Uses(i, available) \subseteq I
  /\ \A S \in SUBSET I :
       /\ OwnedItems(available) \subseteq S
       /\ \A i \in S : Uses(i, available) \subseteq S
       => S = I

\* The first selection is one of what is available to the second.
Remembered ==
  phase \in {"rescoping", "analyzed"} =>
    \E I : initial = {i.provider : i \in I} /\ IsSelection(I, Available)

ScopeInv == SelectionInv /\ GraphInv /\ Began /\ Required /\ Remembered

-----------------------------------------------------------------------------
\* While the graph stands still, so does what an item may use.
LEMMA UsesStand ==
  ASSUME program' = program, imports' = imports, nodes' = nodes
  PROVE  /\ \A available : OwnedItems(available)' = OwnedItems(available)
         /\ \A i, available : Uses(i, available)' = Uses(i, available)
         /\ \A I, available : IsSelection(I, available)' = IsSelection(I, available)
  <1>1. \A available : OwnedItems(available)' = OwnedItems(available)
    BY VisibilityStands DEF OwnedItems, Reached
  <1>2. \A i, available : Uses(i, available)' = Uses(i, available)
    BY VisibilityStands DEF Uses
  <1>3. \A I, available : IsSelection(I, available)' = IsSelection(I, available)
    BY <1>1, <1>2 DEF IsSelection
  <1>. QED  BY <1>1, <1>2, <1>3

\* Two selections from what is available are the same.
LEMMA OneSelection ==
  ASSUME NEW available, NEW I, NEW J, IsSelection(I, available), IsSelection(J, available)
  PROVE  I = J
  <1>1. /\ OwnedItems(available) \subseteq I \cap J
        /\ \A i \in I \cap J : Uses(i, available) \subseteq I \cap J
    BY DEF IsSelection
  <1>2. I \cap J = I
    <2>1. I \cap J \in SUBSET I
      OBVIOUS
    <2>. QED  BY <1>1, <2>1 DEF IsSelection
  <1>3. I \cap J = J
    <2>1. I \cap J \in SUBSET J
      OBVIOUS
    <2>. QED  BY <1>1, <2>1 DEF IsSelection
  <1>. QED  BY <1>2, <1>3

\* A selection whose work is done is one.
LEMMA WorkDone ==
  ASSUME SelectionInv, Began, Required, work = {}, phase \notin {"importing", "rejected"}
  PROVE  IsSelection(processed, Available)
  <1>1. Items = processed
    BY DEF Items
  <1>2. \A i \in processed : Uses(i, Available) \subseteq processed
    BY <1>1 DEF SelectionInv, Followed, Requested, Uses
  <1>. QED  BY <1>1, <1>2 DEF IsSelection, Began, Required

\* What no selected provider is of may as well be available.
LEMMA AvailableAnyway ==
  ASSUME NEW available, NEW more, NEW I, IsSelection(I, available),
         \A i \in I : i.provider.type \notin more
  PROVE  IsSelection(I, available \cup more)
  <1>. DEFINE both == available \cup more
  <1>1. OwnedItems(both) = OwnedItems(available)
    <2>1. OwnedItems(both) \subseteq OwnedItems(available)
      BY DEF OwnedItems
    <2>2. ASSUME NEW i \in OwnedItems(available) PROVE i \in OwnedItems(both)
      <3>1. i \in I /\ i.provider.type \notin more
        BY DEF IsSelection
      <3>2. PICK p \in program.providers :
              /\ p.type \notin available /\ Reached(Owner(p))
              /\ i = [provider |-> p, context |-> Owner(p)]
        BY DEF OwnedItems
      <3>. QED  BY <3>1, <3>2 DEF OwnedItems
    <2>. QED  BY <2>1, <2>2
  <1>2. ASSUME NEW i \in I PROVE Uses(i, both) = Uses(i, available)
    <2>1. Uses(i, both) \subseteq Uses(i, available)
      BY DEF Uses
    <2>2. ASSUME NEW j \in Uses(i, available) PROVE j \in Uses(i, both)
      <3>1. PICK t \in Range(i.provider.deps) \ available : j \in Admissible(i.context, t)
        BY DEF Uses
      <3>2. j.provider.type = t
        BY <3>1 DEF Admissible, Candidates
      <3>3. j \in I
        BY DEF IsSelection
      <3>4. t \in Range(i.provider.deps) \ both
        BY <3>1, <3>2, <3>3
      <3>. QED  BY <3>1, <3>4 DEF Uses
    <2>. QED  BY <2>1, <2>2
  <1>. HIDE DEF both
  <1>3. IsSelection(I, both)
    <2>1. \A S \in SUBSET I : \A i \in S : Uses(i, both) = Uses(i, available)
      BY <1>2
    <2>. QED  BY <1>1, <1>2, <2>1 DEF IsSelection
  <1>. QED  BY <1>3 DEF both

\* A selected default has no provider in the selection it was decided on.
LEMMA SelectedYield ==
  ASSUME NEW evaluated \in [Defaults -> Statuses],
         \A d \in Defaults : evaluated[d] \in Evaluations(Catalog, Satisfied, d)
  PROVE  \A p \in InScope : p.type \notin Outputs(Selected(Decide(evaluated)))
  <1>1. \A d \in Selected(Decide(evaluated)) : ~ HasProvider(Catalog, Satisfied, d.output)
    BY DEF Selected, Decide, Evaluations
  <1>2. Catalog.declared = InScope
    BY DEF Catalog
  <1>. QED  BY <1>1, <1>2 DEF HasProvider, Outputs

\* One item of the work queue brings what it uses, and nothing else.
LEMMA SelectNextGenerates ==
  ASSUME ScopeInv, SelectNext
  PROVE  Began' /\ Required' /\ Remembered'
  <1>. DEFINE item == CHOOSE i \in work : TRUE
  <1>1. /\ item \in work /\ processed' = processed \cup {item}
        /\ work' = (work \cup UNION {Admissible(item.context, t) : t \in Requested(item)})
                   \ processed'
        /\ UNCHANGED <<program, imports, nodes, decisions, initial, phase>>
    BY DEF SelectNext, moduleVars
  <1>2. Available' = Available
    BY <1>1 DEF Available
  <1>3. UNION {Admissible(item.context, t) : t \in Requested(item)} = Uses(item, Available)
    BY DEF Requested, Uses
  <1>4. PICK av : av = Available /\ av = Available'
    BY <1>2
  <1>5. PICK it : it = item
    OBVIOUS
  <1>. HIDE DEF item
  <1>6. Items' = Items \cup Uses(it, av) /\ Items \subseteq Items' /\ it \in Items
    BY <1>1, <1>3, <1>4, <1>5 DEF Items
  <1>7. /\ OwnedItems(av)' = OwnedItems(av)
        /\ \A i : Uses(i, av)' = Uses(i, av)
        /\ \A I : IsSelection(I, av)' = IsSelection(I, av)
    BY <1>1, UsesStand
  <1>8. Began'
    BY <1>1, <1>4, <1>6, <1>7 DEF Began, ScopeInv
  <1>9. Required'
    <2>. SUFFICES ASSUME NEW S \in SUBSET Items', OwnedItems(av) \subseteq S,
                         \A i \in S \cap processed' : Uses(i, av) \subseteq S
                  PROVE  S = Items'
      BY <1>4, <1>7 DEF Required
    <2>. DEFINE R == S \cap Items
    <2>1. OwnedItems(av) \subseteq R
      <3>1. OwnedItems(av) \subseteq Items
        BY <1>4 DEF ScopeInv, Began, SelectNext
      <3>. QED  BY <3>1
    <2>2. \A i \in R \cap processed : Uses(i, av) \subseteq R
      <3>1. \A i \in processed : Uses(i, av) \subseteq Items
        BY <1>4 DEF ScopeInv, SelectionInv, Followed, Requested, Uses
      <3>. QED  BY <1>1, <3>1
    <2>3. R = Items
      BY <1>4, <2>1, <2>2 DEF ScopeInv, Required
    <2>4. Uses(it, av) \subseteq S
      BY <1>1, <1>5, <1>6, <2>3
    <2>. QED  BY <1>6, <2>3, <2>4
  <1>10. Remembered'
    BY <1>1, <1>4, <1>7 DEF ScopeInv, Remembered
  <1>. QED  BY <1>8, <1>9, <1>10

\* The decisions make nothing available that has been selected.
LEMMA DecideRemembers ==
  ASSUME ScopeInv, DecideDefaults
  PROVE  Began' /\ Required' /\ Remembered'
  <1>1. /\ phase = "scoping" /\ work = {} /\ phase' = "rescoping"
        /\ processed' = {} /\ initial' = InScope
        /\ work' = OwnedItems(program.held \cup Outputs(Selected(decisions')))
        /\ UNCHANGED <<program, imports, nodes>>
    BY DEF DecideDefaults, moduleVars
  <1>2. PICK evaluated \in [Defaults -> Statuses] :
          /\ \A d \in Defaults : evaluated[d] \in Evaluations(Catalog, Satisfied, d)
          /\ decisions' = Decide(evaluated)
    BY DEF DecideDefaults
  <1>3. PICK more : more = Outputs(Selected(decisions'))
    OBVIOUS
  <1>4. PICK av : av = program.held \cup more
    OBVIOUS
  <1>5. Available' = av
    BY <1>1, <1>3, <1>4 DEF Available, Outputs, Selected
  <1>6. Items' = OwnedItems(av)
    BY <1>1, <1>3, <1>4 DEF Items
  <1>7. /\ OwnedItems(av)' = OwnedItems(av)
        /\ \A I : IsSelection(I, av)' = IsSelection(I, av)
    BY <1>1, UsesStand
  <1>8. Began' /\ Required'
    BY <1>5, <1>6, <1>7 DEF Began, Required
  <1>9. IsSelection(processed, av)
    <2>1. PICK before : before = Available /\ before \cup more = av
      <3>1. Available = program.held
        BY <1>1 DEF ScopeInv, SelectionInv, Quiet, Available, Outputs
      <3>. QED  BY <1>4, <3>1 DEF Available
    <2>2. IsSelection(processed, before)
      BY <1>1, <2>1, WorkDone DEF ScopeInv
    <2>3. \A i \in processed : i.provider.type \notin more
      BY <1>2, <1>3, SelectedYield DEF InScope
    <2>. QED  BY <2>1, <2>2, <2>3, AvailableAnyway
  <1>10. Remembered'
    <2>1. PICK I : I = processed
      OBVIOUS
    <2>2. initial' = {i.provider : i \in I} /\ IsSelection(I, av)'
      BY <1>1, <1>7, <1>9, <2>1 DEF InScope
    <2>. QED  BY <1>5, <2>2 DEF Remembered
  <1>. QED  BY <1>8, <1>10

\* A new analysis has selected nothing.
LEMMA ScopeInvEstablished == ScopeInit => ScopeInv
  <1>. SUFFICES ASSUME ScopeInit PROVE ScopeInv
    OBVIOUS
  <1>1. SelectionInv /\ GraphInv
    BY ScopeInitEstablishes, GraphInitEstablishes
  <1>2. phase = "importing" /\ Items = {}
    BY DEF ScopeInit, Items
  <1>. QED  BY <1>1, <1>2 DEF ScopeInv, Began, Required, Remembered

\* Every step of the analysis keeps the whole invariant.
LEMMA ScopeInvPreserved == ScopeInv /\ [ScopeNext]_scopeVars => ScopeInv'
  <1>. SUFFICES ASSUME ScopeInv, [ScopeNext]_scopeVars PROVE ScopeInv'
    OBVIOUS
  <1>1. SelectionInv' /\ GraphInv'
    BY ScopeNextPreserves, GraphNextPreserves DEF ScopeInv
  <1>. SUFFICES Began' /\ Required' /\ Remembered'
    BY <1>1 DEF ScopeInv
  <1>2. CASE VisitRoot \/ Import \/ Leave
    <2>1. phase' \in {"importing", "rejected"}
      BY <1>2 DEF VisitRoot, Import, Leave, Refuse
    <2>2. Items' = {}
      BY <1>1, <2>1 DEF SelectionInv, Quiet
    <2>. QED  BY <2>1, <2>2 DEF Began, Required, Remembered
  <1>3. CASE StartScope
    <2>1. /\ phase' = "scoping" /\ phase = "importing"
          /\ work' = OwnedItems(program.held) /\ processed' = processed
          /\ UNCHANGED <<program, imports, nodes, decisions>>
      BY <1>3 DEF StartScope, moduleVars
    <2>2. Selected(decisions) = {} /\ Items = {}
      BY <2>1 DEF ScopeInv, SelectionInv, Quiet
    <2>3. PICK av : av = program.held
      OBVIOUS
    <2>4. Available' = av
      BY <2>1, <2>2, <2>3 DEF Available, Outputs, Selected
    <2>5. Items' = OwnedItems(av)
      BY <2>1, <2>2, <2>3 DEF Items
    <2>6. OwnedItems(av)' = OwnedItems(av)
      BY <2>1, UsesStand
    <2>. QED  BY <2>1, <2>4, <2>5, <2>6 DEF Began, Required, Remembered
  <1>4. CASE SelectNext
    BY <1>4, SelectNextGenerates
  <1>5. CASE DecideDefaults
    BY <1>5, DecideRemembers
  <1>6. CASE EndScope \/ UNCHANGED scopeVars
    <2>1. /\ UNCHANGED <<program, imports, nodes, work, processed, decisions, initial>>
          /\ phase' = phase \/ (phase = "rescoping" /\ phase' = "analyzed")
      BY <1>6 DEF EndScope, scopeVars, moduleVars, selectVars
    <2>2. PICK av : av = Available /\ av = Available'
      BY <2>1 DEF Available
    <2>3. Items' = Items
      BY <2>1 DEF Items
    <2>4. /\ OwnedItems(av)' = OwnedItems(av)
          /\ \A i : Uses(i, av)' = Uses(i, av)
          /\ \A I : IsSelection(I, av)' = IsSelection(I, av)
      BY <2>1, UsesStand
    <2>5. Began'
      BY <2>1, <2>2, <2>3, <2>4 DEF ScopeInv, Began
    <2>6. Required'
      BY <2>1, <2>2, <2>3, <2>4 DEF ScopeInv, Required
    <2>7. Remembered'
      BY <2>1, <2>2, <2>4 DEF ScopeInv, Remembered
    <2>. QED  BY <2>5, <2>6, <2>7
  <1>. QED  BY <1>2, <1>3, <1>4, <1>5, <1>6 DEF ScopeNext, Ended

\* Both selections are the one there is of what is available in the end.
LEMMA SelectionStable == ScopeInv => SelectionIsStable
  <1>. SUFFICES ASSUME ScopeInv, phase = "analyzed" PROVE InScope = initial
    BY DEF SelectionIsStable
  <1>1. IsSelection(processed, Available)
    BY WorkDone DEF ScopeInv, SelectionInv, Quiet
  <1>2. PICK I : initial = {i.provider : i \in I} /\ IsSelection(I, Available)
    BY DEF ScopeInv, Remembered
  <1>3. processed = I
    BY <1>1, <1>2, OneSelection
  <1>. QED  BY <1>2, <1>3 DEF InScope

\* The items of a selection are there for the providers modules own.
LEMMA SelectionLeast == ScopeInv => ScopeIsLeast
  <1>. DEFINE Owned == {p \in program.providers :
                          p.type \notin Available /\ Owner(p) \in Closure}
  <1>. SUFFICES ASSUME ScopeInv, Accepted
                PROVE  /\ Owned \subseteq InScope
                       /\ \A S \in SUBSET InScope :
                            (Owned \subseteq S /\ \A p \in S : DependsOn(p) \subseteq S)
                              => S = InScope
    BY DEF ScopeIsLeast
  <1>1. IsSelection(processed, Available)
    BY WorkDone DEF ScopeInv, SelectionInv, Quiet, Accepted
  <1>2. \A m : Reached(m) <=> m \in Closure
    BY GraphExact DEF ScopeInv, Accepted, ImportGraphIsExact, Reached
  <1>3. \A p \in Owned : [provider |-> p, context |-> Owner(p)] \in OwnedItems(Available)
    BY <1>2 DEF OwnedItems
  <1>4. \A i \in OwnedItems(Available) : i.provider \in Owned
    BY <1>2 DEF OwnedItems
  <1>. HIDE DEF Owned
  <1>5. Owned \subseteq InScope
    <2>1. ASSUME NEW p \in Owned PROVE p \in InScope
      <3>1. PICK i : i = [provider |-> p, context |-> Owner(p)]
        OBVIOUS
      <3>2. i \in processed /\ i.provider = p
        BY <1>1, <1>3, <3>1 DEF IsSelection
      <3>. QED  BY <3>2 DEF InScope
    <2>. QED  BY <2>1
  <1>6. ASSUME NEW S \in SUBSET InScope, Owned \subseteq S,
               \A p \in S : DependsOn(p) \subseteq S
        PROVE  S = InScope
    <2>. DEFINE T == {i \in processed : i.provider \in S}
    <2>1. OwnedItems(Available) \subseteq T
      BY <1>1, <1>4, <1>6 DEF IsSelection
    <2>2. ASSUME NEW i \in T, NEW j \in Uses(i, Available) PROVE j \in T
      <3>1. PICK t \in Range(i.provider.deps) : j \in Admissible(i.context, t)
        BY <2>2 DEF Uses
      <3>2. j.provider.type = t
        BY <3>1 DEF Admissible, Candidates
      <3>3. j \in processed
        BY <1>1, <2>2 DEF IsSelection
      <3>4. j.provider \in DependsOn(i.provider)
        BY <3>1, <3>2, <3>3 DEF DependsOn, InScope
      <3>. QED  BY <1>6, <3>3, <3>4
    <2>3. T = processed
      <3>1. T \in SUBSET processed /\ \A i \in T : Uses(i, Available) \subseteq T
        BY <2>2
      <3>. QED  BY <1>1, <2>1, <3>1 DEF IsSelection
    <2>. QED  BY <2>3 DEF InScope
  <1>. QED  BY <1>5, <1>6

\* In every reachable state of every program the whole invariant holds.
THEOREM ScopeInvariance == ScopeSpec => []ScopeInv
  BY ScopeInvEstablished, ScopeInvPreserved, PTL DEF ScopeSpec

\* The scope of a rooted build is exact: a program is refused for its import
\* graph only if that is ill-formed, otherwise the graph has every imported
\* module and every import once; an accepted scope has every provider a module
\* of the graph owns, those they require and no other, although the defaults
\* are decided in between (analyze_builder, build_module_graph,
\* select_scoped_providers).
THEOREM ScopeExact == ScopeSpec => []ScopeIsExact
  <1>1. ScopeInv => ScopeIsExact
    BY GraphExact, SelectionStable, SelectionLeast DEF ScopeInv, ScopeIsExact
  <1>. QED  BY <1>1, ScopeInvariance, PTL

-----------------------------------------------------------------------------
Typed ==
  /\ problem \in ModuleProblems
  /\ work \cup processed \cup refused \subseteq Item
  /\ \A item \in work \cup processed \cup refused : Reached(item.context)
  /\ initial \subseteq program.providers
  /\ decisions \in [Defaults -> Statuses]

\* Statuses come from the evaluators or from a conflict between them.
LEMMA DecideTyped ==
  ASSUME NEW evaluated \in [Defaults -> Statuses]
  PROVE  Decide(evaluated) \in [Defaults -> Statuses]
  BY DEF Decide, Statuses

\* Every context is a module of the graph.
LEMMA OwnedItemsKnown ==
  ASSUME ScopeInv, NEW available, NEW i \in OwnedItems(available),
         phase # "rejected"
  PROVE  i \in Item /\ Reached(i.context)
  <1>1. PICK p \in program.providers :
          Reached(Owner(p)) /\ i = [provider |-> p, context |-> Owner(p)]
    BY DEF OwnedItems
  <1>2. p \in OwnedDeclaration
    BY ProgramsAssumption DEF ScopeInv, SelectionInv
  <1>3. Owner(p) \in Modules
    BY <1>1 DEF Reached, ScopeInv, GraphInv, ImportInv, Traversing
  <1>. QED  BY <1>1, <1>2, <1>3 DEF Item

\* A provider that may be used is unowned, or of a module of the graph.
LEMMA AdmissibleKnown ==
  ASSUME ScopeInv, phase \in {"scoping", "rescoping"},
         NEW c \in Modules, Reached(c), NEW t, NEW i \in Admissible(c, t)
  PROVE  i \in Item /\ Reached(i.context)
  <1>1. PICK p \in program.providers :
          /\ Owner(p) = NoModule \/ CanAccess(c, p)
          /\ i = [provider |-> p, context |-> ContextOf(c, p)]
    BY DEF Admissible, Candidates
  <1>2. p \in OwnedDeclaration
    BY ProgramsAssumption DEF ScopeInv, SelectionInv
  <1>3. Reached(ContextOf(c, p)) /\ ContextOf(c, p) \in Modules
    <2>1. CASE Owner(p) \in {NoModule, c}
      BY <2>1 DEF ContextOf
    <2>2. CASE Owner(p) \notin {NoModule, c}
      <3>1. <<c, Owner(p)>> \in Range(imports) /\ ContextOf(c, p) = Owner(p)
        BY <1>1, <2>2 DEF CanAccess, DirectlyImports, ContextOf
      <3>2. /\ Range(imports) = {e \in Closure \X Closure : e[2] \in ImportsOf(e[1])}
            /\ Range(nodes) = Closure /\ Closure \subseteq Modules
        BY GraphExact DEF ScopeInv, ImportGraphIsExact, Closure
      <3>3. Owner(p) \in Closure
        BY <3>1, <3>2
      <3>. QED  BY <3>1, <3>2, <3>3 DEF Reached
    <2>. QED  BY <2>1, <2>2
  <1>. QED  BY <1>1, <1>2, <1>3 DEF Item

\* Every step of the analysis keeps the types.
LEMMA TypedPreserved == ScopeInv /\ ScopeInv' /\ Typed /\ [ScopeNext]_scopeVars => Typed'
  <1>. SUFFICES ASSUME ScopeInv, ScopeInv', Typed, [ScopeNext]_scopeVars PROVE Typed'
    OBVIOUS
  <1>1. CASE VisitRoot \/ Import \/ Leave
    <2>1. /\ UNCHANGED <<program, work, processed, refused, initial, decisions>>
          /\ phase = "importing"
      BY <1>1 DEF VisitRoot, Import, Leave, Refuse, selectVars
    <2>2. problem' \in ModuleProblems
      <3>1. \A m : ModuleProblem(m) \in ModuleProblems
        BY DEF ModuleProblem, ModuleProblems
      <3>2. CASE UNCHANGED problem
        BY <3>2 DEF Typed
      <3>3. CASE ~ UNCHANGED problem
        <4>1. (\E m : problem' = ModuleProblem(m)) \/ problem' = "cycle"
          BY <1>1, <3>3 DEF VisitRoot, Import, Leave, Refuse
        <4>. QED  BY <3>1, <4>1 DEF ModuleProblems
      <3>. QED  BY <3>2, <3>3
    <2>3. \A m : Reached(m) => Reached(m)'
      <3>1. CASE phase' = "rejected"
        <4>1. nodes' = nodes
          BY <1>1, <2>1, <3>1 DEF VisitRoot, Import, Leave, Refuse
        <4>. QED  BY <4>1 DEF Reached
      <3>2. CASE phase' # "rejected"
        <4>1. visited \subseteq visited'
          BY <1>1, <2>1, <3>2 DEF VisitRoot, Import, Leave, Refuse, Enter
        <4>2. Range(nodes) = visited /\ Range(nodes)' = visited'
          BY <2>1, <3>2 DEF ScopeInv, GraphInv, ImportInv, Traversing
        <4>. QED  BY <4>1, <4>2 DEF Reached
      <3>. QED  BY <3>1, <3>2
    <2>. QED  BY <2>1, <2>2, <2>3 DEF Typed
  <1>2. CASE StartScope
    <2>1. /\ UNCHANGED <<program, nodes, imports, problem, processed, refused, initial,
                        decisions>>
          /\ work' = OwnedItems(program.held) /\ phase # "rejected"
      BY <1>2 DEF StartScope, moduleVars
    <2>2. \A i \in work' : i \in Item /\ Reached(i.context)
      BY <2>1, OwnedItemsKnown
    <2>3. \A m : Reached(m)' = Reached(m)
      BY <2>1 DEF Reached
    <2>. QED  BY <2>1, <2>2, <2>3 DEF Typed
  <1>3. CASE SelectNext
    <2>. DEFINE item == CHOOSE i \in work : TRUE
    <2>1. /\ item \in work /\ processed' = processed \cup {item}
          /\ work' = (work \cup UNION {Admissible(item.context, t) : t \in Requested(item)})
                     \ processed'
          /\ refused' = refused \cup {[context |-> item.context, provider |-> p] :
                                        p \in Inaccessible(item)}
          /\ UNCHANGED <<program, nodes, imports, problem, initial, decisions>>
          /\ phase \in {"scoping", "rescoping"}
      BY <1>3 DEF SelectNext, moduleVars
    <2>. HIDE DEF item
    <2>2. item \in Item /\ Reached(item.context) /\ item.context \in Modules
      BY <2>1 DEF Typed, Item
    <2>3. \A t \in Requested(item) : \A i \in Admissible(item.context, t) :
            i \in Item /\ Reached(i.context)
      BY <2>1, <2>2, AdmissibleKnown
    <2>4. \A i \in work' \cup processed' : i \in Item /\ Reached(i.context)
      BY <2>1, <2>2, <2>3 DEF Typed
    <2>5. \A p \in Inaccessible(item) : p \in OwnedDeclaration
      BY ProgramsAssumption DEF Inaccessible, Candidates, ScopeInv, SelectionInv
    <2>6. \A i \in refused' : i \in Item /\ Reached(i.context)
      BY <2>1, <2>2, <2>5 DEF Typed, Item
    <2>7. \A m : Reached(m)' = Reached(m)
      BY <2>1 DEF Reached
    <2>. QED  BY <2>1, <2>4, <2>6, <2>7 DEF Typed
  <1>4. CASE DecideDefaults
    <2>1. /\ UNCHANGED <<program, nodes, imports, problem>>
          /\ processed' = {} /\ refused' = {} /\ initial' = InScope
          /\ work' = OwnedItems(program.held \cup Outputs(Selected(decisions')))
          /\ phase # "rejected"
      BY <1>4 DEF DecideDefaults, moduleVars
    <2>2. decisions' \in [Defaults -> Statuses]
      BY <1>4, DecideTyped DEF DecideDefaults
    <2>3. PICK available : available = program.held \cup Outputs(Selected(decisions'))
      OBVIOUS
    <2>4. \A i \in work' : i \in Item /\ Reached(i.context)
      BY <2>1, <2>3, OwnedItemsKnown
    <2>5. InScope \subseteq program.providers
      BY DEF InScope, ScopeInv, SelectionInv, Sound, Items
    <2>6. \A m : Reached(m)' = Reached(m)
      BY <2>1 DEF Reached
    <2>. QED  BY <2>1, <2>2, <2>4, <2>5, <2>6 DEF Typed
  <1>5. CASE EndScope \/ UNCHANGED scopeVars
    <2>1. UNCHANGED <<program, nodes, imports, problem, work, processed, refused, initial,
                      decisions>>
      BY <1>5 DEF EndScope, scopeVars, moduleVars, selectVars
    <2>2. \A m : Reached(m)' = Reached(m)
      BY <2>1 DEF Reached
    <2>. QED  BY <2>1, <2>2 DEF Typed
  <1>. QED  BY <1>1, <1>2, <1>3, <1>4, <1>5 DEF ScopeNext, Ended

\* What the traversal keeps is of its type, refused or not.
TraversalTypes ==
  /\ calls \in Seq([module : Modules, done : Nat])
  /\ visited \subseteq Modules
  /\ nodes \in Seq(Modules) /\ imports \in Seq(Modules \X Modules)

\* A refusal leaves what the traversal keeps as it is.
LEMMA TraversalTypesPreserved ==
  ScopeInv /\ ScopeInv' /\ TraversalTypes /\ [ScopeNext]_scopeVars => TraversalTypes'
  <1>. SUFFICES ASSUME ScopeInv, ScopeInv', TraversalTypes, [ScopeNext]_scopeVars
                PROVE  TraversalTypes'
    OBVIOUS
  <1>1. CASE phase' = "rejected"
    <2>1. UNCHANGED <<calls, visited, nodes, imports>>
      BY <1>1 DEF ScopeNext, VisitRoot, Import, Leave, StartScope, SelectNext, DecideDefaults,
         EndScope, Ended, Refuse, scopeVars, moduleVars
    <2>. QED  BY <2>1 DEF TraversalTypes
  <1>2. CASE phase' # "rejected"
    BY <1>2 DEF TraversalTypes, ScopeInv, GraphInv, ImportInv, Traversing
  <1>. QED  BY <1>1, <1>2

\* Every item selected or refused names a module of the graph: boundary_error()
\* finds the node of the requesting context, and does not panic
\* (select_scoped_providers, graph/scope.rs).
THEOREM ContextsAreKnown == ScopeSpec => []ScopeTypeOK
  <1>1. ScopeInit => Typed /\ TraversalTypes
    BY DEF ScopeInit, Typed, TraversalTypes, ModuleProblems, Statuses
  <1>2. ScopeInv /\ Typed /\ TraversalTypes => ScopeTypeOK
    BY DEF ScopeInv, GraphInv, Typed, TraversalTypes, ScopeTypeOK
  <1>. QED  BY <1>1, <1>2, ScopeInvariance, TypedPreserved, TraversalTypesPreserved, PTL
       DEF ScopeSpec
=============================================================================
