---------------------------- MODULE RequestProofs ----------------------------
(***************************************************************************)
(* Proofs about HttpRouting and GuardedRequests, for every program that    *)
(* can be linked and every request: what the validation lets through can   *)
(* be installed, only what the root reaches is served, and handlers run    *)
(* for authorized principals only.                                         *)
(***************************************************************************)
EXTENDS GuardedRequests, WellFoundedInduction, TLAPS

-----------------------------------------------------------------------------
(***************************************************************************)
(* Sequences: what FlattenSeq and At return.                               *)
(***************************************************************************)
\* A property of naturals that fails somewhere fails first somewhere.
LEMMA First ==
  ASSUME NEW B \in SUBSET Nat, B # {}
  PROVE  \E m \in B : \A k \in B : m <= k
  <1>1. PICK x \in B : \A y \in B : <<y, x>> \notin OpToRel(<, Nat)
    BY NatLessThanWellFounded, WFMin
  <1>2. ASSUME NEW y \in B PROVE x <= y
    <2>1. x \in Nat /\ y \in Nat /\ <<y, x>> \in Nat \X Nat
      OBVIOUS
    <2>2. y < x => <<y, x>> \in OpToRel(<, Nat)
      BY <2>1 DEF OpToRel
    <2>3. ~ (y < x)
      BY <1>1, <2>2
    <2>. QED  BY <2>1, <2>3
  <1>. QED  BY <1>2

\* The equation of the recursive function in FlattenSeq.
Flattens(g, s, n) == g = [i \in 1 .. n |-> IF i = 1 THEN s[i] ELSE g[i - 1] \o s[i]]

\* That equation has a solution, whose values are sequences.
LEMMA Flattener ==
  ASSUME NEW S, NEW s \in Seq(Seq(S)), NEW n \in 1 .. Len(s)
  PROVE  \E g \in [1 .. n -> Seq(S)] : Flattens(g, s, n)
  <1>. DEFINE B == {k \in 1 .. Len(s) : ~ \E g \in [1 .. k -> Seq(S)] : Flattens(g, s, k)}
  <1>1. SUFFICES ASSUME B # {} PROVE FALSE
    OBVIOUS
  <1>2. PICK m \in B : \A k \in B : m <= k
    <2>1. B \in SUBSET Nat
      OBVIOUS
    <2>. QED  BY <1>1, <2>1, First
  <1>3. m \in 1 .. Len(s) /\ Len(s) \in Nat /\ s[m] \in Seq(S) /\ s[1] \in Seq(S)
    BY <1>2
  <1>4. CASE m = 1
    <2>1. Flattens([i \in 1 .. 1 |-> s[1]], s, 1)
      BY DEF Flattens
    <2>2. [i \in 1 .. 1 |-> s[1]] \in [1 .. 1 -> Seq(S)]
      BY <1>3
    <2>. QED  BY <1>2, <1>4, <2>1, <2>2
  <1>5. CASE m # 1
    <2>1. m - 1 \in 1 .. Len(s) /\ ~ (m <= m - 1)
      BY <1>3, <1>5
    <2>2. PICK g \in [1 .. m - 1 -> Seq(S)] : Flattens(g, s, m - 1)
      BY <1>2, <2>1
    <2>. DEFINE h == [i \in 1 .. m |-> IF i = m THEN g[m - 1] \o s[m] ELSE g[i]]
    <2>3. h \in [1 .. m -> Seq(S)]
      <3>1. g[m - 1] \in Seq(S)
        BY <2>1
      <3>2. g[m - 1] \o s[m] \in Seq(S)
        BY <1>3, <3>1
      <3>3. \A i \in 1 .. m : i # m => i \in 1 .. m - 1
        BY <1>3
      <3>. QED  BY <3>2, <3>3
    <2>4. Flattens(h, s, m)
      <3>1. ASSUME NEW i \in 1 .. m
            PROVE  h[i] = IF i = 1 THEN s[i] ELSE h[i - 1] \o s[i]
        <4>1. CASE i = m
          <5>1. h[m] = g[m - 1] \o s[m]
            <6>1. m \in 1 .. m
              BY <1>3
            <6>. QED  BY <6>1
          <5>2. m - 1 \in 1 .. m /\ m - 1 # m
            BY <1>3, <1>5
          <5>3. h[m - 1] = g[m - 1]
            BY <5>2
          <5>. HIDE DEF h
          <5>. QED  BY <4>1, <1>5, <5>1, <5>3
        <4>2. CASE i # m
          <5>1. i \in 1 .. m - 1 /\ h[i] = g[i] /\ i \in Nat /\ m \in Nat
            BY <4>2, <1>3
          <5>2. g[i] = IF i = 1 THEN s[i] ELSE g[i - 1] \o s[i]
            BY <5>1, <2>2 DEF Flattens
          <5>3. CASE i = 1
            BY <5>1, <5>2, <5>3
          <5>4. CASE i # 1
            <6>1. i - 1 \in 1 .. m /\ i - 1 # m
              BY <5>1, <5>4
            <6>2. h[i - 1] = g[i - 1]
              BY <6>1
            <6>. QED  BY <5>1, <5>2, <5>4, <6>2
          <5>. QED  BY <5>3, <5>4
        <4>. QED  BY <4>1, <4>2
      <3>. HIDE DEF h
      <3>2. h = [i \in 1 .. m |-> h[i]]
        BY <2>3
      <3>. QED  BY <3>1, <3>2 DEF Flattens
    <2>. QED  BY <1>2, <2>3, <2>4
  <1>. QED  BY <1>4, <1>5

\* FlattenSeq returns a sequence of what is in the sequences.
LEMMA Flattened ==
  ASSUME NEW S, NEW s \in Seq(Seq(S))
  PROVE  FlattenSeq(s) \in Seq(S)
  <1>1. CASE Len(s) = 0
    <2>1. s = << >> /\ FlattenSeq(s) = s
      BY <1>1 DEF FlattenSeq
    <2>. QED  BY <2>1, << >> \in Seq(S)
  <1>2. CASE Len(s) # 0
    <2>. DEFINE n == Len(s)
                f == CHOOSE g : Flattens(g, s, n)
    <2>1. n \in 1 .. Len(s)
      BY <1>2
    <2>2. FlattenSeq(s) = f[n]
      BY <1>2 DEF FlattenSeq, Flattens
    <2>3. Flattens(f, s, n)
      BY <2>1, Flattener
    <2>4. PICK g \in [1 .. n -> Seq(S)] : Flattens(g, s, n)
      BY <2>1, Flattener
    <2>. DEFINE B == {k \in 1 .. n : f[k] # g[k]}
    <2>5. B = {}
      <3>1. SUFFICES ASSUME B # {} PROVE FALSE
        OBVIOUS
      <3>2. PICK m \in B : \A k \in B : m <= k
        <4>1. B \in SUBSET Nat
          OBVIOUS
        <4>. QED  BY <3>1, <4>1, First
      <3>3. m \in 1 .. n /\ f[m] # g[m] /\ n \in Nat
        BY <3>2
      <3>4. m # 1 => m - 1 \in 1 .. n /\ f[m - 1] = g[m - 1]
        BY <3>2, <3>3
      <3>. HIDE DEF f
      <3>5. /\ f[m] = IF m = 1 THEN s[m] ELSE f[m - 1] \o s[m]
            /\ g[m] = IF m = 1 THEN s[m] ELSE g[m - 1] \o s[m]
        BY <2>3, <2>4, <3>3 DEF Flattens
      <3>. QED  BY <3>3, <3>4, <3>5
    <2>6. f[n] = g[n]
      BY <2>5, <2>1
    <2>. QED  BY <2>1, <2>2, <2>4, <2>6
  <1>. QED  BY <1>1, <1>2

\* The elements at some positions are a sequence of just those.
LEMMA AtSelects ==
  ASSUME NEW S, NEW s \in Seq(S), NEW positions
  PROVE  At(s, positions) \in Seq({s[i] : i \in DOMAIN s \cap positions})
  <1>. DEFINE T == {s[i] : i \in DOMAIN s \cap positions}
              parts == [i \in DOMAIN s |-> IF i \in positions THEN <<s[i]>> ELSE << >>]
  <1>1. \A i \in DOMAIN s : parts[i] \in Seq(T)
    <2>. SUFFICES ASSUME NEW i \in DOMAIN s PROVE parts[i] \in Seq(T)
      OBVIOUS
    <2>1. CASE i \in positions
      <3>1. s[i] \in T
        BY <2>1
      <3>. HIDE DEF T
      <3>2. <<s[i]>> \in Seq(T)
        BY <3>1
      <3>. QED  BY <2>1, <3>2
    <2>2. CASE i \notin positions
      BY <2>2
    <2>. QED  BY <2>1, <2>2
  <1>2. DOMAIN s = 1 .. Len(s) /\ Len(s) \in Nat
    OBVIOUS
  <1>. HIDE DEF T
  <1>3. parts \in Seq(Seq(T))
    BY <1>1, <1>2
  <1>. HIDE DEF parts
  <1>4. FlattenSeq(parts) \in Seq(T)
    BY <1>3, Flattened
  <1>. QED  BY <1>4 DEF At, parts, T

-----------------------------------------------------------------------------
(***************************************************************************)
(* The routes of a program.                                                *)
(***************************************************************************)
ActivePositions(t) == {i \in DOMAIN t.methods : t.methods[i].active}

\* Contracts as a controller finds them, by name.
Named == {t \in app.contracts : Contract(t.name) = t}

\* The routes of a contract are those of its active methods.
LEMMA RoutesOfContract ==
  ASSUME app \in Applications, NEW t \in app.contracts
  PROVE  RoutesOf(t) \in Seq({Route(t, t.methods[i]) : i \in ActivePositions(t)})
  <1>. DEFINE active == At(t.methods, ActivePositions(t))
              T == {t.methods[i] : i \in DOMAIN t.methods \cap ActivePositions(t)}
              R == {Route(t, t.methods[i]) : i \in ActivePositions(t)}
  <1>1. t.methods \in Seq(Range(t.methods))
    BY ApplicationsAssumption
  <1>2. active \in Seq(T)
    BY <1>1, AtSelects
  <1>3. RoutesOf(t) = [i \in DOMAIN active |-> Route(t, active[i])]
    BY DEF RoutesOf, ActivePositions
  <1>4. \A m \in T : Route(t, m) \in R
    OBVIOUS
  <1>. HIDE DEF T, R, active
  <1>5. /\ DOMAIN active = 1 .. Len(active) /\ Len(active) \in Nat
        /\ \A i \in 1 .. Len(active) : active[i] \in T
    BY <1>2
  <1>6. \A i \in 1 .. Len(active) : Route(t, active[i]) \in R
    BY <1>4, <1>5
  <1>7. [i \in 1 .. Len(active) |-> Route(t, active[i])] \in Seq(R)
    BY <1>5, <1>6
  <1>8. RoutesOf(t) \in Seq(R)
    BY <1>3, <1>5, <1>7
  <1>. QED  BY <1>8 DEF R

\* A contract that a controller names is there.
LEMMA ContractFound ==
  ASSUME app \in Applications, NEW c \in Range(app.controllers), NEW i \in DOMAIN c.contracts
  PROVE  Contract(c.contracts[i]) \in Named
  <1>1. c.contracts \in Seq({t.name : t \in app.contracts})
    BY ApplicationsAssumption
  <1>2. PICK t \in app.contracts : t.name = c.contracts[i]
    BY <1>1
  <1>. DEFINE u == Contract(c.contracts[i])
  <1>3. u \in app.contracts /\ u.name = c.contracts[i]
    BY <1>2 DEF Contract
  <1>4. Contract(u.name) = u
    BY <1>3
  <1>. QED  BY <1>3, <1>4 DEF Named

ListedRoutes == UNION {Range(RoutesOf(t)) : t \in Named}

\* The routes of a controller are those of linked contracts.
LEMMA RoutesOfController ==
  ASSUME app \in Applications, NEW c \in Range(app.controllers)
  PROVE  ControllerRoutes(c) \in Seq(ListedRoutes)
  <1>1. c.contracts \in Seq({t.name : t \in app.contracts})
    BY ApplicationsAssumption
  <1>2. DOMAIN c.contracts = 1 .. Len(c.contracts) /\ Len(c.contracts) \in Nat
    BY <1>1
  <1>3. ASSUME NEW i \in DOMAIN c.contracts
        PROVE  RoutesOf(Contract(c.contracts[i])) \in Seq(ListedRoutes)
    <2>. DEFINE t == Contract(c.contracts[i])
                R == {Route(t, t.methods[j]) : j \in ActivePositions(t)}
    <2>1. t \in Named /\ t \in app.contracts
      BY ContractFound DEF Named
    <2>2. Range(RoutesOf(t)) \subseteq ListedRoutes
      BY <2>1 DEF ListedRoutes
    <2>3. RoutesOf(t) \in Seq(R)
      BY <2>1, RoutesOfContract
    <2>. HIDE DEF R, t
    <2>4. \A k \in 1 .. Len(RoutesOf(t)) : RoutesOf(t)[k] \in ListedRoutes
      BY <2>2, <2>3 DEF Range
    <2>5. RoutesOf(t) \in Seq(ListedRoutes)
      BY <2>3, <2>4
    <2>. QED  BY <2>5 DEF t
  <1>. DEFINE parts == [i \in DOMAIN c.contracts |-> RoutesOf(Contract(c.contracts[i]))]
  <1>4. parts \in Seq(Seq(ListedRoutes))
    BY <1>2, <1>3
  <1>. HIDE DEF parts
  <1>5. FlattenSeq(parts) \in Seq(ListedRoutes)
    BY <1>4, Flattened
  <1>. QED  BY <1>5 DEF ControllerRoutes, parts

\* They are what the active methods declare, and their guards are linked.
LEMMA ListedIsDeclared ==
  ASSUME app \in Applications, NEW r \in ListedRoutes
  PROVE  /\ \E t \in Named : \E i \in ActivePositions(t) : r = Route(t, t.methods[i])
         /\ r.guard # NoGuard => r.guard \in LinkedGuards
  <1>1. PICK t \in Named : r \in Range(RoutesOf(t))
    BY DEF ListedRoutes
  <1>2. t \in app.contracts
    BY DEF Named
  <1>3. PICK k \in DOMAIN RoutesOf(t) : r = RoutesOf(t)[k]
    BY <1>1 DEF Range
  <1>. DEFINE R == {Route(t, t.methods[i]) : i \in ActivePositions(t)}
  <1>4. RoutesOf(t) \in Seq(R)
    BY <1>2, RoutesOfContract
  <1>5. r \in R
    <2>. HIDE DEF R
    <2>. QED  BY <1>3, <1>4
  <1>6. r.guard # NoGuard => r.guard \in LinkedGuards
    BY <1>2, <1>3 DEF LinkedGuards
  <1>. QED  BY <1>5, <1>6

-----------------------------------------------------------------------------
(***************************************************************************)
(* The inductive invariant of build_router.                                *)
(***************************************************************************)
Installing == {"installing", "built", "panicked"}
Bound == {"validating"} \cup Installing

AppInv ==
  /\ app \in Applications
  /\ phase \in Phases
  /\ phase \in {"scoping", "binding"} \cup Bound => \A t \in app.contracts : ContractAccepted(t)
  /\ failure \notin {"route", "registrar", "controller", "binding"}

Scoped ==
  {[controller |-> c, selected |-> Selected(c)] : c \in {d \in Range(app.controllers) : InScope(d)}}

ScopeInv == scope \in Seq(Scoped)

BindingsInv ==
  /\ phase \in Bound => bindings = {BindingFor(g) : g \in SelectedGuards}
  /\ \A b \in bindings :
       /\ b.strategy.principal = b.guard.principal
       /\ b.strategy = BuiltinStrategy \/ Visible(b.strategy, b.context)

\* The selected routes of the nth controller, and what tells two routes apart.
Positions(n) == DOMAIN SelectedRoutes(scope[n])
Key(n, i) == RouteKey(SelectedRoutes(scope[n])[i])

ValidatedInv ==
  /\ validated \in Seq({ValidatedRoutes(s) : s \in Scoped})
  /\ phase \in {"expanding", "scoping", "binding"} => validated = << >>
  /\ Len(validated) <= Len(scope)
  /\ \A n \in DOMAIN validated :
       /\ validated[n] = ValidatedRoutes(scope[n])
       /\ \A i \in Positions(n) : Key(n, i) \in seen
  /\ \A m, n \in DOMAIN validated : \A i \in Positions(m), j \in Positions(n) :
       Key(m, i) = Key(n, j) => m = n /\ i = j

\* An installed route is one that a contract of its controller declares, that
\* the controller was selected with, behind the guard that it declares.
Installed(r, c, t, m) ==
  /\ r.controller = c /\ InScope(c)
  /\ r.trait = t.name /\ r.handler = m.handler
  /\ app.rooted => RouteContext(c, Route(t, m)) # NoModule
  /\ IF GuardOf(t, m) = NoGuard THEN r.layer = {}
     ELSE \E b \in bindings : r.layer = {b} /\ b.guard = GuardOf(t, m)

RouterInv ==
  /\ phase \in Installing => Len(validated) = Len(scope)
  /\ cursor \in [controller : Nat \ {0}, asked : Nat]
  /\ phase \notin Installing => router = {}
  /\ \A r \in router :
       \E c \in Range(app.controllers), t \in Named : \E i \in ActivePositions(t) :
         Installed(r, c, t, t.methods[i])

RoutingInv == AppInv /\ ScopeInv /\ BindingsInv /\ ValidatedInv /\ RouterInv

-----------------------------------------------------------------------------
(***************************************************************************)
(* The program does not change, nor does what is read off it.              *)
(***************************************************************************)
\* The routes of the linked contracts and controllers stay what they are.
LEMMA RoutesStay ==
  ASSUME app' = app
  PROVE  /\ Named' = Named
         /\ \A c : ControllerRoutes(c)' = ControllerRoutes(c)
         /\ LinkedGuards' = LinkedGuards
  <1>1. \A name : Contract(name)' = Contract(name)
    BY DEF Contract
  <1>. QED  BY <1>1 DEF Named, ControllerRoutes, LinkedGuards

\* The owners of namespaces stay, and with them what is in scope.
LEMMA OwnersStay ==
  ASSUME app' = app
  PROVE  /\ \A namespace : Owner(namespace)' = Owner(namespace)
         /\ \A m : Reached(m)' = Reached(m)
         /\ \A c : InScope(c)' = InScope(c)
         /\ \A c, r : RouteContext(c, r)' = RouteContext(c, r)
         /\ \A c, r : GuardContext(c, r)' = GuardContext(c, r)
  <1>1. \A namespace : Owner(namespace)' = Owner(namespace)
    BY DEF Owner
  <1>2. \A m : Reached(m)' = Reached(m)
    BY DEF Reached
  <1>3. \A c : InScope(c)' = InScope(c)
    BY <1>1, <1>2 DEF InScope
  <1>4. \A c, r : RouteContext(c, r)' = RouteContext(c, r)
    BY <1>1, <1>2 DEF RouteContext
  <1>5. \A c, r : GuardContext(c, r)' = GuardContext(c, r)
    BY <1>1, <1>2, <1>4 DEF GuardContext
  <1>. QED  BY <1>1, <1>2, <1>3, <1>4, <1>5

\* The selection stays, and all that is derived from it.
LEMMA SelectionStays ==
  ASSUME app' = app
  PROVE  /\ \A c : Selected(c)' = Selected(c)
         /\ Scoped' = Scoped
         /\ \A s : SelectedRoutes(s)' = SelectedRoutes(s)
         /\ \A s : ValidatedRoutes(s)' = ValidatedRoutes(s)
  <1>1. \A c : Selected(c)' = Selected(c)
    BY RoutesStay, OwnersStay DEF Selected
  <1>2. Scoped' = Scoped
    BY <1>1, OwnersStay DEF Scoped
  <1>3. \A s : SelectedRoutes(s)' = SelectedRoutes(s)
    BY RoutesStay DEF SelectedRoutes
  <1>4. \A s : ValidatedRoutes(s)' = ValidatedRoutes(s)
    BY RoutesStay DEF ValidatedRoutes
  <1>. QED  BY <1>1, <1>2, <1>3, <1>4

\* The strategies a guard may be bound to stay.
LEMMA BindingsStay ==
  ASSUME app' = app
  PROVE  /\ \A s, context : Visible(s, context)' = Visible(s, context)
         /\ \A g : CandidatesFor(g)' = CandidatesFor(g)
         /\ \A g : BindingFor(g)' = BindingFor(g)
         /\ Held' = Held
         /\ scope' = scope => SelectedGuards' = SelectedGuards
  <1>1. \A s : ProvidersOf(s)' = ProvidersOf(s)
    BY DEF ProvidersOf
  <1>2. \A s, context : Visible(s, context)' = Visible(s, context)
    <2>. SUFFICES ASSUME NEW s, NEW context PROVE Visible(s, context)' = Visible(s, context)
      OBVIOUS
    <2>1. ProvidersOf(s)' = ProvidersOf(s) /\ Owner(s.namespace)' = Owner(s.namespace)
      BY <1>1, OwnersStay
    <2>. QED  BY <2>1, Zenon DEF Visible
  <1>3. \A g : CandidatesFor(g)' = CandidatesFor(g)
    BY <1>2 DEF CandidatesFor
  <1>4. \A g : BindingFor(g)' = BindingFor(g)
    BY <1>3 DEF BindingFor
  <1>5. Held' = Held
    BY OwnersStay DEF Held
  <1>6. scope' = scope => SelectedGuards' = SelectedGuards
    <2>1. \A s : GuardsOf(s)' = GuardsOf(s)
      BY SelectionStays DEF GuardsOf
    <2>2. LinkedGuards' = LinkedGuards
      BY RoutesStay
    <2>3. ASSUME scope' = scope PROVE SelectedGuards' = SelectedGuards
      BY <2>1, <2>2, <2>3, Zenon DEF SelectedGuards
    <2>. QED  BY <2>3
  <1>. QED  BY <1>2, <1>3, <1>4, <1>5, <1>6

-----------------------------------------------------------------------------
(***************************************************************************)
(* What the steps rely on.                                                 *)
(***************************************************************************)
\* A controller in scope, its routes, and those it is selected with.
LEMMA ScopedController ==
  ASSUME app \in Applications, NEW s \in Scoped
  PROVE  /\ s.controller \in Range(app.controllers) /\ InScope(s.controller)
         /\ s.selected = Selected(s.controller)
         /\ ControllerRoutes(s.controller) \in Seq(ListedRoutes)
         /\ DOMAIN s.selected \subseteq DOMAIN ControllerRoutes(s.controller)
         /\ \A i \in DOMAIN s.selected :
              s.selected[i].identity = Identity(ControllerRoutes(s.controller)[i])
         /\ DOMAIN SelectedRoutes(s) \subseteq DOMAIN ControllerRoutes(s.controller)
  <1>1. PICK c \in Range(app.controllers) :
          s = [controller |-> c, selected |-> Selected(c)] /\ InScope(c)
    BY DEF Scoped
  <1>2. s.controller = c /\ s.selected = Selected(c)
    BY <1>1
  <1>3. ControllerRoutes(c) \in Seq(ListedRoutes)
    BY RoutesOfController
  <1>4. /\ DOMAIN Selected(c) \subseteq DOMAIN ControllerRoutes(c)
        /\ \A i \in DOMAIN Selected(c) :
             Selected(c)[i].identity = Identity(ControllerRoutes(c)[i])
    BY DEF Selected
  <1>5. DOMAIN SelectedRoutes(s) \subseteq DOMAIN ControllerRoutes(c)
    BY <1>2 DEF SelectedRoutes
  <1>. QED  BY <1>1, <1>2, <1>3, <1>4, <1>5

\* A selected route is a listed one, at its position.
LEMMA SelectedRoute ==
  ASSUME app \in Applications, NEW s \in Scoped, NEW i \in DOMAIN SelectedRoutes(s)
  PROVE  /\ i \in DOMAIN ControllerRoutes(s.controller)
         /\ SelectedRoutes(s)[i] = ControllerRoutes(s.controller)[i]
         /\ SelectedRoutes(s)[i] \in ListedRoutes
         /\ Selects(s, SelectedRoutes(s)[i])
  <1>1. /\ i \in DOMAIN ControllerRoutes(s.controller)
        /\ SelectedRoutes(s)[i] = ControllerRoutes(s.controller)[i]
        /\ Selects(s, ControllerRoutes(s.controller)[i])
    BY DEF SelectedRoutes
  <1>2. ControllerRoutes(s.controller) \in Seq(ListedRoutes)
    BY ScopedController
  <1>. HIDE DEF ListedRoutes
  <1>3. ControllerRoutes(s.controller)[i] \in ListedRoutes
    BY <1>1, <1>2
  <1>. QED  BY <1>1, <1>3

\* Min picks a member, here the first position that matches.
LEMMA LeastPosition ==
  ASSUME NEW S \in SUBSET Nat, S # {}
  PROVE  Min(S) \in S
  BY First DEF Min

\* A guard of an application without a root has no context.
LEMMA NoContextWithoutRoot ==
  ASSUME app \in Applications, NEW s \in Scoped, NEW r, ~ app.rooted
  PROVE  ContextFor(s, r) = NoModule
  <1>. DEFINE matching == {i \in DOMAIN s.selected : s.selected[i].identity = Identity(r)}
  <1>1. DOMAIN s.selected \subseteq Nat
    <2>1. /\ ControllerRoutes(s.controller) \in Seq(ListedRoutes)
          /\ DOMAIN s.selected \subseteq DOMAIN ControllerRoutes(s.controller)
      BY ScopedController
    <2>2. DOMAIN ControllerRoutes(s.controller) = 1 .. Len(ControllerRoutes(s.controller))
      BY <2>1
    <2>. QED  BY <2>1, <2>2
  <1>2. \A i \in DOMAIN s.selected : s.selected[i].context = NoModule
    <2>1. s.selected = Selected(s.controller)
      BY ScopedController
    <2>2. \A i \in DOMAIN Selected(s.controller) :
            Selected(s.controller)[i].context = NoModule
      BY DEF Selected
    <2>. QED  BY <2>1, <2>2
  <1>3. matching # {} => Min(matching) \in DOMAIN s.selected
    BY <1>1, LeastPosition
  <1>. QED  BY <1>2, <1>3 DEF ContextFor

\* The application holds the controllers in scope.
LEMMA ControllerHeld ==
  ASSUME app \in Applications, NEW s \in Scoped
  PROVE  s.controller.type \in Held
  <1>1. s.controller \in Range(app.controllers) /\ InScope(s.controller)
    BY ScopedController
  <1>2. PICK p \in app.providers :
          p.type = s.controller.type /\ p.namespace = s.controller.namespace
    BY <1>1, ApplicationsAssumption
  <1>. QED  BY <1>1, <1>2 DEF Held, InScope

\* Every guard of a selected route is among those that are bound.
LEMMA GuardBound ==
  ASSUME AppInv, ScopeInv, BindingsInv, phase \in Bound, NEW n \in DOMAIN scope,
         NEW i \in DOMAIN SelectedRoutes(scope[n]), SelectedRoutes(scope[n])[i].guard # NoGuard
  PROVE  FindBinding(SelectedRoutes(scope[n])[i].guard,
                     ContextFor(scope[n], SelectedRoutes(scope[n])[i])) # {}
  <1>. DEFINE s == scope[n]
              r == SelectedRoutes(s)[i]
              g == [guard |-> r.guard, context |-> ContextFor(s, r)]
  <1>1. app \in Applications /\ s \in Scoped
    BY DEF AppInv, ScopeInv
  <1>2. g \in SelectedGuards
    <2>1. CASE app.rooted
      <3>1. r \in Range(SelectedRoutes(s))
        BY DEF Range
      <3>2. g \in GuardsOf(s)
        BY <3>1 DEF GuardsOf
      <3>. QED  BY <2>1, <3>2 DEF SelectedGuards
    <2>2. CASE ~ app.rooted
      <3>1. r \in ListedRoutes
        BY <1>1, SelectedRoute
      <3>2. r.guard \in LinkedGuards
        BY <1>1, <3>1, ListedIsDeclared
      <3>3. g.context = NoModule
        BY <1>1, <2>2, NoContextWithoutRoot
      <3>. QED  BY <2>2, <3>2, <3>3 DEF SelectedGuards
    <2>. QED  BY <2>1, <2>2
  <1>3. BindingFor(g) \in bindings
    BY <1>2 DEF BindingsInv
  <1>4. BindingFor(g).guard = r.guard /\ BindingFor(g).context = ContextFor(s, r)
    BY DEF BindingFor
  <1>. QED  BY <1>3, <1>4 DEF FindBinding

\* The elements of two sequences put together.
LEMMA Concatenation ==
  ASSUME NEW S, NEW p \in Seq(S), NEW q \in Seq(S)
  PROVE  /\ Len(p) \in Nat /\ Len(q) \in Nat
         /\ DOMAIN p = 1 .. Len(p) /\ DOMAIN q = 1 .. Len(q)
         /\ DOMAIN (p \o q) = 1 .. Len(p) + Len(q)
         /\ \A k \in 1 .. Len(p) : (p \o q)[k] = p[k]
         /\ \A k \in DOMAIN (p \o q) :
              k > Len(p) => (p \o q)[k] = q[k - Len(p)] /\ k - Len(p) \in DOMAIN q
  OBVIOUS

\* What #[routes] accepts passes the validation at run time.
LEMMA AcceptedIsValid ==
  ASSUME app \in Applications, NEW t \in app.contracts, ContractAccepted(t),
         NEW i \in ActivePositions(t)
  PROVE  ValidRoute(Route(t, t.methods[i]))
  <1>. DEFINE m == t.methods[i]
              n == Len(t.prefix)
              full == t.prefix \o m.path
  <1>1. i \in DOMAIN t.methods
    BY DEF ActivePositions
  <1>2. /\ t.prefix \in Seq(Range(t.prefix)) /\ m.path \in Seq(Range(m.path))
    <2>1. m \in Range(t.methods)
      BY <1>1 DEF Range
    <2>. QED  BY <2>1, ApplicationsAssumption
  <1>3. ValidPrefix(t.prefix) /\ ValidPath(m.path)
    BY <1>1 DEF ContractAccepted
  <1>4. /\ n \in Nat /\ Len(m.path) \in Nat
        /\ DOMAIN t.prefix = 1 .. n /\ DOMAIN m.path = 1 .. Len(m.path)
        /\ DOMAIN full = 1 .. n + Len(m.path)
        /\ \A k \in 1 .. n : full[k] = t.prefix[k]
        /\ \A k \in DOMAIN full : k > n => full[k] = m.path[k - n] /\ k - n \in DOMAIN m.path
    <2>. DEFINE S == Range(t.prefix) \cup Range(m.path)
    <2>1. t.prefix \in Seq(S) /\ m.path \in Seq(S)
      BY <1>2
    <2>. HIDE DEF S, m
    <2>. QED  BY <2>1, Concatenation
  <1>. HIDE DEF full, n
  <1>5. \A k \in DOMAIN full : full[k].kind # "odd"
    <2>. SUFFICES ASSUME NEW k \in DOMAIN full PROVE full[k].kind # "odd"
      OBVIOUS
    <2>1. CASE k \in 1 .. n
      BY <1>3, <1>4, <2>1 DEF ValidPrefix, ValidPath
    <2>2. CASE k > n
      BY <1>3, <1>4, <2>2 DEF ValidPath
    <2>. QED  BY <1>4, <2>1, <2>2
  <1>6. \A k \in Captures(full) : k > n /\ k - n \in Captures(m.path) /\ full[k] = m.path[k - n]
    <2>. SUFFICES ASSUME NEW k \in Captures(full)
                  PROVE  k > n /\ k - n \in Captures(m.path) /\ full[k] = m.path[k - n]
      OBVIOUS
    <2>1. k \in DOMAIN full /\ full[k].kind = "capture"
      BY DEF Captures
    <2>2. ~ k \in 1 .. n
      BY <1>3, <1>4, <2>1 DEF ValidPrefix, Captures
    <2>3. k > n
      BY <1>4, <2>1, <2>2
    <2>. QED  BY <1>4, <2>1, <2>3 DEF Captures
  <1>7. ~ RepeatsCapture(full)
    <2>1. ASSUME NEW k \in Captures(full), NEW l \in Captures(full), k # l
          PROVE  full[k].text # full[l].text
      <3>1. k \in 1 .. n + Len(m.path) /\ l \in 1 .. n + Len(m.path)
        BY <1>4 DEF Captures
      <3>2. k - n # l - n
        BY <1>4, <2>1, <3>1
      <3>. QED  BY <1>3, <1>6, <3>2 DEF ValidPath, RepeatsCapture
    <2>. QED  BY <2>1 DEF RepeatsCapture
  <1>8. Route(t, m).prefix = t.prefix /\ Route(t, m).path = m.path /\ Route(t, m).full = full
    BY DEF Route, Joined, full
  <1>. QED
    BY <1>3, <1>5, <1>7, <1>8 DEF ValidRoute, ValidPrefix, ValidPath, Joined, full

\* The path of a listed route is a sequence.
LEMMA PathsAreSequences ==
  ASSUME app \in Applications, NEW r \in ListedRoutes
  PROVE  r.full \in Seq(Range(r.full))
  <1>1. PICK t \in Named : \E i \in ActivePositions(t) : r = Route(t, t.methods[i])
    BY ListedIsDeclared
  <1>2. PICK i \in ActivePositions(t) : r = Route(t, t.methods[i])
    BY <1>1
  <1>. DEFINE m == t.methods[i]
              S == Range(t.prefix) \cup Range(m.path)
  <1>3. t.prefix \in Seq(Range(t.prefix)) /\ m.path \in Seq(Range(m.path))
    <2>1. t \in app.contracts /\ m \in Range(t.methods)
      BY DEF Named, ActivePositions, Range
    <2>. QED  BY <2>1, ApplicationsAssumption
  <1>4. r.full = t.prefix \o m.path
    BY <1>2 DEF Route, Joined
  <1>. DEFINE full == r.full
  <1>5. full \in Seq(S)
    BY <1>3, <1>4
  <1>6. \A k \in 1 .. Len(full) : full[k] \in Range(full)
    <2>1. DOMAIN full = 1 .. Len(full)
      BY <1>5
    <2>. QED  BY <2>1 DEF Range
  <1>. HIDE DEF full, S
  <1>7. full \in Seq(Range(full))
    BY <1>5, <1>6
  <1>. QED  BY <1>7 DEF full

\* Among routes of different keys an identity tells the position, so what is
\* selected by identity was selected at its position.
LEMMA SelectedAtItsPosition ==
  ASSUME app \in Applications, NEW s \in Scoped, NEW i \in DOMAIN SelectedRoutes(s),
         \A k, l \in DOMAIN SelectedRoutes(s) :
           RouteKey(SelectedRoutes(s)[k]) = RouteKey(SelectedRoutes(s)[l]) => k = l
  PROVE  i \in DOMAIN s.selected
  <1>. DEFINE routes == ControllerRoutes(s.controller)
  <1>1. PICK j \in DOMAIN s.selected : s.selected[j].identity = Identity(SelectedRoutes(s)[i])
    BY SelectedRoute DEF Selects
  <1>2. j \in DOMAIN routes /\ s.selected[j].identity = Identity(routes[j])
    BY ScopedController
  <1>3. Selects(s, routes[j])
    BY <1>2 DEF Selects
  <1>4. j \in DOMAIN SelectedRoutes(s) /\ SelectedRoutes(s)[j] = routes[j]
    BY <1>2, <1>3 DEF SelectedRoutes
  <1>5. RouteKey(SelectedRoutes(s)[j]) = RouteKey(SelectedRoutes(s)[i])
    BY <1>1, <1>2, <1>4 DEF Identity, RouteKey
  <1>. QED  BY <1>1, <1>4, <1>5

\* Routes of one method and shape have one key.
LEMMA ShapesHaveKeys ==
  ASSUME NEW p, NEW q, SameShape(p, q), DOMAIN p = DOMAIN q
  PROVE  Canonical(p) = Canonical(q)
  <1>1. ASSUME NEW k \in DOMAIN p
        PROVE  Canonical(p)[k] = Canonical(q)[k]
    BY DEF SameShape, Canonical
  <1>. QED  BY <1>1 DEF Canonical

-----------------------------------------------------------------------------
(***************************************************************************)
(* The invariant holds at first, and each step preserves it.               *)
(***************************************************************************)
\* Nothing is selected, bound, validated or installed at first.
LEMMA RoutingInitially == RoutingInit => RoutingInv
  <1>. SUFFICES ASSUME RoutingInit PROVE RoutingInv
    OBVIOUS
  <1>. USE DEF RoutingInit, Installing, Bound
  <1>1. AppInv
    BY DEF AppInv, Phases, Nothing
  <1>2. ScopeInv
    BY << >> \in Seq(Scoped) DEF ScopeInv
  <1>3. BindingsInv
    BY DEF BindingsInv
  <1>4. ValidatedInv
    <2>1. << >> \in Seq({ValidatedRoutes(s) : s \in Scoped}) /\ Len(<< >>) <= Len(<< >>)
          /\ DOMAIN << >> = {}
      OBVIOUS
    <2>. QED  BY <2>1 DEF ValidatedInv
  <1>5. RouterInv
    BY DEF RouterInv
  <1>. QED  BY <1>1, <1>2, <1>3, <1>4, <1>5 DEF RoutingInv

\* The parts of the invariant that a step does not touch.
LEMMA Untouched ==
  ASSUME app' = app, UNCHANGED scope
  PROVE  /\ ScopeInv => ScopeInv'
         /\ BindingsInv /\ UNCHANGED bindings /\ (phase' \in Bound => phase \in Bound) =>
              BindingsInv'
         /\ /\ ValidatedInv /\ UNCHANGED <<validated, seen>>
            /\ phase' \in {"expanding", "scoping", "binding"} =>
                 phase \in {"expanding", "scoping", "binding"}
            => ValidatedInv'
         /\ /\ RouterInv /\ UNCHANGED <<validated, bindings, cursor, router>>
            /\ phase' \in Installing <=> phase \in Installing
            => RouterInv'
  <1>1. ScopeInv => ScopeInv'
    BY SelectionStays DEF ScopeInv
  <1>2. ASSUME BindingsInv, UNCHANGED bindings, phase' \in Bound => phase \in Bound
        PROVE  BindingsInv'
    <2>1. phase' \in Bound => bindings' = {BindingFor(g)' : g \in SelectedGuards'}
      BY <1>2, BindingsStay DEF BindingsInv
    <2>2. \A b \in bindings' : /\ b.strategy.principal = b.guard.principal
                               /\ b.strategy = BuiltinStrategy \/ Visible(b.strategy, b.context)'
      BY <1>2, BindingsStay DEF BindingsInv
    <2>. QED  BY <2>1, <2>2 DEF BindingsInv
  <1>3. ASSUME ValidatedInv, UNCHANGED <<validated, seen>>,
               phase' \in {"expanding", "scoping", "binding"} =>
                 phase \in {"expanding", "scoping", "binding"}
        PROVE  ValidatedInv'
    <2>1. /\ \A n : Positions(n)' = Positions(n)
          /\ \A n, i : Key(n, i)' = Key(n, i)
      BY SelectionStays DEF Positions, Key
    <2>2. {ValidatedRoutes(s)' : s \in Scoped'} = {ValidatedRoutes(s) : s \in Scoped}
      BY SelectionStays
    <2>3. \A n : ValidatedRoutes(scope[n])' = ValidatedRoutes(scope[n])
      BY SelectionStays
    <2>. QED  BY <1>3, <2>1, <2>2, <2>3 DEF ValidatedInv
  <1>4. ASSUME RouterInv, UNCHANGED <<validated, bindings, cursor, router>>,
               phase' \in Installing <=> phase \in Installing
        PROVE  RouterInv'
    <2>1. \A r, c, t, m : Installed(r, c, t, m)' = Installed(r, c, t, m)
      BY <1>4, OwnersStay DEF Installed
    <2>. QED  BY <1>4, <2>1, RoutesStay DEF RouterInv
  <1>. QED  BY <1>1, <1>2, <1>3, <1>4

\* The attributes accept every contract, or the program does not compile.
LEMMA ExpandPreserves == RoutingInv /\ Expand => RoutingInv'
  <1>. SUFFICES ASSUME RoutingInv, Expand PROVE RoutingInv'
    OBVIOUS
  <1>. USE DEF Expand, Refuse, Installing, Bound
  <1>1. AppInv'
    BY DEF RoutingInv, AppInv, Phases
  <1>. QED  BY <1>1, Untouched DEF RoutingInv

\* Scope selection takes controllers that are in scope.
LEMMA SelectScopePreserves == RoutingInv /\ SelectScope => RoutingInv'
  <1>. SUFFICES ASSUME RoutingInv, SelectScope PROVE RoutingInv'
    OBVIOUS
  <1>1. /\ phase = "scoping" /\ phase' = "binding"
        /\ UNCHANGED <<app, failure, bindings, validated, seen, cursor, router>>
    BY DEF SelectScope
  <1>2. AppInv'
    BY <1>1 DEF RoutingInv, AppInv, Phases
  <1>3. ScopeInv'
    <2>. DEFINE inScope == {i \in DOMAIN app.controllers : InScope(app.controllers[i])}
                chosen == At(app.controllers, inScope)
                T == {app.controllers[i] : i \in DOMAIN app.controllers \cap inScope}
    <2>1. app.controllers \in Seq(Range(app.controllers))
      BY ApplicationsAssumption DEF RoutingInv, AppInv
    <2>2. chosen \in Seq(T)
      BY <2>1, AtSelects
    <2>3. \A c \in T : c \in Range(app.controllers) /\ InScope(c)
      BY DEF Range
    <2>4. scope' = [i \in DOMAIN chosen |->
                     [controller |-> chosen[i], selected |-> Selected(chosen[i])]]
      BY DEF SelectScope
    <2>. HIDE DEF T, chosen
    <2>5. /\ DOMAIN chosen = 1 .. Len(chosen) /\ Len(chosen) \in Nat
          /\ \A i \in 1 .. Len(chosen) : chosen[i] \in T
      BY <2>2
    <2>6. \A i \in 1 .. Len(chosen) :
            [controller |-> chosen[i], selected |-> Selected(chosen[i])] \in Scoped
      BY <2>3, <2>5 DEF Scoped
    <2>7. scope' \in Seq(Scoped)
      BY <2>4, <2>5, <2>6
    <2>. QED  BY <1>1, <2>7, SelectionStays DEF ScopeInv
  <1>4. BindingsInv'
    BY <1>1, BindingsStay DEF RoutingInv, BindingsInv, Bound, Installing
  <1>5. ValidatedInv'
    <2>1. validated' = << >>
      BY <1>1 DEF RoutingInv, ValidatedInv
    <2>2. /\ << >> \in Seq({ValidatedRoutes(s)' : s \in Scoped'})
          /\ DOMAIN << >> = {} /\ Len(<< >>) = 0
      OBVIOUS
    <2>3. Len(scope') \in Nat
      BY <1>3 DEF ScopeInv
    <2>. QED  BY <1>1, <2>1, <2>2, <2>3 DEF ValidatedInv
  <1>6. RouterInv'
    BY <1>1 DEF RoutingInv, RouterInv, Installing
  <1>. QED  BY <1>2, <1>3, <1>4, <1>5, <1>6 DEF RoutingInv

\* A guard without a problem gets a strategy that makes its principal, and that
\* its context may use.
LEMMA BoundWell ==
  ASSUME NEW g, GuardProblem(g) = Nothing
  PROVE  /\ BindingFor(g).strategy.principal = BindingFor(g).guard.principal
         /\ \/ BindingFor(g).strategy = BuiltinStrategy
            \/ Visible(BindingFor(g).strategy, BindingFor(g).context)
  <1>1. /\ CandidatesFor(g) = {} => Builtin(g.guard)
        /\ \A s \in CandidatesFor(g) : s.principal = g.guard.principal
    BY DEF GuardProblem, Nothing
  <1>2. BindingFor(g).guard = g.guard /\ BindingFor(g).context = g.context
    BY DEF BindingFor
  <1>3. CASE CandidatesFor(g) = {}
    <2>1. BindingFor(g).strategy = BuiltinStrategy
      BY <1>3 DEF BindingFor
    <2>. QED  BY <1>1, <1>2, <1>3, <2>1 DEF Builtin, BuiltinStrategy
  <1>4. CASE CandidatesFor(g) # {}
    <2>1. BindingFor(g).strategy \in CandidatesFor(g)
      BY <1>4 DEF BindingFor
    <2>. QED  BY <1>1, <1>2, <2>1 DEF CandidatesFor
  <1>. QED  BY <1>3, <1>4

\* The preflight binds all guards, or refuses for a reason of its own.
LEMMA BindGuardsPreserves == RoutingInv /\ BindGuards => RoutingInv'
  <1>. SUFFICES ASSUME RoutingInv, BindGuards PROVE RoutingInv'
    OBVIOUS
  <1>. DEFINE problems == {GuardProblem(g) : g \in SelectedGuards} \ {Nothing}
  <1>1. phase = "binding" /\ UNCHANGED <<app, scope, validated, seen, cursor, router>>
    BY DEF BindGuards
  <1>2. CASE /\ phase' = "refused" /\ UNCHANGED bindings
             /\ failure' \in {CatalogProblem} \cup problems /\ failure' # Nothing
    <2>1. AppInv'
      <3>1. CatalogProblem \in {Nothing, "duplicate strategy", "reserved kind", "unmanaged strategy"}
        BY DEF CatalogProblem
      <3>2. \A g : GuardProblem(g) \in
              {Nothing, "ambiguous strategy", "missing strategy", "principal mismatch"}
        BY DEF GuardProblem
      <3>3. failure' \notin {"route", "registrar", "controller", "binding"}
        BY <1>2, <3>1, <3>2
      <3>. QED  BY <1>1, <1>2, <3>3 DEF RoutingInv, AppInv, Phases, Bound, Installing
    <2>. QED  BY <1>1, <1>2, <2>1, Untouched DEF RoutingInv, Bound, Installing
  <1>3. CASE /\ phase' = "validating" /\ UNCHANGED failure /\ problems = {}
             /\ bindings' = {BindingFor(g) : g \in SelectedGuards}
    <2>1. AppInv'
      BY <1>1, <1>3 DEF RoutingInv, AppInv, Phases, Bound, Installing
    <2>2. \A g \in SelectedGuards : GuardProblem(g) = Nothing
      BY <1>3
    <2>3. BindingsInv'
      <3>1. bindings' = {BindingFor(g)' : g \in SelectedGuards'}
        BY <1>1, <1>3, BindingsStay
      <3>2. \A b \in bindings' : /\ b.strategy.principal = b.guard.principal
                                 /\ b.strategy = BuiltinStrategy \/ Visible(b.strategy, b.context)
        BY <1>3, <2>2, BoundWell
      <3>. QED  BY <1>1, <3>1, <3>2, BindingsStay DEF BindingsInv
    <2>4. RouterInv'
      BY <1>1, <1>3 DEF RoutingInv, RouterInv, Installing
    <2>. QED  BY <1>1, <1>3, <2>1, <2>3, <2>4, Untouched DEF RoutingInv
  <1>4. \/ /\ phase' = "refused" /\ UNCHANGED bindings
           /\ failure' \in {CatalogProblem} \cup problems /\ failure' # Nothing
        \/ /\ phase' = "validating" /\ UNCHANGED failure /\ problems = {}
           /\ bindings' = {BindingFor(g) : g \in SelectedGuards}
    <2>1. CASE CatalogProblem # Nothing
      BY <2>1 DEF BindGuards, Refuse
    <2>2. CASE CatalogProblem = Nothing /\ problems # {}
      <3>1. (CHOOSE p \in problems : TRUE) \in problems
        BY <2>2
      <3>2. failure' = (CHOOSE p \in problems : TRUE) /\ phase' = "refused" /\ UNCHANGED bindings
        BY <2>2 DEF BindGuards, Refuse
      <3>. QED  BY <3>1, <3>2
    <2>3. CASE CatalogProblem = Nothing /\ problems = {}
      BY <2>3 DEF BindGuards, Refuse
    <2>. QED  BY <2>1, <2>2, <2>3
  <1>. QED  BY <1>2, <1>3, <1>4

\* A validated controller has routes of keys that are new.
LEMMA ValidateControllerPreserves == RoutingInv /\ ValidateController => RoutingInv'
  <1>. SUFFICES ASSUME RoutingInv, ValidateController PROVE RoutingInv'
    OBVIOUS
  <1>. DEFINE n == Len(validated) + 1
              s == scope[n]
              routes == SelectedRoutes(s)
  <1>1. /\ phase = "validating" /\ Len(validated) < Len(scope)
        /\ UNCHANGED <<app, scope, bindings, cursor, router>>
    BY DEF ValidateController
  <1>2. /\ app \in Applications /\ scope \in Seq(Scoped)
        /\ validated \in Seq({ValidatedRoutes(x) : x \in Scoped})
    BY DEF RoutingInv, AppInv, ScopeInv, ValidatedInv
  <1>3. n \in 1 .. Len(scope) /\ s \in Scoped /\ Len(validated) \in Nat /\ Len(scope) \in Nat
        /\ DOMAIN scope = 1 .. Len(scope) /\ DOMAIN validated = 1 .. Len(validated)
    BY <1>1, <1>2
  <1>4. \A i \in DOMAIN routes : ValidRoute(routes[i])
    <2>. SUFFICES ASSUME NEW i \in DOMAIN routes PROVE ValidRoute(routes[i])
      OBVIOUS
    <2>1. routes[i] \in ListedRoutes
      BY <1>2, <1>3, SelectedRoute
    <2>2. PICK t \in Named : \E k \in ActivePositions(t) : routes[i] = Route(t, t.methods[k])
      BY <1>2, <2>1, ListedIsDeclared
    <2>3. t \in app.contracts /\ ContractAccepted(t)
      BY <1>1 DEF Named, RoutingInv, AppInv, Bound
    <2>. QED  BY <1>2, <2>2, <2>3, AcceptedIsValid
  <1>5. CASE /\ phase' = "refused" /\ failure' \in {"identity", "empty contract", "conflict"}
             /\ UNCHANGED <<validated, seen>>
    <2>1. AppInv'
      BY <1>1, <1>5 DEF RoutingInv, AppInv, Phases, Bound, Installing
    <2>. QED  BY <1>1, <1>5, <2>1, Untouched DEF RoutingInv, Bound, Installing
  <1>6. CASE /\ UNCHANGED <<phase, failure>> /\ ~ Conflicts(routes)
             /\ validated' = Append(validated, ValidatedRoutes(s))
             /\ seen' = seen \cup {RouteKey(routes[i]) : i \in DOMAIN routes}
    <2>1. AppInv'
      BY <1>1, <1>6 DEF RoutingInv, AppInv, Bound
    <2>2. ValidatedInv'
      <3>1. /\ Len(validated') = n /\ DOMAIN validated' = 1 .. n
            /\ validated'[n] = ValidatedRoutes(s)
            /\ \A m \in DOMAIN validated : validated'[m] = validated[m] /\ m # n
            /\ \A m \in DOMAIN validated' : m = n \/ m \in DOMAIN validated
        BY <1>2, <1>3, <1>6
      <3>2. validated' \in Seq({ValidatedRoutes(x) : x \in Scoped})
        <4>1. ValidatedRoutes(s) \in {ValidatedRoutes(x) : x \in Scoped}
          BY <1>3
        <4>. QED  BY <1>2, <1>6, <4>1
      <3>3. {ValidatedRoutes(x)' : x \in Scoped'} = {ValidatedRoutes(x) : x \in Scoped}
        BY <1>1, SelectionStays
      <3>4. /\ \A m : Positions(m)' = Positions(m)
            /\ \A m, i : Key(m, i)' = Key(m, i)
            /\ \A m : ValidatedRoutes(scope[m])' = ValidatedRoutes(scope[m])
        BY <1>1, SelectionStays DEF Positions, Key
      <3>5. ASSUME NEW m \in DOMAIN validated'
            PROVE  /\ validated'[m] = ValidatedRoutes(scope[m])
                   /\ \A i \in Positions(m) : Key(m, i) \in seen'
        <4>1. CASE m = n
          BY <1>6, <3>1, <4>1 DEF Positions, Key
        <4>2. CASE m \in DOMAIN validated
          BY <1>6, <3>1, <4>2 DEF RoutingInv, ValidatedInv
        <4>. QED  BY <3>1, <4>1, <4>2
      <3>6. ASSUME NEW m \in DOMAIN validated', NEW i \in Positions(m), NEW j \in Positions(n),
                   Key(m, i) = Key(n, j)
            PROVE  m = n /\ i = j
        <4>1. Key(n, j) = RouteKey(routes[j]) /\ j \in DOMAIN routes
          BY DEF Key, Positions
        <4>2. Key(n, j) \notin seen
          BY <1>6, <4>1 DEF Conflicts
        <4>3. m \notin DOMAIN validated
          BY <3>6, <4>2 DEF RoutingInv, ValidatedInv
        <4>4. m = n
          BY <3>1, <4>3
        <4>5. Key(m, i) = RouteKey(routes[i]) /\ i \in DOMAIN routes
          BY <4>4 DEF Key, Positions
        <4>. QED  BY <1>6, <3>6, <4>1, <4>4, <4>5 DEF Conflicts
      <3>7. \A l, m \in DOMAIN validated' : \A i \in Positions(l), j \in Positions(m) :
              Key(l, i) = Key(m, j) => l = m /\ i = j
        <4>. SUFFICES ASSUME NEW l \in DOMAIN validated', NEW m \in DOMAIN validated',
                             NEW i \in Positions(l), NEW j \in Positions(m), Key(l, i) = Key(m, j)
                      PROVE  l = m /\ i = j
          OBVIOUS
        <4>1. CASE m = n
          BY <3>6, <4>1
        <4>2. CASE l = n
          BY <3>6, <4>2
        <4>3. CASE l \in DOMAIN validated /\ m \in DOMAIN validated
          BY <4>3 DEF RoutingInv, ValidatedInv
        <4>. QED  BY <3>1, <4>1, <4>2, <4>3
      <3>8. phase' = "validating" /\ Len(validated') <= Len(scope')
        BY <1>1, <1>3, <1>6, <3>1
      <3>. QED  BY <1>1, <3>2, <3>3, <3>4, <3>5, <3>7, <3>8 DEF ValidatedInv
    <2>3. RouterInv'
      BY <1>1, <1>6 DEF RoutingInv, RouterInv, Installing
    <2>. QED  BY <1>1, <1>6, <2>1, <2>2, <2>3, Untouched DEF RoutingInv
  <1>7. \/ /\ phase' = "refused" /\ failure' \in {"identity", "empty contract", "conflict"}
           /\ UNCHANGED <<validated, seen>>
        \/ /\ UNCHANGED <<phase, failure>> /\ ~ Conflicts(routes)
           /\ validated' = Append(validated, ValidatedRoutes(s))
           /\ seen' = seen \cup {RouteKey(routes[i]) : i \in DOMAIN routes}
    BY <1>4 DEF ValidateController, Refuse
  <1>. QED  BY <1>5, <1>6, <1>7


\* The registrars start when all controllers are validated.
LEMMA StartInstallingPreserves == RoutingInv /\ StartInstalling => RoutingInv'
  <1>. SUFFICES ASSUME RoutingInv, StartInstalling PROVE RoutingInv'
    OBVIOUS
  <1>1. /\ phase = "validating" /\ Len(validated) = Len(scope) /\ phase' = "installing"
        /\ UNCHANGED <<app, failure, scope, bindings, validated, seen, cursor, router>>
    BY DEF StartInstalling
  <1>2. AppInv'
    BY <1>1 DEF RoutingInv, AppInv, Phases, Bound, Installing
  <1>3. RouterInv'
    BY <1>1 DEF RoutingInv, RouterInv, Installing
  <1>. QED  BY <1>1, <1>2, <1>3, Untouched DEF RoutingInv, Bound, Installing

\* What a registrar meets: the routes of its controller as they were validated,
\* each in the list at its position.
LEMMA RegistrarMeetsItsList ==
  ASSUME RoutingInv, phase \in Installing, NEW n \in 1 .. Len(scope)
  PROVE  /\ app \in Applications /\ scope[n] \in Scoped /\ n \in DOMAIN scope
         /\ n \in DOMAIN validated /\ validated[n] = ValidatedRoutes(scope[n])
         /\ DOMAIN validated[n] = 1 .. Len(ControllerRoutes(scope[n].controller))
         /\ Len(validated[n]) = Len(ControllerRoutes(scope[n].controller))
         /\ Len(ControllerRoutes(scope[n].controller)) \in Nat
         /\ \A i \in DOMAIN validated[n] :
              LET r == ControllerRoutes(scope[n].controller)[i] IN
              /\ r \in ListedRoutes
              /\ validated[n][i] =
                   [verb |-> r.verb, handler |-> r.handler, selected |-> Selects(scope[n], r),
                    path |-> r.full, context |-> ContextFor(scope[n], r)]
              /\ validated[n][i].selected => /\ i \in DOMAIN SelectedRoutes(scope[n])
                                             /\ SelectedRoutes(scope[n])[i] = r
         /\ \A k, l \in DOMAIN SelectedRoutes(scope[n]) :
              RouteKey(SelectedRoutes(scope[n])[k]) = RouteKey(SelectedRoutes(scope[n])[l]) => k = l
  <1>. DEFINE s == scope[n]
              routes == ControllerRoutes(s.controller)
  <1>1. /\ app \in Applications /\ scope \in Seq(Scoped)
        /\ validated \in Seq({ValidatedRoutes(x) : x \in Scoped})
        /\ Len(validated) = Len(scope)
    BY DEF RoutingInv, AppInv, ScopeInv, ValidatedInv, RouterInv
  <1>2. s \in Scoped /\ n \in DOMAIN scope /\ n \in DOMAIN validated
    BY <1>1
  <1>3. routes \in Seq(ListedRoutes)
    BY <1>1, <1>2, ScopedController
  <1>4. validated[n] = ValidatedRoutes(s)
    BY <1>2 DEF RoutingInv, ValidatedInv
  <1>. HIDE DEF s
  <1>5. validated[n] =
          [i \in DOMAIN routes |->
             [verb |-> routes[i].verb, handler |-> routes[i].handler,
              selected |-> Selects(s, routes[i]),
              path |-> routes[i].full, context |-> ContextFor(s, routes[i])]]
    BY <1>4 DEF ValidatedRoutes
  <1>. HIDE DEF routes
  <1>6. DOMAIN routes = 1 .. Len(routes) /\ Len(routes) \in Nat
        /\ \A i \in DOMAIN routes : routes[i] \in ListedRoutes
    BY <1>3
  <1>7. DOMAIN validated[n] = 1 .. Len(routes)
    BY <1>5, <1>6
  <1>8. Len(validated[n]) = Len(routes)
    BY <1>5, <1>6, <1>7
  <1>9. \A i \in DOMAIN routes : Selects(s, routes[i]) =>
          i \in DOMAIN SelectedRoutes(s) /\ SelectedRoutes(s)[i] = routes[i]
    BY DEF SelectedRoutes, routes
  <1>10. ASSUME NEW i \in DOMAIN validated[n]
         PROVE  /\ routes[i] \in ListedRoutes
                /\ validated[n][i] =
                     [verb |-> routes[i].verb, handler |-> routes[i].handler,
                      selected |-> Selects(s, routes[i]),
                      path |-> routes[i].full, context |-> ContextFor(s, routes[i])]
                /\ validated[n][i].selected => /\ i \in DOMAIN SelectedRoutes(s)
                                               /\ SelectedRoutes(s)[i] = routes[i]
    BY <1>5, <1>6, <1>7, <1>9
  <1>11. \A k, l \in DOMAIN SelectedRoutes(s) :
           RouteKey(SelectedRoutes(s)[k]) = RouteKey(SelectedRoutes(s)[l]) => k = l
    BY <1>2 DEF RoutingInv, ValidatedInv, Positions, Key, s
  <1>. QED  BY <1>1, <1>2, <1>4, <1>6, <1>7, <1>8, <1>10, <1>11 DEF s, routes

\* A route is installed as its contract declares it, or Axum panics.
LEMMA InstallRoutePreserves == RoutingInv /\ InstallRoute => RoutingInv'
  <1>. SUFFICES ASSUME RoutingInv, InstallRoute PROVE RoutingInv'
    OBVIOUS
  <1>. DEFINE n == cursor.controller
              i == cursor.asked + 1
              s == scope[n]
              c == s.controller
              r == ControllerRoutes(c)[i]
              listed == validated[n][i]
              found == FindBinding(r.guard, listed.context)
              entry == [verb |-> r.verb, full |-> listed.path, handler |-> r.handler,
                        trait |-> r.trait, controller |-> c,
                        layer |-> IF r.guard = NoGuard THEN {} ELSE {CHOOSE b \in found : TRUE}]
  <1>1. /\ phase = "installing" /\ n <= Len(scope) /\ cursor.asked < Len(ControllerRoutes(c))
        /\ UNCHANGED <<app, scope, bindings, validated, seen>>
    BY DEF InstallRoute, Registering
  <1>2. cursor \in [controller : Nat \ {0}, asked : Nat]
    BY DEF RoutingInv, RouterInv
  <1>3. app \in Applications /\ scope \in Seq(Scoped)
    BY DEF RoutingInv, AppInv, ScopeInv
  <1>4. n \in 1 .. Len(scope)
    BY <1>1, <1>2, <1>3
  <1>5. /\ s \in Scoped /\ n \in DOMAIN scope
        /\ Len(ControllerRoutes(c)) \in Nat /\ Len(validated[n]) = Len(ControllerRoutes(c))
        /\ DOMAIN validated[n] = 1 .. Len(ControllerRoutes(c))
    BY <1>1, <1>4, RegistrarMeetsItsList DEF Installing
  <1>6. i \in DOMAIN validated[n] /\ ~ (cursor.asked >= Len(validated[n]))
    BY <1>1, <1>2, <1>5
  <1>7. /\ r \in ListedRoutes
        /\ listed = [verb |-> r.verb, handler |-> r.handler, selected |-> Selects(s, r),
                     path |-> r.full, context |-> ContextFor(s, r)]
        /\ listed.selected => i \in DOMAIN SelectedRoutes(s) /\ SelectedRoutes(s)[i] = r
        /\ \A k, l \in DOMAIN SelectedRoutes(s) :
             RouteKey(SelectedRoutes(s)[k]) = RouteKey(SelectedRoutes(s)[l]) => k = l
    <2>1. \A k \in DOMAIN validated[n] :
            LET q == ControllerRoutes(c)[k] IN
            /\ q \in ListedRoutes
            /\ validated[n][k] =
                 [verb |-> q.verb, handler |-> q.handler, selected |-> Selects(s, q),
                  path |-> q.full, context |-> ContextFor(s, q)]
            /\ validated[n][k].selected => k \in DOMAIN SelectedRoutes(s) /\ SelectedRoutes(s)[k] = q
      BY <1>1, <1>4, RegistrarMeetsItsList DEF Installing
    <2>2. \A k, l \in DOMAIN SelectedRoutes(s) :
            RouteKey(SelectedRoutes(s)[k]) = RouteKey(SelectedRoutes(s)[l]) => k = l
      BY <1>1, <1>4, RegistrarMeetsItsList DEF Installing
    <2>. HIDE DEF n, i
    <2>. QED  BY <1>6, <2>1, <2>2
  <1>8. c.type \in Held
    BY <1>3, <1>5, ControllerHeld
  <1>9. listed.selected /\ r.guard # NoGuard => found # {}
    BY <1>1, <1>5, <1>7, GuardBound DEF RoutingInv, Bound, Installing
  <1>10. listed.verb = r.verb /\ listed.handler = r.handler
    BY <1>7
  <1>11. \/ phase' = "panicked" /\ UNCHANGED <<failure, cursor, router>>
         \/ /\ cursor' = [cursor EXCEPT !.asked = @ + 1] /\ UNCHANGED <<phase, failure>>
            /\ \/ UNCHANGED router
               \/ listed.selected /\ router' = router \cup {entry}
    BY <1>6, <1>8, <1>9, <1>10 DEF InstallRoute, Registering, Listed
  <1>. HIDE DEF listed, found, r
  <1>12. AppInv'
    BY <1>1, <1>11 DEF RoutingInv, AppInv, Phases, Bound, Installing
  <1>13. \A q, d, t, m : Installed(q, d, t, m)' = Installed(q, d, t, m)
    BY <1>1, OwnersStay DEF Installed
  <1>14. ASSUME listed.selected
         PROVE  \E t \in Named : \E k \in ActivePositions(t) : Installed(entry, c, t, t.methods[k])
    <2>1. PICK t \in Named : \E j \in ActivePositions(t) : r = Route(t, t.methods[j])
      BY <1>3, <1>7, ListedIsDeclared
    <2>2. PICK k \in ActivePositions(t) : r = Route(t, t.methods[k])
      BY <2>1
    <2>. DEFINE m == t.methods[k]
    <2>3. r.trait = t.name /\ r.handler = m.handler /\ r.guard = GuardOf(t, m)
      BY <2>2 DEF Route
    <2>4. InScope(c) /\ s.selected = Selected(c)
      BY <1>3, <1>5, ScopedController
    <2>5. i \in DOMAIN s.selected
      BY <1>3, <1>5, <1>7, <1>14, SelectedAtItsPosition
    <2>6. app.rooted => RouteContext(c, r) # NoModule
      BY <2>4, <2>5 DEF Selected, r
    <2>7. r.guard # NoGuard => \E b \in bindings : entry.layer = {b} /\ b.guard = r.guard
      <3>1. ASSUME r.guard # NoGuard PROVE (CHOOSE b \in found : TRUE) \in found
        BY <1>9, <1>14, <3>1
      <3>. QED  BY <3>1 DEF found, FindBinding
    <2>8. r.guard = NoGuard => entry.layer = {}
      OBVIOUS
    <2>9. entry.controller = c /\ entry.trait = r.trait /\ entry.handler = r.handler
      OBVIOUS
    <2>. HIDE DEF entry, m
    <2>10. Installed(entry, c, t, m)
      BY <2>2, <2>3, <2>4, <2>6, <2>7, <2>8, <2>9 DEF Installed, m
    <2>. QED  BY <2>10 DEF m
  <1>15. c \in Range(app.controllers)
    BY <1>3, <1>5, ScopedController
  <1>16. RouterInv'
    <2>1. cursor' \in [controller : Nat \ {0}, asked : Nat]
      BY <1>2, <1>11
    <2>2. phase' \in Installing /\ Len(validated') = Len(scope')
      BY <1>1, <1>11 DEF RoutingInv, RouterInv, Installing
    <2>. HIDE DEF entry, c
    <2>3. ASSUME NEW q \in router'
          PROVE  \E d \in Range(app.controllers), t \in Named : \E k \in ActivePositions(t) :
                   Installed(q, d, t, t.methods[k])
      <3>1. CASE q \in router
        BY <3>1 DEF RoutingInv, RouterInv
      <3>2. CASE listed.selected /\ q = entry
        BY <1>14, <1>15, <3>2
      <3>. QED  BY <1>11, <3>1, <3>2
    <2>4. app' = app /\ Named' = Named
      BY <1>1, RoutesStay
    <2>. QED  BY <1>13, <2>1, <2>2, <2>3, <2>4 DEF RouterInv
  <1>17. phase' \in Bound /\ phase \in Bound
         /\ phase' \notin {"expanding", "scoping", "binding"}
    BY <1>1, <1>11 DEF Bound, Installing
  <1>. QED  BY <1>1, <1>12, <1>16, <1>17, Untouched DEF RoutingInv

\* A registrar that is done has asked for every route of its list.
LEMMA FinishControllerPreserves == RoutingInv /\ FinishController => RoutingInv'
  <1>. SUFFICES ASSUME RoutingInv, FinishController PROVE RoutingInv'
    OBVIOUS
  <1>1. /\ phase = "installing" /\ cursor.controller <= Len(scope)
        /\ cursor.asked = Len(ControllerRoutes(scope[cursor.controller].controller))
        /\ UNCHANGED <<app, scope, bindings, validated, seen, router>>
    BY DEF FinishController, Registering
  <1>2. cursor \in [controller : Nat \ {0}, asked : Nat] /\ scope \in Seq(Scoped)
    BY DEF RoutingInv, RouterInv, ScopeInv
  <1>3. cursor.controller \in 1 .. Len(scope)
    BY <1>1, <1>2
  <1>4. ~ (cursor.asked < Len(validated[cursor.controller]))
    BY <1>1, <1>2, <1>3, RegistrarMeetsItsList DEF Installing
  <1>5. cursor' = [controller |-> cursor.controller + 1, asked |-> 0] /\ UNCHANGED <<phase, failure>>
    BY <1>4 DEF FinishController, Listed
  <1>6. AppInv'
    BY <1>1, <1>5 DEF RoutingInv, AppInv
  <1>7. RouterInv'
    <2>1. cursor' \in [controller : Nat \ {0}, asked : Nat]
      BY <1>2, <1>5
    <2>2. \A r, c, t, m : Installed(r, c, t, m)' = Installed(r, c, t, m)
      BY <1>1, OwnersStay DEF Installed
    <2>3. Named' = Named
      BY <1>1, RoutesStay
    <2>. QED  BY <1>1, <1>5, <2>1, <2>2, <2>3 DEF RoutingInv, RouterInv
  <1>. QED  BY <1>1, <1>5, <1>6, <1>7, Untouched DEF RoutingInv

\* The router is built when the last registrar is done.
LEMMA RouterBuiltPreserves == RoutingInv /\ RouterBuilt => RoutingInv'
  <1>. SUFFICES ASSUME RoutingInv, RouterBuilt PROVE RoutingInv'
    OBVIOUS
  <1>1. /\ phase = "installing" /\ phase' = "built"
        /\ UNCHANGED <<app, failure, scope, bindings, validated, seen, cursor, router>>
    BY DEF RouterBuilt
  <1>2. AppInv'
    BY <1>1 DEF RoutingInv, AppInv, Phases, Bound, Installing
  <1>. QED  BY <1>1, <1>2, Untouched DEF RoutingInv, Bound, Installing

\* Every step of build_router preserves the invariant, and so does a request.
LEMMA RoutingPreserves == RoutingInv /\ (RoutingNext \/ UNCHANGED routingVars) => RoutingInv'
  <1>1. RoutingInv /\ UNCHANGED routingVars => RoutingInv'
    <2>. SUFFICES ASSUME RoutingInv, UNCHANGED routingVars PROVE RoutingInv'
      OBVIOUS
    <2>1. UNCHANGED <<app, phase, failure, scope, bindings, validated, seen, cursor, router>>
      BY DEF routingVars
    <2>2. AppInv'
      BY <2>1 DEF RoutingInv, AppInv
    <2>. QED  BY <2>1, <2>2, Untouched DEF RoutingInv
  <1>. QED
    BY <1>1, ExpandPreserves, SelectScopePreserves, BindGuardsPreserves,
       ValidateControllerPreserves, StartInstallingPreserves, InstallRoutePreserves,
       FinishControllerPreserves, RouterBuiltPreserves DEF RoutingNext

-----------------------------------------------------------------------------
(***************************************************************************)
(* The inductive invariant of a request: what the layer has established    *)
(* when it is at a stage, and when it gave an answer.                      *)
(***************************************************************************)
Stages == {"idle", "extracting", "verifying", "validating", "authorizing", "handler", "done"}

\* The layer let the request get to one of these stages, or answered beyond.
Past(stages, answers) == stage \in stages \/ answer \in answers

\* The credential came once, and the strategy is shown the rest.
Extracted == token \in Tokens /\ SentOnce(token) /\ \A c \in shown : c.name # Guard.source

Verified == token.verdict = "good" /\ token.kind = Binding.strategy.kind

\* Whose fault an internal error may be.
ServerFault ==
  \/ token.verdict = "internal"
  \/ Verified /\ Binding.strategy # BuiltinStrategy

GuardedInv ==
  /\ Past({"verifying", "validating", "authorizing", "handler"}, {"forbidden", "handled"}) => Extracted
  /\ Past({"validating", "authorizing", "handler"}, {"forbidden", "handled"}) => Verified
  /\ Past({"authorizing", "handler"}, {"forbidden", "handled"}) => principal = PrincipalFrom(token)
  /\ Past({"extracting", "verifying", "validating"}, {"unauthorized", "internal"}) =>
       principal = NoPrincipal
  /\ Past({"handler"}, {"handled"}) => Authorizes(Guard, principal)
  /\ installed <=> Past({"handler"}, {"handled"})
  /\ answer = "internal" => ServerFault

OpenInv ==
  /\ stage \in {"handler", "done"} /\ answer \in {Nothing, "handled"}
  /\ principal = NoPrincipal /\ ~ installed

RequestInv ==
  /\ stage \in Stages
  /\ answer \in {Nothing, "unauthorized", "forbidden", "internal", "handled"}
  /\ answer = Nothing <=> stage # "done"
  /\ installed \in BOOLEAN
  /\ stage = "idle" => principal = NoPrincipal /\ ~ installed
  /\ stage # "idle" =>
       /\ phase = "built"
       /\ \E r \in router, sent \in Requests : request = <<r, sent>>
       /\ IF request[1].layer = {} THEN OpenInv ELSE GuardedInv

ServingInv == RoutingInv /\ RequestInv

-----------------------------------------------------------------------------
(***************************************************************************)
(* A request keeps its invariant.                                          *)
(***************************************************************************)
\* Nothing has arrived at first.
LEMMA RequestInitially == RequestInit => RequestInv
  BY DEF RequestInit, RequestInv, Stages, Nothing

\* While build_router is at work, no request is there.
LEMMA RoutingPreservesRequests ==
  RequestInv /\ RoutingNext /\ UNCHANGED requestVars => RequestInv'
  <1>. SUFFICES ASSUME RequestInv, RoutingNext, UNCHANGED requestVars PROVE RequestInv'
    OBVIOUS
  <1>1. phase # "built"
    BY DEF RoutingNext, Expand, SelectScope, BindGuards, ValidateController, StartInstalling,
           InstallRoute, FinishController, RouterBuilt
  <1>2. stage = "idle"
    BY <1>1 DEF RequestInv
  <1>. QED  BY <1>2 DEF RequestInv, requestVars

\* The route and the binding of a guarded request.
LEMMA RequestStays ==
  ASSUME request' = request
  PROVE  /\ Binding' = Binding /\ Guard' = Guard /\ Sent' = Sent
         /\ \A t : SentOnce(t)' = SentOnce(t)
         /\ \A t : PrincipalFrom(t)' = PrincipalFrom(t)
  BY DEF Binding, Guard, Sent, SentOnce, PrincipalFrom

\* A request arrives: nothing is known of it yet.
LEMMA ArrivePreserves ==
  ASSUME RequestInv, NEW r \in router, NEW sent \in Requests, Arrive(r, sent), UNCHANGED routingVars
  PROVE  RequestInv'
  <1>1. /\ phase = "built" /\ stage = "idle" /\ request' = <<r, sent>>
        /\ stage' = IF r.layer = {} THEN "handler" ELSE "extracting"
        /\ UNCHANGED <<token, shown, principal, installed, answer>>
        /\ UNCHANGED <<phase, router>>
    BY DEF Arrive, routingVars
  <1>2. answer = Nothing /\ principal = NoPrincipal /\ ~ installed
    BY <1>1 DEF RequestInv
  <1>3. request'[1].layer = r.layer
    BY <1>1
  <1>4. r.layer = {} => OpenInv'
    BY <1>1, <1>2 DEF OpenInv
  <1>5. r.layer # {} => GuardedInv'
    BY <1>1, <1>2 DEF GuardedInv, Past, Nothing
  <1>6. \E q \in router', x \in Requests : request' = <<q, x>>
    BY <1>1
  <1>. QED  BY <1>1, <1>2, <1>3, <1>4, <1>5, <1>6 DEF RequestInv, Stages, Nothing

\* At a stage of the layer, the route has one.
LEMMA LayerAtWork ==
  ASSUME RequestInv, stage \in {"extracting", "verifying", "validating", "authorizing"}
  PROVE  /\ request[1].layer # {} /\ GuardedInv /\ phase = "built" /\ answer = Nothing
         /\ \E r \in router, sent \in Requests : request = <<r, sent>>
  BY DEF RequestInv, OpenInv

\* The layer of a route is at work: its invariant is what a step must keep.
LEMMA LayerSuffices ==
  ASSUME RequestInv, stage \in {"extracting", "verifying", "validating", "authorizing"},
         UNCHANGED <<phase, router, request>>,
         GuardedInv', stage' \in Stages \ {"idle"}, installed' \in BOOLEAN,
         answer' \in {Nothing, "unauthorized", "forbidden", "internal", "handled"},
         answer' = Nothing <=> stage' # "done"
  PROVE  RequestInv'
  <1>1. /\ request[1].layer # {} /\ phase = "built"
        /\ \E r \in router, sent \in Requests : request = <<r, sent>>
    BY LayerAtWork
  <1>2. \E r \in router', sent \in Requests : request' = <<r, sent>>
    BY <1>1
  <1>. QED  BY <1>1, <1>2 DEF RequestInv

\* The one credential of its source came once.
LEMMA CredentialSentOnce ==
  ASSUME Sent \in Requests, NEW i, DOMAIN Credentials = {i}
  PROVE  /\ Credentials[i] \in Tokens /\ SentOnce(Credentials[i])
         /\ \A c \in ShownCookies(Sent, Guard.source) : c.name # Guard.source
  <1>1. /\ Sent.headers \in Seq(Range(Sent.headers)) /\ Sent.cookies \in Seq(Range(Sent.cookies))
        /\ \A h \in Range(Sent.headers) : h.tokens \in Seq(Tokens)
        /\ \A c \in Range(Sent.cookies) : c.token \in Tokens
    BY RequestsAssumption
  <1>2. CASE Guard.source = "bearer"
    <2>1. Credentials = BearerTokens(Sent)
      BY <1>2 DEF Credentials
    <2>2. Len(Sent.headers) = 1 /\ BearerTokens(Sent) = Sent.headers[1].tokens
      <3>1. DOMAIN << >> = {}
        OBVIOUS
      <3>. QED  BY <2>1, <3>1 DEF BearerTokens
    <2>3. 1 \in DOMAIN Sent.headers /\ Sent.headers[1] \in Range(Sent.headers)
      BY <1>1, <2>2 DEF Range
    <2>. DEFINE tokens == Sent.headers[1].tokens
    <2>4. tokens \in Seq(Tokens) /\ DOMAIN tokens = {i}
      BY <1>1, <2>1, <2>2, <2>3
    <2>. HIDE DEF tokens
    <2>5. i = 1 /\ Len(tokens) = 1
      <3>1. DOMAIN tokens = 1 .. Len(tokens) /\ Len(tokens) \in Nat
        BY <2>4
      <3>2. i \in 1 .. Len(tokens)
        BY <2>4, <3>1
      <3>3. 1 \in {i} /\ Len(tokens) \in {i}
        BY <2>4, <3>1, <3>2
      <3>. QED  BY <3>3
    <2>6. tokens = <<tokens[1]>> /\ tokens[1] \in Tokens
      BY <2>4, <2>5
    <2>7. Credentials[i] = tokens[1]
      BY <2>1, <2>2, <2>5 DEF tokens
    <2>8. ShownCookies(Sent, Guard.source) = {}
      BY <1>2 DEF ShownCookies
    <2>. QED  BY <2>2, <2>3, <2>6, <2>7, <2>8 DEF SentOnce, tokens
  <1>3. CASE Guard.source # "bearer"
    <2>. DEFINE named == {j \in DOMAIN Sent.cookies : Sent.cookies[j].name = Guard.source}
    <2>1. Credentials = CookieTokens(Sent, Guard.source)
      BY <1>3 DEF Credentials
    <2>2. Credentials = [j \in named |-> Sent.cookies[j].token]
      <3>1. DOMAIN << >> = {}
        OBVIOUS
      <3>. QED  BY <2>1, <3>1 DEF CookieTokens
    <2>3. named = {i} /\ Credentials[i] = Sent.cookies[i].token
      BY <2>2
    <2>4. i \in DOMAIN Sent.cookies /\ Sent.cookies[i].name = Guard.source
          /\ \A j \in DOMAIN Sent.cookies : Sent.cookies[j].name = Guard.source => j = i
      BY <2>3
    <2>5. Sent.cookies[i] \in Range(Sent.cookies)
      BY <2>4 DEF Range
    <2>6. \A c \in ShownCookies(Sent, Guard.source) : c.name # Guard.source
      BY <1>3 DEF ShownCookies
    <2>. QED  BY <1>1, <2>3, <2>4, <2>5, <2>6 DEF SentOnce
  <1>. QED  BY <1>2, <1>3

\* One credential goes on to be verified; none, or several, is unauthorized.
LEMMA ExtractPreserves == RequestInv /\ Extract /\ UNCHANGED routingVars => RequestInv'
  <1>. SUFFICES ASSUME RequestInv, Extract, UNCHANGED routingVars PROVE RequestInv'
    OBVIOUS
  <1>1. /\ stage = "extracting" /\ UNCHANGED <<request, principal, installed, phase, router>>
    BY DEF Extract, routingVars
  <1>2. /\ GuardedInv /\ answer = Nothing
        /\ \E r \in router, sent \in Requests : request = <<r, sent>>
    BY <1>1, LayerAtWork
  <1>3. Sent \in Requests
    BY <1>2 DEF Sent
  <1>4. principal = NoPrincipal /\ ~ installed /\ installed \in BOOLEAN
    BY <1>1, <1>2 DEF GuardedInv, Past, Nothing, RequestInv
  <1>5. CASE /\ \E i : DOMAIN Credentials = {i}
             /\ token' = Credentials[CHOOSE i \in DOMAIN Credentials : TRUE]
             /\ shown' = ShownCookies(Sent, Guard.source)
             /\ stage' = "verifying" /\ UNCHANGED answer
    <2>1. PICK i : DOMAIN Credentials = {i}
      BY <1>5
    <2>2. token' = Credentials[i]
      BY <1>5, <2>1
    <2>3. token' \in Tokens /\ SentOnce(token') /\ \A c \in shown' : c.name # Guard.source
      BY <1>3, <1>5, <2>1, <2>2, CredentialSentOnce
    <2>4. Extracted'
      BY <1>1, <2>3, RequestStays DEF Extracted
    <2>5. GuardedInv'
      BY <1>1, <1>2, <1>4, <1>5, <2>4 DEF GuardedInv, Past, Nothing
    <2>. QED  BY <1>1, <1>2, <1>4, <1>5, <2>5, LayerSuffices DEF Stages, Nothing
  <1>6. CASE stage' = "done" /\ answer' = "unauthorized"
    <2>1. GuardedInv'
      BY <1>1, <1>4, <1>6 DEF GuardedInv, Past
    <2>. QED  BY <1>1, <1>4, <1>6, <2>1, LayerSuffices DEF Stages, Nothing
  <1>. QED  BY <1>5, <1>6 DEF Extract, Answer

\* A good token of the profile goes on; the others are refused, or a fault.
LEMMA VerifyPreserves == RequestInv /\ Verify /\ UNCHANGED routingVars => RequestInv'
  <1>. SUFFICES ASSUME RequestInv, Verify, UNCHANGED routingVars PROVE RequestInv'
    OBVIOUS
  <1>1. stage = "verifying" /\ UNCHANGED <<request, token, shown, principal, installed, phase, router>>
    BY DEF Verify, routingVars
  <1>2. GuardedInv /\ answer = Nothing
    BY <1>1, LayerAtWork
  <1>3. Extracted /\ principal = NoPrincipal /\ ~ installed /\ installed \in BOOLEAN
    BY <1>1, <1>2 DEF GuardedInv, Past, Nothing, RequestInv
  <1>4. token.verdict \in {"good", "unauthorized", "internal"}
    BY <1>3, TokensAssumption DEF Extracted
  <1>5. Extracted' /\ (Verified <=> Verified')
    BY <1>1, <1>3, RequestStays DEF Extracted, Verified
  <1>6. CASE /\ Verdict(token, Binding.strategy.kind) = "good"
             /\ stage' = "validating" /\ UNCHANGED answer
    <2>1. Verified
      BY <1>6 DEF Verdict, Verified
    <2>2. GuardedInv'
      BY <1>1, <1>2, <1>3, <1>5, <1>6, <2>1 DEF GuardedInv, Past, Nothing
    <2>. QED  BY <1>1, <1>2, <1>3, <1>6, <2>2, LayerSuffices DEF Stages, Nothing
  <1>7. CASE /\ Verdict(token, Binding.strategy.kind) # "good"
             /\ answer' = Verdict(token, Binding.strategy.kind) /\ stage' = "done"
    <2>1. answer' \in {"unauthorized", "internal"} /\ (answer' = "internal" => token.verdict = "internal")
      BY <1>4, <1>7 DEF Verdict
    <2>2. GuardedInv'
      BY <1>1, <1>3, <1>7, <2>1 DEF GuardedInv, Past, ServerFault
    <2>. QED  BY <1>1, <1>3, <1>7, <2>1, <2>2, LayerSuffices DEF Stages, Nothing
  <1>. QED  BY <1>6, <1>7 DEF Verify, Answer

\* The strategy makes the principal, or refuses; only a managed one may fail.
LEMMA ValidatePreserves == RequestInv /\ Validate /\ UNCHANGED routingVars => RequestInv'
  <1>. SUFFICES ASSUME RequestInv, Validate, UNCHANGED routingVars PROVE RequestInv'
    OBVIOUS
  <1>1. stage = "validating" /\ UNCHANGED <<request, token, shown, installed, phase, router>>
    BY DEF Validate, routingVars
  <1>2. GuardedInv /\ answer = Nothing
    BY <1>1, LayerAtWork
  <1>3. Extracted /\ Verified /\ principal = NoPrincipal /\ ~ installed /\ installed \in BOOLEAN
    BY <1>1, <1>2 DEF GuardedInv, Past, Nothing, RequestInv
  <1>4. Extracted' /\ Verified' /\ Binding' = Binding
    BY <1>1, <1>3, RequestStays DEF Extracted, Verified
  <1>5. CASE principal' = PrincipalFrom(token) /\ stage' = "authorizing" /\ UNCHANGED answer
    <2>1. principal' = PrincipalFrom(token)'
      BY <1>1, <1>5, RequestStays
    <2>2. GuardedInv'
      BY <1>1, <1>2, <1>3, <1>4, <1>5, <2>1 DEF GuardedInv, Past, Nothing
    <2>. QED  BY <1>1, <1>2, <1>3, <1>5, <2>2, LayerSuffices DEF Stages, Nothing
  <1>6. CASE /\ Binding.strategy # BuiltinStrategy /\ UNCHANGED principal
             /\ answer' \in {"unauthorized", "internal"} /\ stage' = "done"
    <2>1. ServerFault'
      BY <1>4, <1>6 DEF ServerFault
    <2>2. GuardedInv'
      BY <1>1, <1>3, <1>6, <2>1 DEF GuardedInv, Past
    <2>. QED  BY <1>1, <1>3, <1>6, <2>2, LayerSuffices DEF Stages, Nothing
  <1>. QED  BY <1>5, <1>6 DEF Validate, Answer

\* The policies of the guard decide whether the handler runs.
LEMMA AuthorizePreserves == RequestInv /\ Authorize /\ UNCHANGED routingVars => RequestInv'
  <1>. SUFFICES ASSUME RequestInv, Authorize, UNCHANGED routingVars PROVE RequestInv'
    OBVIOUS
  <1>1. stage = "authorizing" /\ UNCHANGED <<request, token, shown, principal, phase, router>>
    BY DEF Authorize, routingVars
  <1>2. GuardedInv /\ answer = Nothing
    BY <1>1, LayerAtWork
  <1>3. Extracted /\ Verified /\ principal = PrincipalFrom(token) /\ ~ installed /\ installed \in BOOLEAN
    BY <1>1, <1>2 DEF GuardedInv, Past, Nothing, RequestInv
  <1>4. Extracted' /\ Verified' /\ principal' = PrincipalFrom(token)' /\ Guard' = Guard
    BY <1>1, <1>3, RequestStays DEF Extracted, Verified
  <1>5. CASE Authorizes(Guard, principal) /\ installed' = TRUE /\ stage' = "handler" /\ UNCHANGED answer
    <2>1. Authorizes(Guard, principal)'
      BY <1>1, <1>4, <1>5 DEF Authorizes
    <2>2. GuardedInv'
      BY <1>1, <1>2, <1>4, <1>5, <2>1 DEF GuardedInv, Past, Nothing
    <2>. QED  BY <1>1, <1>2, <1>5, <2>2, LayerSuffices DEF Stages, Nothing
  <1>6. CASE answer' = "forbidden" /\ stage' = "done" /\ UNCHANGED installed
    <2>1. GuardedInv'
      BY <1>1, <1>3, <1>4, <1>6 DEF GuardedInv, Past
    <2>. QED  BY <1>1, <1>3, <1>6, <2>1, LayerSuffices DEF Stages, Nothing
  <1>. QED  BY <1>5, <1>6 DEF Authorize, Answer

\* The handler answers.
LEMMA HandlePreserves == RequestInv /\ Handle /\ UNCHANGED routingVars => RequestInv'
  <1>. SUFFICES ASSUME RequestInv, Handle, UNCHANGED routingVars PROVE RequestInv'
    OBVIOUS
  <1>1. /\ stage = "handler" /\ answer' = "handled" /\ stage' = "done"
        /\ UNCHANGED <<request, token, shown, principal, installed, phase, router>>
    BY DEF Handle, Answer, routingVars
  <1>2. /\ phase = "built" /\ installed \in BOOLEAN /\ answer = Nothing
        /\ \E r \in router, sent \in Requests : request = <<r, sent>>
        /\ IF request[1].layer = {} THEN OpenInv ELSE GuardedInv
    BY <1>1 DEF RequestInv
  <1>3. OpenInv => OpenInv'
    BY <1>1 DEF OpenInv
  <1>4. ASSUME GuardedInv PROVE GuardedInv'
    <2>1. /\ Extracted /\ Verified /\ principal = PrincipalFrom(token)
          /\ Authorizes(Guard, principal) /\ installed
      BY <1>1, <1>4 DEF GuardedInv, Past
    <2>2. /\ Extracted' /\ Verified' /\ principal' = PrincipalFrom(token)'
          /\ Authorizes(Guard, principal)' /\ installed'
      BY <1>1, <2>1, RequestStays DEF Extracted, Verified, Authorizes
    <2>. QED  BY <1>1, <2>2 DEF GuardedInv, Past
  <1>5. \E r \in router', sent \in Requests : request' = <<r, sent>>
    BY <1>1, <1>2
  <1>. QED  BY <1>1, <1>2, <1>3, <1>4, <1>5 DEF RequestInv, Stages, Nothing

\* Nothing happens.
LEMMA RequestStutters == RequestInv /\ UNCHANGED vars => RequestInv'
  <1>. SUFFICES ASSUME RequestInv, UNCHANGED vars PROVE RequestInv'
    OBVIOUS
  <1>1. /\ UNCHANGED <<phase, router>>
        /\ UNCHANGED <<request, stage, token, shown, principal, installed, answer>>
    BY DEF vars, routingVars, requestVars
  <1>2. /\ Binding' = Binding /\ Guard' = Guard
        /\ (Extracted <=> Extracted') /\ PrincipalFrom(token)' = PrincipalFrom(token)
    BY <1>1, RequestStays DEF Extracted
  <1>3. (Verified <=> Verified') /\ (Authorizes(Guard, principal) <=> Authorizes(Guard, principal)')
    BY <1>1, <1>2 DEF Verified, Authorizes
  <1>4. (OpenInv <=> OpenInv') /\ (GuardedInv <=> GuardedInv')
    BY <1>1, <1>2, <1>3 DEF OpenInv, GuardedInv, Past, ServerFault
  <1>. QED  BY <1>1, <1>4 DEF RequestInv

-----------------------------------------------------------------------------
(***************************************************************************)
(* What holds of every program and every request.                          *)
(***************************************************************************)
\* Both invariants hold in every reachable state.
LEMMA Serving == Spec => []ServingInv
  <1>1. Init => ServingInv
    BY RoutingInitially, RequestInitially DEF Init, ServingInv
  <1>2. ServingInv /\ [Next]_vars => ServingInv'
    <2>1. UNCHANGED vars => UNCHANGED routingVars
      BY DEF vars
    <2>2. Next => RoutingNext \/ UNCHANGED routingVars
      BY DEF Next
    <2>3. RoutingInv /\ [Next]_vars => RoutingInv'
      BY <2>1, <2>2, RoutingPreserves
    <2>4. RequestInv /\ Next => RequestInv'
      <3>. SUFFICES ASSUME RequestInv, Next PROVE RequestInv'
        OBVIOUS
      <3>1. CASE RoutingNext /\ UNCHANGED requestVars
        BY <3>1, RoutingPreservesRequests
      <3>2. ASSUME NEW r \in router, NEW sent \in Requests, Arrive(r, sent), UNCHANGED routingVars
            PROVE  RequestInv'
        BY <3>2, ArrivePreserves
      <3>3. CASE (Extract \/ Verify \/ Validate \/ Authorize \/ Handle) /\ UNCHANGED routingVars
        BY <3>3, ExtractPreserves, VerifyPreserves, ValidatePreserves, AuthorizePreserves,
           HandlePreserves
      <3>. QED  BY <3>1, <3>2, <3>3 DEF Next
    <2>. QED  BY <2>3, <2>4, RequestStutters DEF ServingInv
  <1>. QED  BY <1>1, <1>2, PTL DEF Spec

\* A selected entry of a validated list is the selected route at its position.
LEMMA SelectedEntry ==
  ASSUME RoutingInv, phase \in Installing, NEW n \in 1 .. Len(scope),
         NEW i \in DOMAIN validated[n], validated[n][i].selected
  PROVE  /\ i \in Positions(n) /\ SelectedRoutes(scope[n])[i] \in ListedRoutes
         /\ validated[n][i].verb = SelectedRoutes(scope[n])[i].verb
         /\ validated[n][i].path = SelectedRoutes(scope[n])[i].full
  <1>. DEFINE r == ControllerRoutes(scope[n].controller)[i]
  <1>1. /\ r \in ListedRoutes
        /\ validated[n][i] =
             [verb |-> r.verb, handler |-> r.handler, selected |-> Selects(scope[n], r),
              path |-> r.full, context |-> ContextFor(scope[n], r)]
        /\ i \in DOMAIN SelectedRoutes(scope[n]) /\ SelectedRoutes(scope[n])[i] = r
    BY RegistrarMeetsItsList, Zenon
  <1>. HIDE DEF r
  <1>2. validated[n][i].verb = r.verb /\ validated[n][i].path = r.full
    BY <1>1
  <1>. QED  BY <1>1, <1>2 DEF Positions

\* Routes of one shape are selected once: their keys would be the same.
LEMMA KeysKeepShapesApart == RoutingInv => RoutesAreUnambiguous
  <1>. SUFFICES ASSUME RoutingInv, phase \in Installing,
                       NEW m \in DOMAIN validated, NEW n \in DOMAIN validated,
                       NEW i \in DOMAIN validated[m], NEW j \in DOMAIN validated[n],
                       <<m, i>> # <<n, j>>, validated[m][i].selected, validated[n][j].selected,
                       validated[m][i].verb = validated[n][j].verb,
                       SameShape(validated[m][i].path, validated[n][j].path)
                PROVE  FALSE
    BY DEF RoutesAreUnambiguous, Installing
  <1>1. m \in 1 .. Len(scope) /\ n \in 1 .. Len(scope)
    <2>1. validated \in Seq({ValidatedRoutes(s) : s \in Scoped}) /\ Len(validated) = Len(scope)
      BY DEF RoutingInv, ValidatedInv, RouterInv
    <2>. QED  BY <2>1
  <1>. DEFINE p == SelectedRoutes(scope[m])[i]
              q == SelectedRoutes(scope[n])[j]
  <1>2. /\ i \in Positions(m) /\ p \in ListedRoutes
        /\ validated[m][i].verb = p.verb /\ validated[m][i].path = p.full
    BY <1>1, SelectedEntry
  <1>3. /\ j \in Positions(n) /\ q \in ListedRoutes
        /\ validated[n][j].verb = q.verb /\ validated[n][j].path = q.full
    BY <1>1, SelectedEntry
  <1>4. /\ p.full \in Seq(Range(p.full)) /\ q.full \in Seq(Range(q.full))
    BY <1>2, <1>3, PathsAreSequences DEF RoutingInv, AppInv
  <1>5. Canonical(p.full) = Canonical(q.full)
    <2>1. DOMAIN p.full = DOMAIN q.full
      <3>1. Len(p.full) = Len(q.full)
        BY <1>2, <1>3 DEF SameShape
      <3>. HIDE DEF p, q
      <3>. QED  BY <1>4, <3>1
    <2>. QED  BY <1>2, <1>3, <2>1, ShapesHaveKeys
  <1>6. Key(m, i) = Key(n, j)
    BY <1>2, <1>3, <1>5 DEF Key, RouteKey
  <1>. QED  BY <1>2, <1>3, <1>6 DEF RoutingInv, ValidatedInv

\* For every program that can be linked: once the validation has passed, the
\* registrars find what they need for every route they install, and no two
\* selected routes of one method have the same shape (build_router).
THEOREM ValidatedCanBeInstalled == Spec => []InstallationIsSound
  <1>1. ServingInv => InstallationIsSound
    <2>. SUFFICES ASSUME RoutingInv PROVE InstallationIsSound
      BY DEF ServingInv
    <2>1. InstallationNeverFails
      BY DEF RoutingInv, AppInv, RouterInv, Installing, InstallationNeverFails
    <2>. QED  BY <2>1, KeysKeepShapesApart DEF InstallationIsSound
  <1>. QED  BY <1>1, Serving, PTL

\* For every program with a root: what is installed is in reach of the root, or
\* belongs to no module, and the strategy of a guard is visible to the module
\* it is resolved for (HttpApplicationScope, preflight_scoped).
THEOREM RootedServesItsReach == Spec => []OnlyReachableIsServed
  <1>1. ServingInv => OnlyReachableIsServed
    <2>. SUFFICES ASSUME RoutingInv, app.rooted, NEW r \in router
                  PROVE  /\ Reached(Owner(r.controller.namespace))
                         /\ Owner(Contract(r.trait).namespace) \in app.reached \cup {NoModule}
                         /\ \A b \in r.layer :
                              \/ b.strategy = BuiltinStrategy
                              \/ Owner(b.strategy.namespace) = b.context
                              \/ <<b.context, Owner(b.strategy.namespace)>> \in app.imports
      BY DEF ServingInv, OnlyReachableIsServed
    <2>1. PICK c \in Range(app.controllers), t \in Named :
            \E i \in ActivePositions(t) : Installed(r, c, t, t.methods[i])
      BY DEF RoutingInv, RouterInv
    <2>2. PICK i \in ActivePositions(t) : Installed(r, c, t, t.methods[i])
      BY <2>1
    <2>. DEFINE m == t.methods[i]
    <2>3. r.controller = c /\ InScope(c) /\ r.trait = t.name /\ RouteContext(c, Route(t, m)) # NoModule
      BY <2>2 DEF Installed
    <2>4. Reached(Owner(r.controller.namespace))
      BY <2>3 DEF InScope
    <2>5. Contract(r.trait) = t
      BY <2>3 DEF Named
    <2>6. Owner(t.namespace) \in app.reached \cup {NoModule}
      <3>1. Route(t, m).namespace = t.namespace
        BY DEF Route
      <3>2. Owner(t.namespace) = NoModule \/ Reached(Owner(t.namespace))
        BY <2>3, <3>1 DEF RouteContext
      <3>. QED  BY <3>2 DEF Reached
    <2>7. r.layer \subseteq bindings
      BY <2>2 DEF Installed
    <2>8. ASSUME NEW b \in r.layer, b.strategy # BuiltinStrategy
          PROVE  \/ Owner(b.strategy.namespace) = b.context
                 \/ <<b.context, Owner(b.strategy.namespace)>> \in app.imports
      <3>1. Visible(b.strategy, b.context)
        BY <2>7, <2>8 DEF RoutingInv, BindingsInv
      <3>. QED  BY <3>1, Zenon DEF Visible
    <2>. QED  BY <2>4, <2>5, <2>6, <2>8
  <1>. QED  BY <1>1, Serving, PTL

\* What a request in the layer knows of its route: the contract, the method and
\* the guard that the attributes of both ask for.
LEMMA RouteOfRequest ==
  ASSUME ServingInv, stage # "idle"
  PROVE  /\ AsksForGuard <=> request[1].layer # {}
         /\ request[1].layer # {} =>
              /\ Guard.roles = Asked("roles") /\ Guard.permissions = Asked("permissions")
              /\ Guard.predicates = Asked("predicates")
              /\ Binding.strategy.principal = Guard.principal
  <1>1. PICK r \in router, sent \in Requests : request = <<r, sent>>
    BY DEF ServingInv, RequestInv
  <1>2. request[1] = r
    BY <1>1
  <1>3. PICK c \in Range(app.controllers), t \in Named :
          \E i \in ActivePositions(t) : Installed(r, c, t, t.methods[i])
    BY DEF ServingInv, RoutingInv, RouterInv
  <1>4. PICK i \in ActivePositions(t) : Installed(r, c, t, t.methods[i])
    BY <1>3
  <1>. DEFINE m == t.methods[i]
  <1>5. TheContract = t
    BY <1>2, <1>4 DEF TheContract, Installed, Named
  <1>6. TheMethod = m
    <2>1. i \in DOMAIN t.methods /\ m.active /\ m.handler = request[1].handler
      BY <1>2, <1>4 DEF ActivePositions, Installed
    <2>2. t \in app.contracts /\ app \in Applications
      BY DEF Named, ServingInv, RoutingInv, AppInv
    <2>3. \A j \in DOMAIN t.methods :
            t.methods[j].handler = request[1].handler /\ t.methods[j].active => j = i
      BY <2>1, <2>2, ApplicationsAssumption
    <2>. QED  BY <1>5, <2>1, <2>3 DEF TheMethod
  <1>7. AsksForGuard <=> GuardOf(t, m) # NoGuard
    <2>1. Effective(t, m) # NoGuard
      <3>1. Effective(t, m).id = <<t.name, m.handler>> /\ NoGuard.id = << >>
        BY DEF Effective, NoGuard
      <3>2. <<t.name, m.handler>> # << >>
        OBVIOUS
      <3>. QED  BY <3>1, <3>2
    <2>. QED  BY <1>5, <1>6, <2>1 DEF AsksForGuard, GuardOf
  <1>8. CASE GuardOf(t, m) = NoGuard
    BY <1>2, <1>4, <1>7, <1>8 DEF Installed
  <1>9. CASE GuardOf(t, m) # NoGuard
    <2>1. PICK b \in bindings : r.layer = {b} /\ b.guard = GuardOf(t, m)
      BY <1>4, <1>9 DEF Installed
    <2>2. Binding = b /\ Guard = GuardOf(t, m)
      BY <1>2, <2>1 DEF Binding, Guard
    <2>3. GuardOf(t, m) = Effective(t, m)
      BY <1>9 DEF GuardOf
    <2>4. /\ Guard.roles = Asked("roles") /\ Guard.permissions = Asked("permissions")
          /\ Guard.predicates = Asked("predicates")
      <3>1. /\ NoSpec["roles"] = NoClause /\ NoSpec["permissions"] = NoClause
            /\ NoSpec["predicates"] = {}
        BY DEF NoSpec
      <3>. QED  BY <1>5, <1>6, <2>2, <2>3, <3>1
                DEF Effective, EitherClause, EitherPredicates, Asked
    <2>5. b.strategy.principal = b.guard.principal
      BY DEF ServingInv, RoutingInv, BindingsInv
    <2>. QED  BY <1>2, <1>7, <1>9, <2>1, <2>2, <2>4, <2>5
  <1>. QED  BY <1>8, <1>9

\* For every program and every request: a guarded handler runs only for a
\* principal made from a good token that came once, and that meets the policies
\* and every predicate of the method and its trait (PassportGuardService::call).
THEOREM OnlyAuthorizedAreHandled == Spec => []HandlersRunAuthorized
  <1>1. ServingInv => HandlersRunAuthorized
    <2>. SUFFICES ASSUME ServingInv, answer = "handled"
                  PROVE  IF ~ AsksForGuard THEN ~ installed
                         ELSE /\ installed
                              /\ token.verdict = "good" /\ token.kind = Binding.strategy.kind
                              /\ SentOnce(token)
                              /\ Meets(Asked("roles"), principal.roles)
                              /\ Meets(Asked("permissions"), principal.permissions)
                              /\ Asked("predicates") \subseteq principal.satisfies
                              /\ principal.type = Guard.principal
                              /\ \A c \in shown : c.name # Guard.source
      BY DEF HandlersRunAuthorized
    <2>1. stage = "done"
      BY DEF ServingInv, RequestInv, Nothing
    <2>2. IF request[1].layer = {} THEN OpenInv ELSE GuardedInv
      BY <2>1 DEF ServingInv, RequestInv
    <2>3. CASE request[1].layer = {}
      BY <2>1, <2>2, <2>3, RouteOfRequest DEF OpenInv
    <2>4. CASE request[1].layer # {}
      <3>1. /\ Extracted /\ Verified /\ principal = PrincipalFrom(token)
            /\ Authorizes(Guard, principal) /\ installed
        BY <2>2, <2>4 DEF GuardedInv, Past
      <3>2. /\ AsksForGuard
            /\ Guard.roles = Asked("roles") /\ Guard.permissions = Asked("permissions")
            /\ Guard.predicates = Asked("predicates")
            /\ Binding.strategy.principal = Guard.principal
        BY <2>1, <2>4, RouteOfRequest
      <3>3. principal.type = Guard.principal
        BY <3>1, <3>2 DEF PrincipalFrom
      <3>4. /\ Meets(Guard.roles, principal.roles) /\ Meets(Guard.permissions, principal.permissions)
            /\ Guard.predicates \subseteq principal.satisfies
        BY <3>1, <3>3 DEF Authorizes, Satisfied
      <3>. QED  BY <3>1, <3>2, <3>3, <3>4 DEF Extracted, Verified
    <2>. QED  BY <2>3, <2>4
  <1>. QED  BY <1>1, Serving, PTL

\* For every program and every request: forbidden is for the authenticated
\* only, and an internal error is never caused by a credential (PassportRejection).
THEOREM AnswersBlameTheRightSide == Spec => []AnswersFollowCause
  <1>1. ServingInv => AnswersFollowCause
    <2>. SUFFICES ASSUME ServingInv PROVE AnswersFollowCause
      OBVIOUS
    <2>1. CASE answer \notin {"unauthorized", "forbidden", "internal"}
      BY <2>1 DEF AnswersFollowCause
    <2>2. CASE answer \in {"unauthorized", "forbidden", "internal"}
      <3>1. stage = "done"
        BY <2>2 DEF ServingInv, RequestInv, Nothing
      <3>2. GuardedInv
        BY <2>2, <3>1 DEF ServingInv, RequestInv, OpenInv, Nothing
      <3>3. installed = FALSE
        BY <2>2, <3>1, <3>2 DEF GuardedInv, Past, ServingInv, RequestInv
      <3>4. answer = "forbidden" => principal # NoPrincipal
        <4>1. DOMAIN PrincipalFrom(token) = {"type", "roles", "permissions", "satisfies", "by"}
          BY DEF PrincipalFrom
        <4>2. DOMAIN NoPrincipal = {"type"}
          BY DEF NoPrincipal
        <4>3. PrincipalFrom(token) # NoPrincipal
          BY <4>1, <4>2
        <4>. QED  BY <3>2, <4>3 DEF GuardedInv, Past
      <3>5. answer \in {"unauthorized", "internal"} => principal = NoPrincipal
        BY <3>2 DEF GuardedInv, Past
      <3>6. answer = "internal" => ServerFault
        BY <3>2 DEF GuardedInv
      <3>. QED  BY <3>3, <3>4, <3>5, <3>6 DEF AnswersFollowCause, ServerFault, Verified
    <2>. QED  BY <2>1, <2>2
  <1>. QED  BY <1>1, Serving, PTL
=============================================================================
