----------------------------- MODULE HttpRouting -----------------------------
(***************************************************************************)
(* build_router: from the route contracts, controllers, guards and         *)
(* strategies that are linked into a program to the routes an application  *)
(* serves.  The HTTP scope of the application is selected (http_scope.rs), *)
(* every selected guard gets its strategy (passport/strategy.rs), the      *)
(* selected routes are validated (route.rs), and only then do the          *)
(* generated registrars install them on an Axum router (router.rs).        *)
(*                                                                         *)
(* The attributes #[routes], #[guard] and #[controller] come first: what   *)
(* they accept is what can be linked.                                      *)
(***************************************************************************)
EXTENDS Naturals, FiniteSets, SequencesExt

CONSTANTS Applications   \* what is linked, and the module graph it is built with

\* The program compiles and links: a controller implements contracts that are
\* there, each found by its name, is itself a managed provider, and a trait has
\* no two methods of one name that #[cfg] leaves active.
ASSUME ApplicationsAssumption ==
  \A a \in Applications :
    /\ a.controllers \in Seq(Range(a.controllers))
    /\ \A c \in Range(a.controllers) :
         /\ c.contracts \in Seq({t.name : t \in a.contracts})
         /\ \E p \in a.providers : p.type = c.type /\ p.namespace = c.namespace
    /\ \A t \in a.contracts :
         /\ t.prefix \in Seq(Range(t.prefix)) /\ t.methods \in Seq(Range(t.methods))
         /\ \A m \in Range(t.methods) : m.path \in Seq(Range(m.path))
         /\ \A i, j \in DOMAIN t.methods :
              /\ t.methods[i].active /\ t.methods[j].active
              /\ t.methods[i].handler = t.methods[j].handler
              => i = j

Nothing == "none"
NoModule == 0
NoType == 0

VARIABLES
  app,        \* a member of Applications
  phase,      \* where the expansion or build_router is
  failure,    \* why it was refused
  scope,      \* HttpApplicationScope.controllers, in the order of validation
  bindings,   \* PassportStrategyPreflight.bindings
  validated,  \* the ValidatedController of each controller validated
  seen,       \* seen_routes of validate_with_selection
  cursor,     \* the registrar running, and how many routes it asked for
  router      \* what is installed on the Axum router

routingVars == <<app, phase, failure, scope, bindings, validated, seen, cursor, router>>

Phases == {"expanding", "scoping", "binding", "validating", "installing",
           "built", "refused", "panicked"}

RoutingInit ==
  /\ app \in Applications
  /\ phase = "expanding" /\ failure = Nothing
  /\ scope = << >> /\ bindings = {} /\ validated = << >> /\ seen = {}
  /\ cursor = [controller |-> 1, asked |-> 0]
  /\ router = {}

Refuse(reason) == phase' = "refused" /\ failure' = reason

\* The elements of s at some of its positions, in order.
At(s, positions) ==
  FlattenSeq([i \in DOMAIN s |-> IF i \in positions THEN <<s[i]>> ELSE << >>])

-----------------------------------------------------------------------------
(***************************************************************************)
(* Paths.  A path is its segments; "/" is << >>.  A segment is a literal,  *)
(* a capture with its name, or something neither the macro nor the runtime *)
(* accepts.                                                                *)
(***************************************************************************)
Lit(text) == [kind |-> "literal", text |-> text]
Cap(name) == [kind |-> "capture", text |-> name]
Odd(text) == [kind |-> "odd", text |-> text]

Captures(path) == {i \in DOMAIN path : path[i].kind = "capture"}

RepeatsCapture(path) ==
  \E i, j \in Captures(path) : i # j /\ path[i].text = path[j].text

\* `validate_path` of the macro, for an endpoint path.
ValidPath(path) == (\A i \in DOMAIN path : path[i].kind # "odd") /\ ~ RepeatsCapture(path)

ValidPrefix(path) == ValidPath(path) /\ Captures(path) = {}

\* `join_paths`, and `canonical_join` at run time.
Joined(prefix, path) == prefix \o path

\* `validate_route`: prefix, endpoint, full path, and their join.
ValidRoute(r) ==
  LET Valid(path) == (\A i \in DOMAIN path : path[i].kind # "odd") /\ ~ RepeatsCapture(path) IN
  /\ Valid(r.prefix) /\ Captures(r.prefix) = {}
  /\ Valid(r.path) /\ Valid(r.full)
  /\ Joined(r.prefix, r.path) = r.full

Canonical(path) ==
  [i \in DOMAIN path |-> IF path[i].kind = "capture" THEN Cap("*") ELSE path[i]]

-----------------------------------------------------------------------------
(***************************************************************************)
(* #[routes] and #[guard].  A guard attribute leaves fields open; the one  *)
(* of a method takes what it leaves open from the one of the trait.  A     *)
(* list of predicates that is given has one, so {} says that none is.      *)
(***************************************************************************)
NoClause == [mode |-> Nothing, values |-> {}]
NoSpec == [skip |-> FALSE, strategy |-> Nothing, principal |-> Nothing, source |-> Nothing,
           roles |-> NoClause, permissions |-> NoClause, predicates |-> {}]
NoGuard == [id |-> << >>]

Either(own, inherited) == IF own # Nothing THEN own ELSE inherited
EitherClause(own, inherited) == IF own # NoClause THEN own ELSE inherited
EitherPredicates(own, inherited) == IF own # {} THEN own ELSE inherited

\* Seeded fault: a method's guard loses the predicates of the trait's.
EffectiveReplaced(t, m) ==
  [id |-> <<t.name, m.handler>>,
   strategy |-> Either(m.guard.strategy, t.guard.strategy),
   principal |-> Either(m.guard.principal, t.guard.principal),
   source |-> Either(Either(m.guard.source, t.guard.source), "bearer"),
   roles |-> EitherClause(m.guard.roles, t.guard.roles),
   permissions |-> EitherClause(m.guard.permissions, t.guard.permissions),
   predicates |-> m.guard.predicates,
   namespace |-> t.namespace]

\* The descriptor that `static_tokens` emits; its namespace is the contract's.
Effective(t, m) ==
  [id |-> <<t.name, m.handler>>,
   strategy |-> Either(m.guard.strategy, t.guard.strategy),
   principal |-> Either(m.guard.principal, t.guard.principal),
   source |-> Either(Either(m.guard.source, t.guard.source), "bearer"),
   roles |-> EitherClause(m.guard.roles, t.guard.roles),
   permissions |-> EitherClause(m.guard.permissions, t.guard.permissions),
   predicates |-> EitherPredicates(m.guard.predicates, t.guard.predicates),
   namespace |-> t.namespace]

Declares(spec) == spec # [NoSpec EXCEPT !.skip = spec.skip]

\* Only a guard of the form ClaimsPrincipal<C> has a built-in adapter.
Builtin(guard) == guard.principal = "claims"

\* `merge`: the guard of a route method, if it has one.
GuardOf(t, m) ==
  IF m.guard.skip \/ ~ (Declares(t.guard) \/ Declares(m.guard)) THEN NoGuard
  ELSE Effective(t, m)

\* What makes `expand_with_common` refuse a trait.
Complete(guard) == guard = NoGuard \/ (guard.strategy # Nothing /\ guard.principal # Nothing)

Duplicates(t) ==
  \E i, j \in DOMAIN t.methods :
    /\ i # j /\ t.methods[i].verb = t.methods[j].verb
    /\ t.methods[i].path = t.methods[j].path

ContractAccepted(t) ==
  /\ ValidPrefix(t.prefix)
  /\ ~ t.guard.skip
  /\ Declares(t.guard) => (t.guard.strategy # Nothing /\ t.guard.principal # Nothing)
  /\ t.methods # << >>
  /\ ~ Duplicates(t)
  /\ \A i \in DOMAIN t.methods :
       LET m == t.methods[i] IN
       /\ ValidPath(m.path)
       /\ m.guard.skip => Declares(t.guard) /\ ~ Declares(m.guard)
       /\ Complete(GuardOf(t, m))

\* RouteDescriptor, as `expand_with_common` emits it.
Route(t, m) ==
  [verb |-> m.verb, prefix |-> t.prefix, path |-> m.path, full |-> Joined(t.prefix, m.path),
   handler |-> m.handler, guard |-> GuardOf(t, m), namespace |-> t.namespace, trait |-> t.name]

\* RouteContractDescriptor.routes: a method disabled by #[cfg] is not there,
\* neither in the metadata nor in the registrar.
RoutesOf(t) ==
  LET active == At(t.methods, {i \in DOMAIN t.methods : t.methods[i].active}) IN
  [i \in DOMAIN active |-> Route(t, active[i])]

Contract(name) == CHOOSE t \in app.contracts : t.name = name

\* The routes of a controller, contract by contract, as both its metadata and
\* its registrar list them.
ControllerRoutes(c) ==
  FlattenSeq([i \in DOMAIN c.contracts |-> RoutesOf(Contract(c.contracts[i]))])

\* GuardCatalog::guards: also of contracts no controller implements.
LinkedGuards ==
  {g \in UNION {{RoutesOf(t)[i].guard : i \in DOMAIN RoutesOf(t)} : t \in app.contracts} :
     g # NoGuard}

Expand ==
  /\ phase = "expanding"
  /\ IF /\ \A t \in app.contracts : ContractAccepted(t)
        /\ \A i \in DOMAIN app.controllers :
             app.controllers[i].contracts # << >> /\ IsInjective(app.controllers[i].contracts)
     THEN phase' = "scoping" /\ UNCHANGED failure
     ELSE Refuse("expansion")
  /\ UNCHANGED <<app, scope, bindings, validated, seen, cursor, router>>

-----------------------------------------------------------------------------
(***************************************************************************)
(* HttpApplicationScope::for_application.                                  *)
(***************************************************************************)
Reached(m) == m \in app.reached

\* `owner_for_namespace`: among all linked modules, reachable or not.
Owner(namespace) ==
  LET owners == {m \in app.modules : IsPrefix(m.namespace, namespace)} IN
  IF namespace = << >> \/ owners = {} THEN NoModule
  ELSE (CHOOSE m \in owners : \A n \in owners : Len(n.namespace) <= Len(m.namespace)).type

\* `route_context`: a route whose contract belongs to a module out of reach
\* has none.
RouteContext(c, r) ==
  LET owner == Owner(r.namespace) IN
  CASE owner = NoModule -> Owner(c.namespace)
    [] Reached(owner)   -> owner
    [] OTHER            -> NoModule

GuardContext(c, r) ==
  IF Reached(Owner(r.guard.namespace)) THEN Owner(r.guard.namespace) ELSE RouteContext(c, r)

\* RouteIdentity: it does not name the contract.
Identity(r) == <<r.verb, r.full, r.handler>>

\* The routes a controller is selected with, each at its position, and the
\* context of their guards.
Selected(c) ==
  LET routes == ControllerRoutes(c)
      chosen == {i \in DOMAIN routes : app.rooted => RouteContext(c, routes[i]) # NoModule}
  IN  [i \in chosen |->
         [identity |-> Identity(routes[i]),
          context |-> IF app.rooted /\ routes[i].guard # NoGuard
                      THEN GuardContext(c, routes[i]) ELSE NoModule]]

Selects(s, r) == \E i \in DOMAIN s.selected : s.selected[i].identity = Identity(r)

\* `passport_context_module`: of the first identity that matches.
ContextFor(s, r) ==
  LET matching == {i \in DOMAIN s.selected : s.selected[i].identity = Identity(r)} IN
  IF matching = {} THEN NoModule ELSE s.selected[Min(matching)].context

\* The routes of a controller that count: selected by identity.
SelectedRoutes(s) ==
  LET routes == ControllerRoutes(s.controller) IN
  [i \in {j \in DOMAIN routes : Selects(s, routes[j])} |-> routes[i]]

\* `rooted_controllers` and `complete_controllers`.
InScope(c) == app.rooted => Reached(Owner(c.namespace))

SelectScope ==
  /\ phase = "scoping"
  /\ LET chosen == At(app.controllers, {i \in DOMAIN app.controllers : InScope(app.controllers[i])}) IN
     scope' = [i \in DOMAIN chosen |-> [controller |-> chosen[i], selected |-> Selected(chosen[i])]]
  /\ phase' = "binding"
  /\ UNCHANGED <<app, failure, bindings, validated, seen, cursor, router>>

GuardsOf(s) ==
  {[guard |-> r.guard, context |-> ContextFor(s, r)] :
     r \in {q \in Range(SelectedRoutes(s)) : q.guard # NoGuard}}

\* `selected_guards`, with the context of each occurrence.
SelectedGuards ==
  IF ~ app.rooted THEN {[guard |-> g, context |-> NoModule] : g \in LinkedGuards}
  ELSE UNION {GuardsOf(scope[i]) : i \in DOMAIN scope}

-----------------------------------------------------------------------------
(***************************************************************************)
(* PassportStrategyCatalog::preflight_scoped.                              *)
(***************************************************************************)
ProvidersOf(s) == {p \in app.providers : p.type = s.provider}

ReservedKind(name) == CASE name = "jwt" -> {"access"}
                        [] name = "jwt-refresh" -> {"refresh"}
                        [] OTHER -> {"access", "refresh"}

CatalogProblem ==
  CASE ~ app.rooted /\ (\E s, t \in app.strategies : s # t /\ s.name = t.name) -> "duplicate strategy"
    [] \E s \in app.strategies : s.kind \notin ReservedKind(s.name)  -> "reserved kind"
    [] \E s \in app.strategies : Cardinality(ProvidersOf(s)) # 1     -> "unmanaged strategy"
    [] OTHER -> Nothing

\* Seeded fault: a public strategy of any reachable module is visible.
VisiblePublic(s, context) ==
  \/ ~ app.rooted
  \/ LET owner == Owner(s.namespace)
         provider == CHOOSE p \in ProvidersOf(s) : TRUE
     IN  /\ owner # NoModule
         /\ owner = context \/ provider.public

\* `scoped_strategy_visible` and `strategy_visible`.
Visible(s, context) ==
  \/ ~ app.rooted
  \/ LET owner == Owner(s.namespace)
         provider == CHOOSE p \in ProvidersOf(s) : TRUE
     IN  /\ owner # NoModule
         /\ owner = context \/ (provider.public /\ <<context, owner>> \in app.imports)

CandidatesFor(g) == {s \in app.strategies : s.name = g.guard.strategy /\ Visible(s, g.context)}

BuiltinStrategy == [name |-> "jwt", provider |-> NoType, principal |-> "claims",
                    kind |-> "access", namespace |-> << >>]

\* `resolve_scoped_guard`, `resolve_custom_strategy`, `resolve_builtin_or_missing`.
GuardProblem(g) ==
  LET candidates == CandidatesFor(g) IN
  CASE Cardinality(candidates) > 1 -> "ambiguous strategy"
    [] candidates = {} /\ ~ (g.guard.strategy = "jwt" /\ Builtin(g.guard)) -> "missing strategy"
    [] \E s \in candidates : s.principal # g.guard.principal -> "principal mismatch"
    [] OTHER -> Nothing

BindingFor(g) ==
  [guard |-> g.guard, context |-> g.context,
   strategy |-> IF CandidatesFor(g) = {} THEN BuiltinStrategy
                ELSE CHOOSE s \in CandidatesFor(g) : TRUE]

BindGuards ==
  /\ phase = "binding"
  /\ LET problems == {GuardProblem(g) : g \in SelectedGuards} \ {Nothing} IN
     IF CatalogProblem # Nothing THEN Refuse(CatalogProblem) /\ UNCHANGED bindings
     ELSE IF problems # {} THEN Refuse(CHOOSE p \in problems : TRUE) /\ UNCHANGED bindings
     ELSE /\ bindings' = {BindingFor(g) : g \in SelectedGuards}
          /\ phase' = "validating" /\ UNCHANGED failure
  /\ UNCHANGED <<app, scope, validated, seen, cursor, router>>

-----------------------------------------------------------------------------
(***************************************************************************)
(* validate_scoped_descriptors: one controller after the other.            *)
(***************************************************************************)
\* The list the registrar will be checked against, route by route.
ValidatedRoutes(s) ==
  LET routes == ControllerRoutes(s.controller) IN
  [i \in DOMAIN routes |->
     [verb |-> routes[i].verb, handler |-> routes[i].handler, selected |-> Selects(s, routes[i]),
      path |-> routes[i].full, context |-> ContextFor(s, routes[i])]]

\* Seeded fault: routes are compared as they are written.
RouteKeyLiteral(r) == <<r.verb, r.full>>

RouteKey(r) == <<r.verb, Canonical(r.full)>>

\* Whether two of the selected routes, or one and an earlier one, collide.
Conflicts(routes) ==
  \/ \E i \in DOMAIN routes : RouteKey(routes[i]) \in seen
  \/ \E i, j \in DOMAIN routes : i # j /\ RouteKey(routes[i]) = RouteKey(routes[j])

Earlier == {scope[i].controller : i \in DOMAIN validated}

ValidateController ==
  /\ phase = "validating"
  /\ Len(validated) < Len(scope)
  /\ LET s == scope[Len(validated) + 1]
         c == s.controller
         routes == SelectedRoutes(s)
     IN  IF \E e \in Earlier : e.type = c.type THEN Refuse("identity") /\ UNCHANGED <<validated, seen>>
         ELSE IF \E i \in DOMAIN c.contracts : RoutesOf(Contract(c.contracts[i])) = << >>
              THEN Refuse("empty contract") /\ UNCHANGED <<validated, seen>>
         ELSE IF \E i \in DOMAIN routes : ~ ValidRoute(routes[i])
              THEN Refuse("route") /\ UNCHANGED <<validated, seen>>
         ELSE IF Conflicts(routes) THEN Refuse("conflict") /\ UNCHANGED <<validated, seen>>
         ELSE /\ validated' = Append(validated, ValidatedRoutes(s))
              /\ seen' = seen \cup {RouteKey(routes[i]) : i \in DOMAIN routes}
              /\ UNCHANGED <<phase, failure>>
  /\ UNCHANGED <<app, scope, bindings, cursor, router>>

StartInstalling ==
  /\ phase = "validating" /\ Len(validated) = Len(scope)
  /\ phase' = "installing"
  /\ UNCHANGED <<app, failure, scope, bindings, validated, seen, cursor, router>>

-----------------------------------------------------------------------------
(***************************************************************************)
(* The generated registrars.  Axum keeps the methods of one path string    *)
(* together; its matcher panics on a second string of the same shape.      *)
(***************************************************************************)
\* What the application holds: everything linked, or what reachable modules own.
Held == {p.type : p \in {q \in app.providers : app.rooted => Reached(Owner(q.namespace))}}

AxumPanics(path, verb) ==
  \E q \in router : \/ q.full # path /\ Canonical(q.full) = Canonical(path)
                    \/ q.full = path /\ q.verb = verb

Registering == scope[cursor.controller].controller
Listed == validated[cursor.controller]

\* `binding_for`.
FindBinding(guard, context) == {b \in bindings : b.guard = guard /\ b.context = context}

\* One route of the registrar: `next`, the guard layer, `Router::route`.
InstallRoute ==
  /\ phase = "installing"
  /\ cursor.controller <= Len(scope)
  /\ cursor.asked < Len(ControllerRoutes(Registering))
  /\ LET r == ControllerRoutes(Registering)[cursor.asked + 1]
         listed == Listed[cursor.asked + 1]
         found == FindBinding(r.guard, listed.context)
     IN  IF Registering.type \notin Held THEN Refuse("controller") /\ UNCHANGED <<cursor, router>>
         ELSE IF cursor.asked >= Len(Listed) \/ listed.verb # r.verb \/ listed.handler # r.handler
              THEN Refuse("registrar") /\ UNCHANGED <<cursor, router>>
         ELSE IF listed.selected /\ r.guard # NoGuard /\ found = {}
              THEN Refuse("binding") /\ UNCHANGED <<cursor, router>>
         ELSE IF listed.selected /\ AxumPanics(listed.path, listed.verb)
              THEN phase' = "panicked" /\ UNCHANGED <<failure, cursor, router>>
         ELSE /\ cursor' = [cursor EXCEPT !.asked = @ + 1]
              /\ UNCHANGED <<phase, failure>>
              /\ IF ~ listed.selected THEN UNCHANGED router
                 ELSE router' = router \cup
                   {[verb |-> r.verb, full |-> listed.path, handler |-> r.handler, trait |-> r.trait,
                     controller |-> Registering,
                     layer |-> IF r.guard = NoGuard THEN {} ELSE {CHOOSE b \in found : TRUE}]}
  /\ UNCHANGED <<app, scope, bindings, validated, seen>>

\* `finish`, then the next controller.
FinishController ==
  /\ phase = "installing"
  /\ cursor.controller <= Len(scope)
  /\ cursor.asked = Len(ControllerRoutes(Registering))
  /\ IF cursor.asked < Len(Listed) THEN Refuse("registrar") /\ UNCHANGED cursor
     ELSE cursor' = [controller |-> cursor.controller + 1, asked |-> 0] /\ UNCHANGED <<phase, failure>>
  /\ UNCHANGED <<app, scope, bindings, validated, seen, router>>

RouterBuilt ==
  /\ phase = "installing" /\ cursor.controller > Len(scope)
  /\ phase' = "built"
  /\ UNCHANGED <<app, failure, scope, bindings, validated, seen, cursor, router>>

RoutingNext ==
  \/ Expand \/ SelectScope \/ BindGuards \/ ValidateController \/ StartInstalling
  \/ InstallRoute \/ FinishController \/ RouterBuilt

-----------------------------------------------------------------------------
(***************************************************************************)
(* Properties.                                                             *)
(***************************************************************************)
\* What the attributes accepted passes the validation at run time, and once a
\* registrar runs nothing is missing: it meets the routes that were validated
\* in their order, finds its controller in the application and a binding for
\* every guard (router.rs: validation errors "occur before any Axum route is
\* installed"; missing_scoped_binding_error is not expected).
InstallationNeverFails ==
  /\ failure \notin {"route", "registrar", "controller", "binding"}
  /\ phase = "refused" => router = {}

\* Once registrars run, no request method has two selected routes of the same
\* shape, whatever their captures are called and whichever controllers declare
\* them: a request has one best match, and it is not Axum that finds out
\* (canonical_pattern, seen_routes).
SameShape(p, q) ==
  /\ Len(p) = Len(q)
  /\ \A i \in DOMAIN p : p[i] = q[i] \/ {p[i].kind, q[i].kind} = {"capture"}

RoutesAreUnambiguous ==
  phase \in {"installing", "built", "panicked"} =>
    \A m, n \in DOMAIN validated : \A i \in DOMAIN validated[m], j \in DOMAIN validated[n] :
      LET q == validated[m][i]
          r == validated[n][j]
      IN  <<m, i>> # <<n, j>> /\ q.selected /\ r.selected /\ q.verb = r.verb
          => ~ SameShape(q.path, r.path)

\* A rooted application serves only what the root reaches: the controller, the
\* contract and the strategy of every installed route belong to the module of
\* the other, or to modules in reach of the root (http_scope.rs), though the
\* identity of a route does not name its contract.
OnlyReachableIsServed ==
  app.rooted =>
    \A r \in router :
      /\ Reached(Owner(r.controller.namespace))
      /\ Owner(Contract(r.trait).namespace) \in app.reached \cup {NoModule}
      /\ \A b \in r.layer :
           \/ b.strategy = BuiltinStrategy
           \/ Owner(b.strategy.namespace) = b.context
           \/ <<b.context, Owner(b.strategy.namespace)>> \in app.imports

\* "Validation errors ... occur before any Axum route is installed"
\* (router.rs:28-32): building a router ends with a router or an error.
BuildingNeverPanics == phase # "panicked"

\* What the validation lets through can be installed: every route finds what it
\* needs, and no two of one method are the same to a request.
InstallationIsSound == InstallationNeverFails /\ RoutesAreUnambiguous

=============================================================================
