-------------------------- MODULE MCGuardedRequests --------------------------
(***************************************************************************)
(* Small programs and requests for GuardedRequests.                        *)
(***************************************************************************)
EXTENDS GuardedRequests

AModule(m, path) == [type |-> m, namespace |-> path]
Linked == {AModule(1, <<1>>), AModule(2, <<1, 2>>), AModule(3, <<3>>)}

\* Complete catalog; the root alone with its nested module; with the third
\* module imported by the root; with the third imported by the second only.
Graphs ==
  {[rooted |-> FALSE, imports |-> {}, reached |-> {}],
   [rooted |-> TRUE, imports |-> {<<1, 2>>}, reached |-> {1, 2}],
   [rooted |-> TRUE, imports |-> {<<1, 2>>, <<1, 3>>}, reached |-> {1, 2, 3}],
   [rooted |-> TRUE, imports |-> {<<1, 2>>, <<2, 3>>}, reached |-> {1, 2, 3}]}
TwoGraphs == {g \in Graphs : Cardinality(g.imports) < 2}

AMethod(verb, path, handler, guard) ==
  [verb |-> verb, path |-> path, handler |-> handler, guard |-> guard, active |-> TRUE]
AContract(name, prefix, path, guard, methods) ==
  [name |-> name, prefix |-> prefix, namespace |-> path, guard |-> guard, methods |-> methods]
AController(t, path, contracts) == [type |-> t, namespace |-> path, contracts |-> contracts]
AProvider(t, path, public) == [type |-> t, namespace |-> path, public |-> public]
AStrategy(name, t, path, kind, who) ==
  [name |-> name, provider |-> t, namespace |-> path, kind |-> kind, principal |-> who]

Program(graph, contracts, controllers, strategies, providers) ==
  [modules |-> Linked, rooted |-> graph.rooted, imports |-> graph.imports, reached |-> graph.reached,
   contracts |-> contracts, controllers |-> controllers, strategies |-> strategies,
   providers |-> providers \cup {AProvider(controllers[i].type, controllers[i].namespace, TRUE) :
                                   i \in DOMAIN controllers}]

Clause(mode, values) == [mode |-> mode, values |-> values]
Jwt == [NoSpec EXCEPT !.strategy = "jwt", !.principal = "claims"]

-----------------------------------------------------------------------------
\* Two contracts of one controller, or of two, in all modules and in none, a
\* method of each, one perhaps disabled, under every pair of short paths.
ShortPaths == {<< >>, <<Lit("a")>>, <<Cap("x")>>, <<Cap("y")>>}

Spread ==
  UNION {{Program(graph,
            {AContract("T", << >>, <<1>>, NoSpec, <<AMethod("get", <<Cap("x")>>, "h", own)>>),
             AContract("U", << >>, path, NoSpec, <<[AMethod(verb, p, h, NoSpec) EXCEPT !.active = active],
                                                   AMethod("put", <<Lit("c")>>, "k", own)>>)},
            controllers, {}, {}) :
          path \in {<<1, 2>>, <<3>>, <<4>>}, verb \in {"get", "post"}, p \in ShortPaths,
          h \in {"h", "i"}, active \in BOOLEAN, own \in {NoSpec, Jwt},
          controllers \in {<<AController(9, <<1>>, <<"T", "U">>)>>,
                           <<AController(8, <<1>>, <<"T">>), AController(9, <<3, 5>>, <<"U">>)>>}} :
         graph \in Graphs}

\* What the attribute takes or refuses: prefixes and paths of two segments.
Segments == {Lit("a"), Cap("x"), Cap("y"), Odd("*")}
LongPaths == ShortPaths \cup {<<s, t>> : s \in Segments, t \in Segments}

Written ==
  {Program(graph,
     {AContract("T", prefix, <<1>>, NoSpec, <<AMethod("get", p, "h", NoSpec), AMethod(verb, <<Cap("x")>>, "i", NoSpec)>>)},
     <<AController(9, <<1>>, <<"T">>)>>, {}, {}) :
   graph \in TwoGraphs, prefix \in {<< >>, <<Lit("a")>>, <<Cap("z")>>}, p \in LongPaths,
   verb \in {"get", "delete"}}

\* Contracts whose methods are all disabled, and a controller linked twice.
Empty ==
  {Program(graph,
     {AContract("T", << >>, <<1>>, NoSpec, <<[AMethod("get", << >>, "h", NoSpec) EXCEPT !.active = active]>>)},
     <<AController(8, <<1>>, <<"T">>), AController(t, <<1>>, <<"T">>)>>, {}, {}) :
   graph \in TwoGraphs, active \in BOOLEAN, t \in {8, 9}}

-----------------------------------------------------------------------------
\* Guards of a trait and of a method, complete or not.
Roles == Clause("any", {"admin", "staff"})
TraitGuards ==
  {NoSpec, Jwt, [Jwt EXCEPT !.roles = Roles, !.permissions = Clause("all", {"read"})],
   [Jwt EXCEPT !.source = "sid"], [Jwt EXCEPT !.strategy = "own", !.principal = "user"],
   [Jwt EXCEPT !.roles = Roles, !.predicates = {"owner"}],
   [NoSpec EXCEPT !.roles = Roles], [Jwt EXCEPT !.skip = TRUE]}
MethodGuards ==
  {NoSpec, [NoSpec EXCEPT !.skip = TRUE], Jwt, [NoSpec EXCEPT !.permissions = Clause("all", {"read", "write"})],
   [NoSpec EXCEPT !.source = "sid", !.roles = Clause("all", {"admin"})],
   [NoSpec EXCEPT !.permissions = Clause("any", {"read"}), !.predicates = {"owner", "recent"}],
   [NoSpec EXCEPT !.strategy = "own", !.principal = "user"], [NoSpec EXCEPT !.strategy = "own"],
   [Jwt EXCEPT !.skip = TRUE]}

Inherited ==
  {Program(graph,
     {AContract("T", << >>, <<1>>, declared, <<AMethod("get", << >>, "h", own), AMethod("put", << >>, "i", NoSpec)>>)},
     <<AController(9, <<1>>, <<"T">>)>>,
     {AStrategy("own", 7, <<1>>, kind, "user")}, {AProvider(7, <<1>>, FALSE)}) :
   graph \in TwoGraphs, declared \in TraitGuards, own \in MethodGuards, kind \in {"access", "refresh"}}

\* Strategies that are private or public, in every module, with a name in
\* common, reserved, of the wrong profile or principal, or not managed.
Own(path) == AContract("T", << >>, path, [Jwt EXCEPT !.strategy = "own", !.principal = "user"],
                       <<AMethod("get", << >>, "h", NoSpec)>>)
Places == {<<1>>, <<1, 2>>, <<3>>, <<4>>}

Managed ==
  {Program(graph, {Own(path)}, <<AController(9, <<1>>, <<"T">>)>>,
     {AStrategy("own", 6, one, "access", "user"), AStrategy(name, 7, other, "refresh", who)},
     {AProvider(6, one, public1), AProvider(7, other, public2)}) :
   graph \in Graphs, path \in {<<1>>, <<1, 2>>, <<4>>}, one \in Places, other \in Places,
   name \in {"own", "jwt-refresh"}, who \in {"user", "other"},
   public1 \in BOOLEAN, public2 \in BOOLEAN}

Faulty ==
  {Program(graph, {Own(<<1>>)}, <<AController(9, <<1>>, <<"T">>)>>,
     {AStrategy("own", 6, <<1>>, "access", "user"), AStrategy(name, t, <<1>>, "refresh", "user")},
     {AProvider(6, <<1>>, TRUE), AProvider(6, place, TRUE), AProvider(7, <<1>>, TRUE)}) :
   graph \in TwoGraphs, name \in {"jwt", "other"}, t \in {5, 7}, place \in {<<1>>, <<3>>}}

-----------------------------------------------------------------------------
MCApplications == Spread \cup Written \cup Empty \cup Inherited \cup Managed \cup Faulty

\* The strategy and the type it is implemented for are in the same module here.
AToken(kind, verdict, roles, permissions, satisfies) ==
  [kind |-> kind, verdict |-> verdict, roles |-> roles, permissions |-> permissions,
   satisfies |-> satisfies]
Good == AToken("access", "good", {"admin"}, {"read"}, {"owner"})
Poor == AToken("access", "good", {"staff"}, {}, {})
MCTokens == {Good, Poor,
             AToken("access", "good", {"staff"}, {"read"}, {"owner", "recent"}),
             AToken("refresh", "good", {"staff", "admin"}, {"read", "write"}, {"recent"}),
             AToken("access", "unauthorized", {"admin"}, {"read"}, {"owner"}),
             AToken("access", "internal", {"admin"}, {"read"}, {"owner"})}

Bearer(tokens) == [scheme |-> "bearer", tokens |-> tokens]
NoRequest == [headers |-> << >>, jar |-> TRUE, cookies |-> << >>]
InCookie(name, t) == [name |-> name, token |-> t]

MCRequests ==
  {NoRequest,
   [NoRequest EXCEPT !.headers = <<[scheme |-> "basic", tokens |-> <<Good>>]>>],
   [NoRequest EXCEPT !.headers = <<Bearer(<<Good, Good>>)>>],
   [NoRequest EXCEPT !.headers = <<Bearer(<<Good>>), Bearer(<<Poor>>)>>],
   [NoRequest EXCEPT !.cookies = <<InCookie("sid", Good), InCookie("sid", Good)>>],
   [NoRequest EXCEPT !.cookies = <<InCookie("sid", Good)>>, !.jar = FALSE],
   [NoRequest EXCEPT !.cookies = <<InCookie("sid", Poor), InCookie("theme", Good)>>]}
  \cup {[NoRequest EXCEPT !.headers = <<Bearer(<<t>>)>>] : t \in MCTokens}
  \cup {[NoRequest EXCEPT !.cookies = <<InCookie("sid", t)>>] : t \in MCTokens}
=============================================================================
