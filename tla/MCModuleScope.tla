--------------------------- MODULE MCModuleScope ---------------------------
(***************************************************************************)
(* Small programs for ModuleScope.                                         *)
(***************************************************************************)
EXTENDS ModuleScope

AModule(m, path, direct) == [type |-> m, place |-> 1, namespace |-> path, imports |-> direct]

Program(modules, providers) ==
  [root |-> 1, modules |-> modules, providers |-> providers, repeated |-> {}, held |-> {}]

-----------------------------------------------------------------------------
\* Every import graph of three modules with at most two imports each, an
\* import named twice included.
Lists == {<< >>} \cup {<<a>> : a \in 1 .. 3} \cup {<<a, b>> : a \in 1 .. 3, b \in 1 .. 3}

ImportGraphs ==
  {Program({AModule(m, <<m>>, f[m]) : m \in 1 .. 3}, {}) : f \in [1 .. 3 -> Lists]}

\* A module, the root or another, that is undeclared, declared twice, without
\* a namespace or in the namespace of another; one may not be imported at all.
Shapes == {[m \in 1 .. 3 |-> IF m < 3 THEN <<m + 1>> ELSE << >>],
           [m \in 1 .. 3 |-> IF m = 1 THEN <<3>> ELSE << >>]}

FaultyModules ==
  UNION {LET good == {AModule(m, <<m>>, f[m]) : m \in (1 .. 3) \ {odd}} IN
         {Program(good \cup bad, {}) :
            bad \in {{},
                     {AModule(odd, <<odd>>, f[odd]),
                      [AModule(odd, <<odd>>, << >>) EXCEPT !.place = 2]},
                     {AModule(odd, NoNamespace, f[odd])},
                     {AModule(odd, <<(odd % 3) + 1>>, f[odd])}}} :
         f \in Shapes, odd \in 1 .. 3}

-----------------------------------------------------------------------------
\* The second module is nested in the first; the third may be imported by
\* the first, by the second only, or by none.
ModuleSets ==
  {{AModule(1, <<1>>, imports1), AModule(2, <<1, 2>>, imports2), AModule(3, <<3>>, << >>)} :
     imports1 \in {<<2>>, <<2, 3>>}, imports2 \in {<< >>, <<3>>}}

Paths == {<<1>>, <<1, 2, 5>>, <<3>>, <<4>>}

AProvider(t, place, deps, path, public) ==
  [type |-> t, place |-> place, deps |-> deps, namespace |-> path, public |-> public]

Declarations(t, place, lists) ==
  {AProvider(t, place, deps, path, public) :
     deps \in lists, path \in Paths, public \in BOOLEAN}

\* A type of the root module, one that may depend on a third, and a third that
\* may depend on it in turn or may not be declared; a fourth never is.
Spread ==
  {Program(modules, {AProvider(1, 1, deps, <<1>>, FALSE), second} \cup third) :
     modules \in ModuleSets,
     deps \in {<<2>>, <<3>>, <<2, 3>>, <<4>>},
     second \in Declarations(2, 1, {<< >>, <<3>>}),
     third \in {{}} \cup {{d} : d \in Declarations(3, 1, {<< >>, <<2>>})}}

\* The third type declared in two places, with a type of the root module
\* declared twice in one, or with the third type held by the application.
Rivals ==
  {[Program(modules, {AProvider(1, 1, <<2, 3>>, <<1>>, FALSE), second, third, rival})
      EXCEPT !.repeated = odd.repeated, !.held = odd.held] :
     modules \in ModuleSets,
     second \in Declarations(2, 1, {<<3>>}),
     third \in Declarations(3, 1, {<< >>}),
     rival \in Declarations(3, 2, {<< >>}),
     odd \in {[repeated |-> {}, held |-> {}], [repeated |-> {}, held |-> {3}],
              [repeated |-> {AProvider(1, 1, <<2, 3>>, <<1>>, FALSE)}, held |-> {}]}}

\* Two modules that ask for the same unowned provider, which asks for a fourth.
Shared ==
  {Program(modules, {AProvider(1, 1, first, <<1>>, FALSE), AProvider(2, 1, <<3>>, path, TRUE),
                     AProvider(3, 1, <<4>>, <<4>>, TRUE), fourth}) :
     modules \in ModuleSets,
     first \in {<<2>>, <<3>>, << >>},
     path \in Paths,
     fourth \in Declarations(4, 1, {<< >>, <<1>>})}

SmallPrograms == ImportGraphs \cup FaultyModules \cup Spread \cup Rivals \cup Shared

\* The third type has a default, and so has the second.
SmallDefaults == {[identifier |-> 1, output |-> 2], [identifier |-> 2, output |-> 3]}
=============================================================================
