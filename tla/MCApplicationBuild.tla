------------------------ MODULE MCApplicationBuild ------------------------
(***************************************************************************)
(* Small catalogs for ApplicationBuild.                                     *)
(***************************************************************************)
EXTENDS ApplicationBuild

Decl(t, place, deps) == [type |-> t, place |-> place, deps |-> deps]

\* One declaration or none for each of the types, with the given dependencies.
Single(types, deps) ==
  {[declared |-> {Decl(t, 1, f[t]) : t \in {s \in types : f[s] # <<0>>}},
    repeated |-> {}] : f \in [types -> deps \cup {<<0>>}]}

\* Three types: every set of at most two dependencies, and one named twice.
Mixed == Single({1, 2, 3}, {<<>>, <<1>>, <<2>>, <<3>>, <<2, 1>>, <<1, 3>>, <<3, 2>>, <<2, 2>>})

\* Declarations registered twice, and types declared in two places.
Wrong ==
  {[declared |-> {Decl(1, 1, <<2>>), Decl(2, 1, deps)} \cup more, repeated |-> twice] :
     deps \in {<<>>, <<3>>},
     more \in {{}, {Decl(2, 2, <<>>)}, {Decl(3, 1, <<>>), Decl(3, 2, <<2>>)}},
     twice \in {{}, {Decl(1, 1, <<2>>)}}}

\* Two defaults of one output, and one of another.
RivalDefaults == {[identifier |-> 1, output |-> 2], [identifier |-> 2, output |-> 2],
                  [identifier |-> 3, output |-> 3]}

\* Four declared types: a provider of two others, chains, diamonds and cycles that
\* share a provider, at each of which the fourth type may hang or close a cycle.
Linked ==
  {[declared |-> {Decl(t, 1, f[t]) : t \in 1 .. 4}, repeated |-> {}] :
     f \in {g \in [1 .. 4 -> {<<>>, <<1>>, <<2>>, <<3>>, <<4>>, <<2, 3>>, <<1, 4>>}] :
              g[1] = <<2, 3>> /\ g[2] # <<2>> /\ g[3] # <<3>>}}

LinkedCatalogs == Mixed \cup Wrong \cup Linked
===========================================================================
