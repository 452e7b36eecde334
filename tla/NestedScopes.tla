---------------------------- MODULE NestedScopes ----------------------------
(***************************************************************************)
(* What a user of the lifecycle relies on, without hooks, states or calls: *)
(* every resource is opened at most once, and open resources are closed in *)
(* the opposite of the order in which they were opened.                    *)
(***************************************************************************)
CONSTANT Resources

VARIABLES
  open,   \* the resources that are open
  below,  \* <<g, h>> : both are open, and g was opened first
  used    \* the resources opened so far, or found impossible to open

scopeVars == <<open, below, used>>

ScopesInit ==
  /\ open = {}
  /\ below = {}
  /\ used = {}

Open(h) ==
  /\ h \notin used
  /\ open' = open \cup {h}
  /\ below' = below \cup {<<g, h>> : g \in open}
  /\ used' = used \cup {h}

OpenFails(h) ==
  /\ h \notin used
  /\ used' = used \cup {h}
  /\ UNCHANGED <<open, below>>

Close(h) ==
  /\ h \in open
  /\ \A g \in open : <<h, g>> \notin below
  /\ open' = open \ {h}
  /\ below' = {p \in below : p[2] # h}
  /\ UNCHANGED used

ScopesNext == \E h \in Resources : Open(h) \/ OpenFails(h) \/ Close(h)

ScopesSpec == ScopesInit /\ [][ScopesNext]_scopeVars

=============================================================================
