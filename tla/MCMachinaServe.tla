---------------------------- MODULE MCMachinaServe ----------------------------
(* An instance of MachinaServe for TLC. *)
EXTENDS MachinaServe, TLC

CONSTANTS c1, c2, r1, s1, s2

MCCallers == {c1, c2}
Symmetry  == Permutations(MCCallers)
MCRoutes  == {r1}
MCStates  == {s1, s2}
MCLists   == {<<s1, s2>>, <<s1>>, <<s1, s1, s2>>}

\* The route with two states, with one of them twice, with one only, and without the route.
Both == (r1 :> [states |-> <<s1, s2>>, active |-> s1])
Same == (r1 :> [states |-> <<s1, s1, s2>>, active |-> s1])
One  == (r1 :> [states |-> <<s1>>, active |-> s1])
MCSaves == {Both, Same, One, <<>>}

MCScenes == {r1 :> s2}
=============================================================================
