------------------------ MODULE MCMachinaCollections ------------------------
(* An instance of MachinaCollections for TLC. *)
EXTENDS MachinaCollections

CONSTANTS c1, c2, r1, x, d1, d2, d3

MCCallers == {c1, c2}
MCRoutes  == {r1}
MCIds     == {x}
MCData    == {d1, d2, d3}

\* A data file with an item, an empty one, and one that has an id twice and one that the
\* mock may make.
MCSeed ==
  [d \in MCData |-> CASE d = d1 -> <<x>> [] d = d2 -> <<>> [] d = d3 -> <<x, x, Made(r1, 1)>>]
=============================================================================
