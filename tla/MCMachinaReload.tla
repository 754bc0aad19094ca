--------------------------- MODULE MCMachinaReload ---------------------------
(* Instances of MachinaReload for TLC. *)
EXTENDS MachinaReload

CONSTANTS f1, f2, r1, r2, s1, s2, w, m1, a1, a2

Saving(states, kinds) == [act : [Routes -> states], kind : kinds]

\* f1 holds HTTP routes, f2 gRPC routes; each can be broken, and f1 be gone.
TwoFiles == [f \in Files |->
  IF f \in GrpcFiles THEN Saving({s1}, {"good", "badproto"})
  ELSE Saving({s1}, {"good", "problems", "absent"})]

\* Every fate of a file.
Everything == [f \in Files |->
  Saving({s1, s2}, {"good"}) \cup Saving({s1}, Kinds \ {"good"})]

\* Each route of each file may be set to s2, whatever else may happen to it.
SetAll == [file : Files, route : Routes, state : {s2}]
=============================================================================
