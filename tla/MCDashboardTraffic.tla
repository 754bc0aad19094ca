------------------------ MODULE MCDashboardTraffic ------------------------
(* Instances of DashboardTraffic for TLC. *)
EXTENDS DashboardTraffic

MCCap == [v \in Views |-> CASE v = "traffic" -> 2 [] v = "overview" -> 1 [] OTHER -> 0]

\* Lists that hold every request there is.
MCWideCap == [v \in Views |-> IF v = "other" THEN 0 ELSE 4]
=============================================================================
