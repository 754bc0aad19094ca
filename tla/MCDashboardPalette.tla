------------------------ MODULE MCDashboardPalette ------------------------
(* An instance of DashboardPalette for TLC. *)
EXTENDS DashboardPalette

CONSTANTS q1, q2, q3

MCQueries == {q1, q2, q3}
=============================================================================
