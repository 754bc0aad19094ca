---------------------------- MODULE MCMachinaHub ----------------------------
(* An instance of MachinaHub for TLC. *)
EXTENDS MachinaHub

CONSTANTS l1, r1, r2
=============================================================================
