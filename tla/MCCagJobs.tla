----------------------------- MODULE MCCagJobs -----------------------------
(* Finite instances of CagJobs for TLC. *)
EXTENDS CagJobs

CONSTANTS d1, d2, d3
=============================================================================
