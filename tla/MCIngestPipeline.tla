-------------------------- MODULE MCIngestPipeline --------------------------
(* Finite instances of IngestPipeline for TLC. *)
EXTENDS IngestPipeline, TLC

CONSTANTS d1, d2

AllFaults == {"lost", "error", "database", "timeout", "crash"}
NoFaults == {}
OnlyTimeouts == {"timeout"}

MCSymmetry == Permutations({d1, d2})
=============================================================================
