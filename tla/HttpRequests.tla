---------------------------- MODULE HttpRequests ----------------------------
(***************************************************************************)
(* The requests the API server works on at a time.  Each is a coroutine    *)
(* with a database session of its own; between two awaits of one, any      *)
(* other may run.                                                          *)
(***************************************************************************)
EXTENDS Integers, FiniteSets

CONSTANT Requests   \* places for requests under way

ASSUME RequestsAssumption == IsFiniteSet(Requests) /\ Requests # {}
=============================================================================
