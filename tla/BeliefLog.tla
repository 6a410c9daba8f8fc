------------------------------ MODULE BeliefLog ------------------------------
(***************************************************************************)
(* What the belief_states table of one project promises its readers: an    *)
(* append-only log of versions.  Version v is log[v]; each new version     *)
(* remembers everything its predecessor remembered, never moves its        *)
(* watermark back, and an incremental version remembers strictly more.     *)
(* How versions are computed is left open: CAGService.tla implements this. *)
(***************************************************************************)
EXTENDS Integers, Sequences

VARIABLE log

(* What a reader compares a version with when there is none before it. *)
NothingKnown == [kind |-> "none", covers |-> {}, count |-> 0, watermark |-> 0]

LastOf(versions) ==
    IF versions = << >> THEN NothingKnown ELSE versions[Len(versions)]

(* The new version `after` is an admissible successor of `before`. *)
Succeeds(before, after) ==
    /\ after.kind \in {"incremental", "full"}
    /\ before.covers \subseteq after.covers
    /\ before.watermark <= after.watermark
    /\ before.count <= after.count
    /\ after.kind = "incremental" =>
          /\ before.count < after.count
          /\ before.watermark < after.watermark

Init == log = << >>

(* One version is added at the end; the versions before it stay as they are. *)
Publish ==
    /\ Len(log') = Len(log) + 1
    /\ \A v \in 1..Len(log) : log'[v] = log[v]
    /\ Succeeds(LastOf(log), log'[Len(log')])

Spec == Init /\ [][Publish]_log
=============================================================================
