---------------------------- MODULE MCCAGService ----------------------------
(* Finite instances of CAGService for TLC. *)
EXTENDS CAGService, TLC

CONSTANTS d1, d2, d3, s1, s2

MCSymmetry == Permutations(Docs) \cup Permutations(Sessions)

WorkerOps == {"update", "compaction", "genesis"}
UpdateOnly == {"update"}
UpdateOrCompaction == {"update", "compaction"}
AllOps == WorkerOps \cup {"insert"}

NoRows == {}

(* What the repository's tests pass to insert_version: a full and an *)
(* incremental row with a watermark and a count of their own.        *)
SomeRows == {[version |-> 0, rebuild_type |-> t, last_summary_created_at |-> w,
              summary_count_covered |-> 1, state |-> {}] :
                t \in {"incremental", "full"}, w \in {1}}

StrictClock == {1}
CoarseClock == {0, 1}
=============================================================================
