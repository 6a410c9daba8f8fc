------------------------------ MODULE Coverage ------------------------------
(***************************************************************************)
(* How much of a project's event log its belief state covers, whatever is  *)
(* done to get there: a usable summary that is committed is pending until  *)
(* a version folds it in.  A version takes pending summaries only and each *)
(* of them once; an incremental one takes between one and a batch, a full  *)
(* one may find nothing new but never covers nothing.  CAGService.tla      *)
(* implements this with rows and timestamps, CagJobs.tla with counters, so *)
(* the counters of the second are what the rows of the first amount to.    *)
(***************************************************************************)
EXTENDS Integers

CONSTANT BatchSize   \* the most that an incremental version folds in

VARIABLES
    pending,   \* usable summaries that the latest version does not cover
    covered,   \* summaries that it covers
    fullUpTo   \* summaries that the latest full version covers

Init == pending = 0 /\ covered = 0 /\ fullUpTo = 0

Append ==
    /\ pending' = pending + 1
    /\ UNCHANGED <<covered, fullUpTo>>

Fold(k) ==
    /\ covered' = covered + k
    /\ pending' = pending - k

Update ==
    /\ \E k \in 1..pending : k <= BatchSize /\ Fold(k)
    /\ UNCHANGED fullUpTo

Rebuild ==
    /\ \E k \in 0..pending : Fold(k)
    /\ covered' > 0
    /\ fullUpTo' = covered'

Spec == Init /\ [][Append \/ Update \/ Rebuild]_<<pending, covered, fullUpTo>>
=============================================================================
