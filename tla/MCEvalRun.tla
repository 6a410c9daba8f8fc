----------------------------- MODULE MCEvalRun ------------------------------
(* A finite instance of EvalRun for TLC, beside workers that call Chunker   *)
(* and MapReduce with what projects may configure.                         *)
EXTENDS EvalRun, TLC

VARIABLE task   \* what this behaviour is of

MCSizes == -1..3
MCOverlaps == -1..3
MCLengths == {0, 3, 5}

(* No human grades; one that may differ by two; one for another question. *)
MCHumanGrades == {<<>>,
                  (<<1, "cag">> :> 4) @@ (<<2, "rag">> :> 4),
                  <<9, "cag">> :> 4}

MCVars == <<evalVars, task>>

MCInit ==
    /\ EvalInit
    /\ task \in {"evaluate", "chunk", "reduce"}
    /\ task # "evaluate" => phase = "raised" /\ ~mock /\ file = "none"

Others == <<mock, phase, doc, known, projectVars, lock, window, cron, armVars, outVars, leaks>>

MCNext ==
    /\ UNCHANGED task
    /\ \/ task = "evaluate" /\ EvalNext
       \/ task = "chunk" /\ ChunkerNext /\ UNCHANGED <<Others, reduceVars>>
       \/ task = "reduce" /\ ReduceNext /\ UNCHANGED <<Others, chunkerVars>>

(* A loop in Python goes on until it ends. *)
MCFairness ==
    /\ EvalFairness
    /\ WF_MCVars(task = "chunk" /\ ChunkerStep /\ UNCHANGED <<Others, reduceVars, task>>)
    /\ WF_MCVars(task = "reduce" /\ ReduceStep /\ UNCHANGED <<Others, chunkerVars, task>>)

MCSpec == MCInit /\ [][MCNext]_MCVars /\ MCFairness

(* No loop goes on forever: chunking with an overlap smaller than the chunk *)
(* comes to an end, every level of a reduction is smaller than the one      *)
(* before it, and the run ends, however often answers are not valid and     *)
(* whoever holds the lock.  chunker.py:48, workers/cag.py:237.              *)
EveryLoopEnds ==
    /\ chunking = "looping" /\ overlap < size ~> chunking # "looping"
    /\ reducing \in {"digest", "merge"} ~> reducing \notin {"digest", "merge"}
    /\ <>(phase \in Ended)
=============================================================================
