---------------------------- MODULE JobLifecycle ----------------------------
(***************************************************************************)
(* What the rows of ingestion_jobs and document_summaries promise to a     *)
(* client that polls a job and to the readers of the event log, whatever   *)
(* queue, worker or sweep moves them: a job goes from pending over running *)
(* to complete or failed, runs again only if a worker has died, gets its   *)
(* summary once, while it runs, and is complete only with it.  Rows go     *)
(* with their project, and for good.  IngestPipeline.tla implements this.  *)
(***************************************************************************)
CONSTANT Docs

VARIABLES
    status,    \* status[d]: the job of document d
    summary,   \* summary[d]: its row in the event log
    crashed,   \* whether a worker has died
    removed    \* whether the project is deleted

Init ==
    /\ status = [d \in Docs |-> "absent"]
    /\ summary = [d \in Docs |-> "none"]
    /\ crashed = FALSE
    /\ removed = FALSE

Become(d, next) ==
    /\ status' = [status EXCEPT ![d] = next]
    /\ UNCHANGED <<summary, crashed, removed>>

Upload(d) == status[d] = "absent" /\ ~ removed /\ Become(d, "pending")

Start(d) ==
    /\ \/ status[d] = "pending"
       \/ crashed /\ status[d] # "absent"
    /\ Become(d, "running")

Summarize(d) ==
    /\ status[d] = "running"
    /\ summary[d] = "none"
    /\ \E new \in {"llm", "fallback"} : summary' = [summary EXCEPT ![d] = new]
    /\ UNCHANGED <<status, crashed, removed>>

Complete(d) == status[d] = "running" /\ summary[d] # "none" /\ Become(d, "complete")

Fail(d) == status[d] = "running" /\ Become(d, "failed")

Crash ==
    /\ crashed' = TRUE
    /\ UNCHANGED <<status, summary, removed>>

Remove ==
    /\ removed' = TRUE
    /\ status' = [d \in Docs |-> "absent"]
    /\ summary' = [d \in Docs |-> "none"]
    /\ UNCHANGED crashed

Next ==
    \/ \E d \in Docs : Upload(d) \/ Start(d) \/ Summarize(d) \/ Complete(d) \/ Fail(d)
    \/ Crash
    \/ Remove

Spec == Init /\ [][Next]_<<status, summary, crashed, removed>>
=============================================================================
