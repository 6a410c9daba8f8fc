--------------------------------- MODULE Arq ---------------------------------
(***************************************************************************)
(* The job queue the workers run on (the arq library over Redis), as the   *)
(* code uses it: jobs with an id of their own.  Of a job id Redis knows    *)
(*   absent   nothing                                                      *)
(*   queued   the job key, waiting for a worker                            *)
(*   running  the job key, still there while a worker runs the job         *)
(*   kept     the result key only, until keep_result (an hour) has passed  *)
(* enqueue_job returns None, and does nothing, unless the id is absent.    *)
(* An exception or the job timeout ends a job for good; a job interrupted  *)
(* by a crash or a shutdown of its worker is queued again.  arq counts the *)
(* starts of a job until it ends, and ends it as failed, unstarted, when   *)
(* they exceed max_tries; here its interruptions are counted, one less.    *)
(***************************************************************************)

EXTENDS Naturals

JobStatus == {"absent", "queued", "running", "kept"}

(* enqueue_job(..., _job_id=id) *)
Enqueue(queue, id) ==
    IF queue[id] = "absent" THEN [queue EXCEPT ![id] = "queued"] ELSE queue

(* A worker picks the job up. *)
Take(queue, id) == [queue EXCEPT ![id] = "running"]

(* The job returned or raised: its result is kept for a while. *)
Finish(queue, id) == [queue EXCEPT ![id] = "kept"]

(* The worker died or was shut down: the job is queued again ... *)
Interrupt(queue, id) == [queue EXCEPT ![id] = "queued"]

(* ... and one of its tries is used up. *)
CountTry(retries, id) == [retries EXCEPT ![id] = @ + 1]

(* A job that ended starts counting anew. *)
ResetTries(retries, id) == [retries EXCEPT ![id] = 0]

(* keep_result has passed. *)
Forget(queue, id) == [queue EXCEPT ![id] = "absent"]
=============================================================================
