------------------------------- MODULE CagJobs -------------------------------
(***************************************************************************)
(* When the belief state of a project is brought up to date: the threshold *)
(* check at the end of every ingest, the cag_update and cag_rebuild jobs   *)
(* under their fixed arq ids, the weekly cron and the admin's rebuild      *)
(* request, with exceptions, timeouts and worker crashes.                  *)
(*                                                                         *)
(* CAGService.tla shows what the two jobs do to belief_states when nothing *)
(* is stranded; here the event log is only a length.  Summary number i is  *)
(* the i-th usable (not fallback) one in creation order, and a version is  *)
(* the number of the last summary it covers: its watermark and its count.  *)
(***************************************************************************)
EXTENDS Integers, FiniteSets, FiniteSetsExt, Arq

CONSTANTS
    Docs,         \* the documents uploaded
    BatchSize,    \* _REBUILD_BATCH_SIZE
    Threshold,    \* cag_rebuild_threshold of the project
    WeeklyCron,   \* whether cag_weekly_rebuild is scheduled
    MaxRequests,  \* bound on the rebuild requests of admins
    MaxFaults,    \* bound on the exceptions, timeouts and crashes
    MaxTries      \* how often arq starts a job that is interrupted

ASSUME JobsAssumption ==
    /\ BatchSize \in Nat \ {0}
    /\ Threshold \in Nat \ {0}
    /\ WeeklyCron \in BOOLEAN
    /\ MaxRequests \in Nat
    /\ MaxFaults \in Nat
    /\ MaxTries \in Nat \ {0}

Jobs == {"update", "rebuild"}   \* cag-update-{project}, cag-rebuild-{project}
Modes == {"compaction", "genesis"}
NoJob == "none"

VARIABLES
    ingest,    \* ingest[d]: how far the ingest of d has come
    usable,    \* how many usable summaries are committed
    seen,      \* seen[d]: the watermark the threshold check of d has read
    queue,     \* queue[j]: what arq knows of the job id
    retries,   \* retries[j]: how often arq has seen the job interrupted
    mode,      \* the mode the rebuild job was enqueued with
    run,       \* run[j]: where the worker is in the job
    target,    \* target[j]: the last summary in the window j has read
    left,      \* `remaining` of the update job
    lock,      \* the job that holds the advisory lock, or NoJob
    covered,   \* the watermark of the latest version, 0 if there is none
    fullUpTo,  \* the watermark of the latest full version, 0 if there is none
    requests,  \* rebuild requests so far
    faults     \* exceptions, timeouts and crashes so far

ingestVars == <<ingest, usable, seen>>
jobVars == <<retries, run, target, left, lock, covered, fullUpTo>>
vars == <<ingest, usable, seen, queue, retries, mode, run, target, left, lock, covered,
          fullUpTo, requests, faults>>

-----------------------------------------------------------------------------
Init ==
    /\ ingest = [d \in Docs |-> "indexing"]
    /\ usable = 0
    /\ seen = [d \in Docs |-> 0]
    /\ queue = [j \in Jobs |-> "absent"]
    /\ retries = [j \in Jobs |-> 0]
    /\ mode = "compaction"
    /\ run = [j \in Jobs |-> "none"]
    /\ target = [j \in Jobs |-> 0]
    /\ left = 0
    /\ lock = NoJob
    /\ covered = 0
    /\ fullUpTo = 0
    /\ requests = 0
    /\ faults = 0

-----------------------------------------------------------------------------
(* The tail of ingest_document. *)

(* The summary is committed; a fallback summary does not count. *)
CommitSummary(d) ==
    /\ ingest[d] = "indexing"
    /\ ingest' = [ingest EXCEPT ![d] = "committed"]
    /\ usable' \in {usable, usable + 1}
    /\ UNCHANGED <<seen, queue, mode, jobVars, requests, faults>>

(* _maybe_enqueue_cag_update: get_latest *)
ReadWatermark(d) ==
    /\ ingest[d] = "committed"
    /\ ingest' = [ingest EXCEPT ![d] = "counting"]
    /\ seen' = [seen EXCEPT ![d] = covered]
    /\ UNCHANGED <<usable, queue, mode, jobVars, requests, faults>>

(* Mutant of ShouldEnqueue: the first version waits for the threshold too. *)
ShouldEnqueue_ThresholdOnly(watermark, pending) == pending >= Threshold

(* should_enqueue *)
ShouldEnqueue(watermark, pending) ==
    \/ watermark = 0 /\ pending >= 1
    \/ pending >= Threshold

(* count_pending, against the watermark read before. *)
CountPending(d) ==
    /\ ingest[d] = "counting"
    /\ ingest' = [ingest EXCEPT ![d] =
                    IF ShouldEnqueue(seen[d], usable - seen[d]) THEN "triggering" ELSE "done"]
    /\ seen' = [seen EXCEPT ![d] = 0]
    /\ UNCHANGED <<usable, queue, mode, jobVars, requests, faults>>

EnqueueUpdate(d) ==
    /\ ingest[d] = "triggering"
    /\ ingest' = [ingest EXCEPT ![d] = "done"]
    /\ queue' = Enqueue(queue, "update")
    /\ UNCHANGED <<usable, seen, mode, jobVars, requests, faults>>

(* An exception or the timeout after the summary's commit ends the ingest;  *)
(* a crash runs it again, and the summary is already there, unless that was *)
(* the last of its tries, which are not counted here.                       *)
IngestFault(d) ==
    /\ faults < MaxFaults
    /\ faults' = faults + 1
    /\ ingest[d] \in {"committed", "counting", "triggering"}
    /\ \E next \in {"done", "committed"} : ingest' = [ingest EXCEPT ![d] = next]
    /\ seen' = [seen EXCEPT ![d] = 0]
    /\ UNCHANGED <<usable, queue, mode, jobVars, requests>>

-----------------------------------------------------------------------------
(* The jobs cag_update and cag_rebuild. *)

(* A worker starts the job, or arq finds it has been started often enough   *)
(* and ends it as failed.                                                   *)
StartJob(j) ==
    /\ queue[j] = "queued"
    /\ \/ /\ retries[j] < MaxTries
          /\ queue' = Take(queue, j)
          /\ run' = [run EXCEPT ![j] = "started"]
          /\ UNCHANGED retries
       \/ /\ retries[j] >= MaxTries
          /\ queue' = Finish(queue, j)
          /\ retries' = ResetTries(retries, j)
          /\ UNCHANGED run
    /\ UNCHANGED <<ingestVars, mode, target, left, lock, covered, fullUpTo, requests, faults>>

(* The watermark the window starts after. *)
WindowStart(j) ==
    CASE j = "update" -> covered
      [] j = "rebuild" /\ mode = "compaction" -> fullUpTo
      [] OTHER -> 0

(* Mutant of WindowEnd: a rebuild, too, takes one batch only. *)
WindowEnd_BatchedRebuild(j) == Min({usable, WindowStart(j) + BatchSize})

(* An update takes one batch, a rebuild everything. *)
WindowEnd(j) ==
    IF j = "update" THEN Min({usable, WindowStart(j) + BatchSize}) ELSE usable

LockFree == lock = NoJob

(* Under the advisory lock: read the versions and the window.  An empty     *)
(* window ends the job.                                                     *)
ReadWindow(j) ==
    /\ run[j] = "started"
    /\ LockFree
    /\ \/ /\ WindowStart(j) = usable
          /\ queue' = Finish(queue, j)
          /\ retries' = ResetTries(retries, j)
          /\ run' = [run EXCEPT ![j] = "none"]
          /\ UNCHANGED <<target, left, lock>>
       \/ /\ WindowStart(j) < usable
          /\ lock' = j
          /\ run' = [run EXCEPT ![j] = "synthesizing"]
          /\ target' = [target EXCEPT ![j] = WindowEnd(j)]
          /\ left' = IF j = "update" THEN usable - WindowEnd(j) ELSE left
          /\ UNCHANGED <<queue, retries>>
    /\ UNCHANGED <<ingestVars, mode, covered, fullUpTo, requests, faults>>

(* The LLM has answered: the version is committed, the lock released. *)
CommitVersion(j) ==
    /\ run[j] = "synthesizing"
    /\ covered' = target[j]
    /\ fullUpTo' = IF j = "rebuild" THEN target[j] ELSE fullUpTo
    /\ lock' = NoJob
    /\ run' = [run EXCEPT ![j] = "committed"]
    /\ target' = [target EXCEPT ![j] = 0]
    /\ UNCHANGED <<ingestVars, queue, retries, mode, left, requests, faults>>

(* cag_update enqueues its own id when the batch left something over; then  *)
(* the job returns.                                                         *)
FinishJob(j) ==
    /\ run[j] = "committed"
    /\ LET requeued == IF j = "update" /\ left > 0 THEN Enqueue(queue, "update") ELSE queue
       IN  queue' = Finish(requeued, j)
    /\ retries' = ResetTries(retries, j)
    /\ run' = [run EXCEPT ![j] = "none"]
    /\ left' = IF j = "update" THEN 0 ELSE left
    /\ UNCHANGED <<ingestVars, mode, target, lock, covered, fullUpTo, requests, faults>>

(* LLMError, an invalid answer, Postgres, the timeout: the job fails for    *)
(* good.  A crash: it is queued again.  Either way the open transaction is  *)
(* rolled back.                                                             *)
JobFault(j) ==
    /\ faults < MaxFaults
    /\ faults' = faults + 1
    /\ run[j] # "none"
    /\ \/ queue' = Finish(queue, j) /\ retries' = ResetTries(retries, j)
       \/ queue' = Interrupt(queue, j) /\ retries' = CountTry(retries, j)
    /\ run' = [run EXCEPT ![j] = "none"]
    /\ target' = [target EXCEPT ![j] = 0]
    /\ left' = IF j = "update" THEN 0 ELSE left
    /\ lock' = IF lock = j THEN NoJob ELSE lock
    /\ UNCHANGED <<ingestVars, mode, covered, fullUpTo, requests>>

ExpireResult(j) ==
    /\ queue[j] = "kept"
    /\ queue' = Forget(queue, j)
    /\ UNCHANGED <<ingestVars, mode, jobVars, requests, faults>>

-----------------------------------------------------------------------------
(* Who enqueues a rebuild. *)

EnqueueRebuild(m) ==
    /\ queue' = Enqueue(queue, "rebuild")
    /\ mode' = IF queue["rebuild"] = "absent" THEN m ELSE mode

(* Mutant of HasSummaries: only projects without a belief state. *)
HasSummaries_NoBelief == covered = 0 /\ \E d \in Docs : ingest[d] # "indexing"

(* SELECT DISTINCT project_id FROM document_summaries *)
HasSummaries == \E d \in Docs : ingest[d] # "indexing"

(* cag_weekly_rebuild *)
WeeklyRebuild ==
    /\ WeeklyCron
    /\ HasSummaries
    /\ EnqueueRebuild("compaction")
    /\ UNCHANGED <<ingestVars, jobVars, requests, faults>>

(* POST /projects/{id}/cag/rebuild answers queued=True in every case. *)
RequestRebuild(m) ==
    /\ requests < MaxRequests
    /\ requests' = requests + 1
    /\ EnqueueRebuild(m)
    /\ UNCHANGED <<ingestVars, jobVars, faults>>

Next ==
    \/ \E d \in Docs :
          \/ CommitSummary(d) \/ ReadWatermark(d) \/ CountPending(d)
          \/ EnqueueUpdate(d) \/ IngestFault(d)
    \/ \E j \in Jobs :
          \/ StartJob(j) \/ ReadWindow(j) \/ CommitVersion(j)
          \/ FinishJob(j) \/ JobFault(j) \/ ExpireResult(j)
    \/ WeeklyRebuild
    \/ \E m \in Modes : RequestRebuild(m)

Spec == Init /\ [][Next]_vars

(* Workers run the two jobs; the LLM answers, faults being bounded; Redis   *)
(* forgets results; the advisory lock is granted in the order it is asked   *)
(* for, so neither job waits for ever; the cron fires every week.  Nobody   *)
(* has to upload a document, to bring an ingest to its threshold check or   *)
(* to request a rebuild.                                                    *)
Fairness ==
    /\ \A j \in Jobs :
          /\ WF_vars(StartJob(j))
          /\ SF_vars(ReadWindow(j))
          /\ WF_vars(CommitVersion(j))
          /\ WF_vars(FinishJob(j))
          /\ WF_vars(ExpireResult(j))
    /\ WF_vars(WeeklyRebuild)

FairSpec == Spec /\ Fairness

-----------------------------------------------------------------------------
(* Properties. *)

TypeOK ==
    /\ ingest \in [Docs -> {"indexing", "committed", "counting", "triggering", "done"}]
    /\ usable \in Nat
    /\ seen \in [Docs -> 0..usable]
    /\ queue \in [Jobs -> JobStatus]
    /\ retries \in [Jobs -> 0..faults]
    /\ mode \in Modes
    /\ run \in [Jobs -> {"none", "started", "synthesizing", "committed"}]
    /\ target \in [Jobs -> 0..usable]
    /\ left \in 0..usable
    /\ lock \in Jobs \cup {NoJob}
    /\ covered \in 0..usable
    /\ fullUpTo \in 0..covered
    /\ requests \in 0..MaxRequests
    /\ faults \in 0..MaxFaults

(* No committed version covers less than the one before it, although the    *)
(* two jobs have ids of their own and so run at the same time: a rebuild    *)
(* starts behind the updates, an update ends at its batch.                  *)
CoverageNeverShrinks == [][covered' >= covered /\ fullUpTo' >= fullUpTo]_vars

(* No wake-up of the first version is lost: while the project has a usable  *)
(* summary and no version, some ingest is still on its way to the threshold *)
(* check or an update is queued or running, unless a fault took it away.    *)
FirstVersionIsComing ==
    usable > 0 /\ covered = 0 /\ faults = 0 =>
        \/ \E d \in Docs : ingest[d] \in {"committed", "counting", "triggering"}
        \/ queue["update"] \in {"queued", "running"}

(* Whatever triggers are dropped by deduplication, or lost with an ingest   *)
(* or a failed job, the weekly compaction covers what they left.            *)
EverythingIsCovered == <>[](covered = usable)

(* "re-enqueues the job to drain the remainder": an update that has left    *)
(* something over is queued again when it returns.                          *)
RemainderIsRequeued ==
    [][(run["update"] = "committed" /\ left > 0 /\ FinishJob("update"))
          => queue'["update"] = "queued"]_vars

-----------------------------------------------------------------------------
(* Inductive invariants for the proofs (CagJobsProofs.tla).                 *)

(* arq knows of a job what its worker does.                                 *)
WorkerIsKnown == \A j \in Jobs : run[j] # "none" <=> queue[j] = "running"

(* Whoever synthesizes holds the advisory lock, and nobody else does.       *)
LockIsHeld == \A j \in Jobs : run[j] = "synthesizing" <=> lock = j

(* The holder of the lock is about to commit a version that covers          *)
(* something, and no less than the latest one.                              *)
TargetsAhead ==
    \A j \in Jobs : run[j] = "synthesizing" =>
        target[j] > 0 /\ target[j] >= covered

(* An update commits something new, and a batch of it at most. *)
UpdateIsABatch ==
    run["update"] = "synthesizing" =>
        covered < target["update"] /\ target["update"] <= covered + BatchSize

(* Why the coverage never shrinks. *)
CoverageInv == TypeOK /\ WorkerIsKnown /\ LockIsHeld /\ TargetsAhead

(* What the threshold check has seen is not beyond what is covered, and no  *)
(* update is asked for before there is something to cover.                  *)
TriggersAreDue ==
    /\ \A d \in Docs : seen[d] <= covered
    /\ \A d \in Docs : ingest[d] = "triggering" => usable > 0
    /\ queue["update"] # "absent" => usable > 0

(* Before the first version only a fault ends an update without one.        *)
UpdatesDeliver ==
    /\ \A j \in Jobs : run[j] = "committed" => covered > 0
    /\ covered = 0 /\ faults = 0 => queue["update"] # "kept"

(* Why the first version's wake-up is not lost. *)
TriggerInv == TriggersAreDue /\ UpdatesDeliver /\ FirstVersionIsComing

-----------------------------------------------------------------------------
Covers == INSTANCE Coverage WITH pending <- usable - covered

(* The two jobs, whatever they interleave with and wherever they fail, move *)
(* the counters as CAGService moves the rows: what a version adds was       *)
(* pending, and an update adds something and no more than a batch.          *)
ImplementsCoverage == Covers!Spec
=============================================================================
