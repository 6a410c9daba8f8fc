---------------------------- MODULE IngestPipeline ----------------------------
(***************************************************************************)
(* The documents of one project on their way into the event log and the    *)
(* vector store: uploads, the arq jobs ingest-{job}, the sweep of stale    *)
(* pending jobs, the reindex_project job and the deletion of the project,  *)
(* over Postgres, Redis (Arq.tla) and the project's Qdrant collection.     *)
(*                                                                         *)
(* A step is one commit or one call of a service.  Each document has one   *)
(* ingestion job, named by the document.  The collection is a set of       *)
(* documents: the point ids are uuid5 of document and chunk index, so      *)
(* writing the points of a document again changes nothing.                 *)
(***************************************************************************)
EXTENDS Integers, FiniteSets, Arq

CONSTANTS
    Docs,         \* the documents uploaded
    Reindexer,    \* the worker task of reindex_project
    Deleter,      \* the request DELETE /projects/{id}
    FaultKinds,   \* the faults that may happen
    MaxFaults,    \* bound on them
    MaxTries,     \* how often arq starts a job that is interrupted
    MaxReindexes, \* bound on the reindexes asked for
    MayDelete     \* whether the project may be deleted

Kinds == {"lost", "error", "database", "timeout", "crash"}

ASSUME PipelineAssumption ==
    /\ IsFiniteSet(Docs)
    /\ Reindexer \notin Docs
    /\ Deleter \notin Docs
    /\ Reindexer # Deleter
    /\ FaultKinds \subseteq Kinds
    /\ MaxFaults \in Nat
    /\ MaxTries \in Nat \ {0}
    /\ MaxReindexes \in Nat
    /\ MayDelete \in BOOLEAN

Actors == Docs \cup {Reindexer, Deleter}

VARIABLES
    project,    \* whether the row of projects exists
    upload,     \* upload[d]: how far the upload request of d has come
    status,     \* status[d]: the ingestion job's row, "absent" without one
    summary,    \* summary[d]: the row of document_summaries
    stale,      \* the documents whose job was created before the sweep's cutoff
    queue,      \* queue[d]: what arq knows of the job id
    pc,         \* pc[a]: where each task is
    sweep,      \* the jobs the sweep has selected and not yet enqueued
    documents,  \* the documents reindex_project has listed
    todo,       \* those of them it has not indexed yet
    exists,     \* whether the Qdrant collection exists
    points,     \* the documents with their points in it
    reindexes,  \* reindexes so far
    faults,     \* how many faults so far
    crashed,    \* whether a worker has died
    cutOff,     \* the documents whose last run ended without writing the job's row
    retries     \* retries[d]: how often arq has seen the job interrupted

rowVars == <<project, status, summary>>
requestVars == <<upload, stale, sweep>>
storeVars == <<exists, points>>
reindexVars == <<documents, todo, reindexes>>
faultVars == <<faults, crashed, cutOff, retries>>
vars == <<project, upload, status, summary, stale, queue, pc, sweep, documents,
          todo, exists, points, reindexes, faults, crashed, cutOff, retries>>

-----------------------------------------------------------------------------
Init ==
    /\ project = TRUE
    /\ upload = [d \in Docs |-> "none"]
    /\ status = [d \in Docs |-> "absent"]
    /\ summary = [d \in Docs |-> "none"]
    /\ stale = {}
    /\ queue = [d \in Docs |-> "absent"]
    /\ pc = [a \in Actors |-> "idle"]
    /\ sweep = {}
    /\ documents = {}
    /\ todo = {}
    /\ exists = FALSE
    /\ points = {}
    /\ reindexes = 0
    /\ faults = 0
    /\ crashed = FALSE
    /\ cutOff = {}
    /\ retries = [d \in Docs |-> 0]

Goto(a, label) == pc' = [pc EXCEPT ![a] = label]

-----------------------------------------------------------------------------
(* The upload request and the sweep. *)

(* The rows of document and job, in one transaction. *)
StoreDocument(d) ==
    /\ upload[d] = "none"
    /\ project
    /\ upload' = [upload EXCEPT ![d] = "stored"]
    /\ status' = [status EXCEPT ![d] = "pending"]
    /\ UNCHANGED <<project, summary, stale, queue, pc, sweep, reindexVars, storeVars, faultVars>>

EnqueueIngest(d) ==
    /\ upload[d] = "stored"
    /\ upload' = [upload EXCEPT ![d] = "answered"]
    /\ queue' = Enqueue(queue, d)
    /\ UNCHANGED <<rowVars, stale, pc, sweep, reindexVars, storeVars, faultVars>>

(* Ten minutes have passed; the age of a job that is not PENDING is never   *)
(* looked at.                                                               *)
GrowStale(d) ==
    /\ status[d] = "pending"
    /\ d \notin stale
    /\ stale' = stale \cup {d}
    /\ UNCHANGED <<rowVars, upload, queue, pc, sweep, reindexVars, storeVars, faultVars>>

(* Mutants of Sweepable: the status is not looked at; the age is compared   *)
(* the wrong way round.                                                     *)
Sweepable_AnyStatus == {d \in stale : status[d] # "absent"}
Sweepable_Fresh == {d \in Docs \ stale : status[d] = "pending"}

Sweepable == {d \in stale : status[d] = "pending"}

(* sweep_pending_jobs reads the stale jobs ...  (arq runs one sweep at a    *)
(* time, every five minutes.)                                               *)
SelectStale ==
    /\ sweep = {}
    /\ Sweepable # {}
    /\ sweep' = Sweepable
    /\ UNCHANGED <<rowVars, upload, stale, queue, pc, reindexVars, storeVars, faultVars>>

(* ... and enqueues them one by one under the ids the uploads used. *)
SweepOne(d) ==
    /\ d \in sweep
    /\ sweep' = sweep \ {d}
    /\ queue' = Enqueue(queue, d)
    /\ UNCHANGED <<rowVars, upload, stale, pc, reindexVars, storeVars, faultVars>>

(* keep_result is an hour: longer than a request or a sweep may take. *)
ForgetResult(d) ==
    /\ queue[d] = "kept"
    /\ upload[d] = "answered"
    /\ d \notin sweep
    /\ queue' = Forget(queue, d)
    /\ UNCHANGED <<rowVars, requestVars, pc, reindexVars, storeVars, faultVars>>

-----------------------------------------------------------------------------
(* ingest_document. *)

Working == {"running", "ensuring", "creating", "upserting", "indexed", "summarized"}

(* A worker starts the job, or arq finds it has been started often enough.  *)
TakeIngest(d) ==
    /\ queue[d] = "queued"
    /\ \/ /\ retries[d] < MaxTries
          /\ queue' = Take(queue, d)
          /\ Goto(d, "taken")
          /\ cutOff' = cutOff \ {d}
          /\ UNCHANGED retries
       \/ /\ retries[d] >= MaxTries
          /\ queue' = Finish(queue, d)
          /\ retries' = ResetTries(retries, d)
          /\ cutOff' = cutOff \cup {d}
          /\ UNCHANGED pc
    /\ UNCHANGED <<rowVars, requestVars, reindexVars, storeVars, faults, crashed>>

(* Mutant of Raise: the failure is not committed. *)
Raise_Unmarked(d) == Goto(d, "returned") /\ UNCHANGED status

(* An exception that is not the database's: _mark_job_failed commits FAILED *)
(* if the job still has a row, and the exception is raised again.           *)
Raise(d) ==
    /\ status' = [status EXCEPT ![d] = IF @ = "absent" THEN @ ELSE "failed"]
    /\ Goto(d, "returned")

MarkRunning(d) ==
    /\ pc[d] = "taken"
    /\ \/ /\ status[d] # "absent"
          /\ status' = [status EXCEPT ![d] = "running"]
          /\ Goto(d, "running")
       \/ /\ status[d] = "absent"
          /\ Raise(d)
    /\ UNCHANGED <<project, summary, requestVars, queue, reindexVars, storeVars, faultVars>>

(* The document and the project are read; parsing and embedding follow. *)
LoadDocument(d) ==
    /\ pc[d] = "running"
    /\ \/ /\ project
          /\ Goto(d, "ensuring")
          /\ UNCHANGED status
       \/ /\ ~ project
          /\ Raise(d)
    /\ UNCHANGED <<project, summary, requestVars, queue, reindexVars, storeVars, faultVars>>

(* ON CONFLICT (document_id) DO NOTHING *)
WriteSummary(old, new) == IF old = "none" THEN new ELSE old

(* The summarizer answers, or falls back, and the row is committed.  The    *)
(* foreign keys refuse it when the project is gone.                         *)
CommitSummary(d) ==
    /\ pc[d] = "indexed"
    /\ \/ /\ project
          /\ \E new \in {"llm", "fallback"} :
                summary' = [summary EXCEPT ![d] = WriteSummary(@, new)]
          /\ Goto(d, "summarized")
          /\ UNCHANGED status
       \/ /\ ~ project
          /\ Raise(d)
          /\ UNCHANGED summary
    /\ UNCHANGED <<project, requestVars, queue, reindexVars, storeVars, faultVars>>

(* After the threshold check (CagJobs.tla): COMPLETE is committed, or the   *)
(* UPDATE finds no row and fails.                                           *)
MarkComplete(d) ==
    /\ pc[d] = "summarized"
    /\ status' = [status EXCEPT ![d] = IF @ = "absent" THEN @ ELSE "complete"]
    /\ Goto(d, "returned")
    /\ UNCHANGED <<project, summary, requestVars, queue, reindexVars, storeVars, faultVars>>

ReturnIngest(d) ==
    /\ pc[d] = "returned"
    /\ queue' = Finish(queue, d)
    /\ retries' = ResetTries(retries, d)
    /\ Goto(d, "idle")
    /\ UNCHANGED <<rowVars, requestVars, reindexVars, storeVars, faults, crashed, cutOff>>

-----------------------------------------------------------------------------
(* reindex_project. *)

RequestReindex ==
    /\ reindexes < MaxReindexes
    /\ pc[Reindexer] = "idle"
    /\ reindexes' = reindexes + 1
    /\ Goto(Reindexer, "taken")
    /\ UNCHANGED <<rowVars, requestVars, queue, documents, todo, storeVars, faultVars>>

(* The project and its documents are read, and the session is closed. *)
ListDocuments ==
    /\ pc[Reindexer] = "taken"
    /\ \/ /\ project
          /\ documents' = {d \in Docs : status[d] # "absent"}
          /\ Goto(Reindexer, "dropping")
       \/ /\ ~ project
          /\ documents' = {}
          /\ Goto(Reindexer, "idle")
    /\ todo' = documents'
    /\ UNCHANGED <<rowVars, requestVars, queue, reindexes, storeVars, faultVars>>

(* Mutant of NextDocument: the last document is skipped. *)
NextDocument_OffByOne ==
    /\ pc[Reindexer] = "next"
    /\ Goto(Reindexer, IF Cardinality(todo) <= 1 THEN "idle" ELSE "ensuring")
    /\ UNCHANGED <<rowVars, requestVars, queue, reindexVars, storeVars, faultVars>>

(* The next document is parsed and embedded; after the last the job returns. *)
NextDocument ==
    /\ pc[Reindexer] = "next"
    /\ Goto(Reindexer, IF todo = {} THEN "idle" ELSE "ensuring")
    /\ UNCHANGED <<rowVars, requestVars, queue, reindexVars, storeVars, faultVars>>

(* A QdrantError ends the reindex where it is. *)
FailReindex == Goto(Reindexer, "idle") /\ UNCHANGED status

-----------------------------------------------------------------------------
(* VectorStore, as ingest_document and reindex_project call it. *)

Writers == Docs \cup {Reindexer}

Fail(w) == \/ w \in Docs /\ Raise(w)
           \/ w = Reindexer /\ FailReindex

(* Mutant of CheckCollection: the answer is taken the wrong way round. *)
CheckCollection_Inverted(w) ==
    /\ pc[w] \in {"ensuring", "remaking"}
    /\ Goto(w, CASE pc[w] = "ensuring" -> IF exists THEN "creating" ELSE "upserting"
                 [] pc[w] = "remaking" -> IF exists THEN "recreating" ELSE "next")
    /\ UNCHANGED <<rowVars, requestVars, queue, reindexVars, storeVars, faultVars>>

(* ensure_collection: collection_exists.  "remaking" is reindex_project's   *)
(* own call, "ensuring" the one in upsert.                                  *)
CheckCollection(w) ==
    /\ pc[w] \in {"ensuring", "remaking"}
    /\ Goto(w, CASE pc[w] = "ensuring" -> IF exists THEN "upserting" ELSE "creating"
                 [] pc[w] = "remaking" -> IF exists THEN "next" ELSE "recreating")
    /\ UNCHANGED <<rowVars, requestVars, queue, reindexVars, storeVars, faultVars>>

(* ensure_collection: create_collection, which fails on one that exists. *)
CreateCollection(w) ==
    /\ pc[w] \in {"creating", "recreating"}
    /\ \/ /\ ~ exists
          /\ exists' = TRUE
          /\ Goto(w, IF pc[w] = "creating" THEN "upserting" ELSE "next")
          /\ UNCHANGED status
       \/ /\ exists
          /\ Fail(w)
          /\ UNCHANGED exists
    /\ UNCHANGED <<project, summary, requestVars, queue, reindexVars, points, faultVars>>

(* upsert: all points of one document, into a collection that must exist. *)
UpsertDocument(d) ==
    /\ pc[d] = "upserting"
    /\ \/ /\ exists
          /\ points' = points \cup {d}
          /\ Goto(d, "indexed")
          /\ UNCHANGED status
       \/ /\ ~ exists
          /\ Raise(d)
          /\ UNCHANGED points
    /\ UNCHANGED <<project, summary, requestVars, queue, reindexVars, exists, faultVars>>

(* Mutant of UpsertNext: the loop returns after its first document. *)
UpsertNext_ReturnsEarly ==
    /\ pc[Reindexer] = "upserting"
    /\ \/ /\ exists
          /\ \E d \in todo : points' = points \cup {d}
          /\ todo' = {}
          /\ Goto(Reindexer, "next")
       \/ /\ ~ exists
          /\ FailReindex
          /\ UNCHANGED <<points, todo>>
    /\ UNCHANGED <<rowVars, requestVars, queue, documents, reindexes, exists, faultVars>>

UpsertNext ==
    /\ pc[Reindexer] = "upserting"
    /\ \/ /\ exists
          /\ \E d \in todo : points' = points \cup {d} /\ todo' = todo \ {d}
          /\ Goto(Reindexer, "next")
       \/ /\ ~ exists
          /\ FailReindex
          /\ UNCHANGED <<points, todo>>
    /\ UNCHANGED <<rowVars, requestVars, queue, documents, reindexes, exists, faultVars>>

(* delete_collection: collection_exists ... *)
CheckDrop(a) ==
    /\ pc[a] = "dropping"
    /\ Goto(a, CASE exists -> "deleting"
                 [] ~ exists /\ a = Reindexer -> "remaking"
                 [] OTHER -> "idle")
    /\ UNCHANGED <<rowVars, requestVars, queue, reindexVars, storeVars, faultVars>>

(* ... and delete_collection, which is content with a missing one. *)
DropCollection(a) ==
    /\ pc[a] = "deleting"
    /\ exists' = FALSE
    /\ points' = {}
    /\ Goto(a, IF a = Reindexer THEN "remaking" ELSE "idle")
    /\ UNCHANGED <<rowVars, requestVars, queue, reindexVars, faultVars>>

-----------------------------------------------------------------------------
(* Mutant of DeleteProject: the collection goes before the rows do. *)
DeleteProject_CollectionFirst ==
    /\ MayDelete
    /\ project
    /\ pc[Deleter] = "idle"
    /\ Goto(Deleter, "dropping")
    /\ UNCHANGED <<rowVars, requestVars, queue, reindexVars, storeVars, faultVars>>

(* The row of the project is deleted, and with it, ON DELETE CASCADE, those *)
(* of its documents, jobs and summaries.  The collection comes after.       *)
DeleteProject ==
    /\ MayDelete
    /\ project
    /\ project' = FALSE
    /\ status' = [d \in Docs |-> "absent"]
    /\ summary' = [d \in Docs |-> "none"]
    /\ Goto(Deleter, "dropping")
    /\ UNCHANGED <<requestVars, queue, reindexVars, storeVars, faultVars>>

-----------------------------------------------------------------------------
(* What may go wrong. *)

Fault(kind) ==
    /\ kind \in FaultKinds
    /\ faults < MaxFaults
    /\ faults' = faults + 1
    /\ crashed' = (crashed \/ kind = "crash")

Busy(a) == pc[a] # "idle"

(* The API process dies, or Redis refuses, between commit and enqueue. *)
LoseRequest(d) ==
    /\ Fault("lost")
    /\ upload[d] = "stored"
    /\ upload' = [upload EXCEPT ![d] = "answered"]
    /\ UNCHANGED <<rowVars, stale, queue, pc, sweep, reindexVars, storeVars, cutOff, retries>>

LoseSweep ==
    /\ Fault("lost")
    /\ sweep # {}
    /\ sweep' = {}
    /\ UNCHANGED <<rowVars, upload, stale, queue, pc, reindexVars, storeVars, cutOff, retries>>

(* Parsing, embedding, Qdrant or Redis raises. *)
IngestError(d) ==
    /\ Fault("error")
    /\ pc[d] \in Working
    /\ Raise(d)
    /\ UNCHANGED <<project, summary, requestVars, queue, reindexVars, storeVars, cutOff, retries>>

(* The commit in hand takes effect, and its answer is lost. *)
CommitUnanswered(d) ==
    /\ status[d] # "absent"
    /\ \/ /\ pc[d] = "taken"
          /\ status' = [status EXCEPT ![d] = "running"]
          /\ UNCHANGED summary
       \/ /\ pc[d] = "indexed"
          /\ \E new \in {"llm", "fallback"} :
                summary' = [summary EXCEPT ![d] = WriteSummary(@, new)]
          /\ UNCHANGED status
       \/ /\ pc[d] = "summarized"
          /\ status' = [status EXCEPT ![d] = "complete"]
          /\ UNCHANGED summary

(* Postgres fails a statement or refuses its data, in the job or in the     *)
(* handler of another exception.  The handler goes on with the session of   *)
(* the failed transaction, so its own SELECT raises: nobody marks the job.  *)
DatabaseError(d) ==
    /\ Fault("database")
    /\ pc[d] \in {"taken"} \cup Working
    /\ CommitUnanswered(d) \/ UNCHANGED <<status, summary>>
    /\ Goto(d, "returned")
    /\ cutOff' = cutOff \cup {d}
    /\ UNCHANGED <<project, requestVars, queue, reindexVars, storeVars, retries>>

(* The job timeout cancels the task: CancelledError is no Exception, so     *)
(* nobody marks the job, and arq counts it as failed.                       *)
IngestTimeout(d) ==
    /\ Fault("timeout")
    /\ Busy(d)
    /\ queue' = Finish(queue, d)
    /\ retries' = ResetTries(retries, d)
    /\ cutOff' = IF pc[d] = "returned" THEN cutOff ELSE cutOff \cup {d}
    /\ Goto(d, "idle")
    /\ UNCHANGED <<rowVars, requestVars, reindexVars, storeVars>>

(* The worker dies or is shut down: the job is queued again. *)
IngestCrash(d) ==
    /\ Fault("crash")
    /\ Busy(d)
    /\ queue' = Interrupt(queue, d)
    /\ retries' = CountTry(retries, d)
    /\ Goto(d, "idle")
    /\ UNCHANGED <<rowVars, requestVars, reindexVars, storeVars, cutOff>>

(* An exception or the timeout ends the reindex.  A crash starts it again,  *)
(* or ends it if that was the last of its tries, which are not counted here.*)
ReindexFault ==
    /\ Busy(Reindexer)
    /\ \/ /\ \E kind \in {"error", "database", "timeout", "crash"} : Fault(kind)
          /\ Goto(Reindexer, "idle")
       \/ /\ Fault("crash")
          /\ Goto(Reindexer, "taken")
    /\ UNCHANGED <<rowVars, requestVars, queue, reindexVars, storeVars, cutOff, retries>>

(* Qdrant refuses the deletion, which is logged, or the API process dies. *)
DeleteFault ==
    /\ Fault("error")
    /\ Busy(Deleter)
    /\ Goto(Deleter, "idle")
    /\ UNCHANGED <<rowVars, requestVars, queue, reindexVars, storeVars, cutOff, retries>>

-----------------------------------------------------------------------------
IngestStep(d) ==
    \/ MarkRunning(d) \/ LoadDocument(d) \/ CheckCollection(d)
    \/ CreateCollection(d) \/ UpsertDocument(d) \/ CommitSummary(d)
    \/ MarkComplete(d) \/ ReturnIngest(d)

ReindexStep ==
    \/ ListDocuments \/ NextDocument \/ CheckDrop(Reindexer) \/ DropCollection(Reindexer)
    \/ CheckCollection(Reindexer) \/ CreateCollection(Reindexer) \/ UpsertNext

DeleteStep == CheckDrop(Deleter) \/ DropCollection(Deleter)

Faulty ==
    \/ \E d \in Docs :
          \/ LoseRequest(d) \/ IngestError(d) \/ DatabaseError(d)
          \/ IngestTimeout(d) \/ IngestCrash(d)
    \/ LoseSweep \/ ReindexFault \/ DeleteFault

Next ==
    \/ \E d \in Docs :
          \/ StoreDocument(d) \/ EnqueueIngest(d) \/ GrowStale(d)
          \/ SweepOne(d) \/ TakeIngest(d) \/ IngestStep(d) \/ ForgetResult(d)
    \/ SelectStale
    \/ RequestReindex \/ ReindexStep
    \/ DeleteProject \/ DeleteStep
    \/ Faulty

Spec == Init /\ [][Next]_vars

(* Time passes, the cron fires every five minutes, workers take what is     *)
(* queued and go on with it.  Redis forgets a result after an hour, however *)
(* many sweeps come and go meanwhile: strong fairness, because a sweep      *)
(* under way disables ForgetResult here.  An upload that has stored its     *)
(* rows enqueues its job, unless it is lost first.  Nobody has to upload,   *)
(* reindex or delete.                                                       *)
Fairness ==
    /\ WF_vars(SelectStale)
    /\ \A d \in Docs :
          /\ WF_vars(EnqueueIngest(d))
          /\ WF_vars(GrowStale(d))
          /\ WF_vars(SweepOne(d))
          /\ WF_vars(TakeIngest(d))
          /\ WF_vars(IngestStep(d))
          /\ SF_vars(ForgetResult(d))

FairSpec == Spec /\ Fairness

-----------------------------------------------------------------------------
(* Properties. *)

IngestLabels == {"idle", "taken", "running", "ensuring", "creating", "upserting",
                 "indexed", "summarized", "returned"}
ReindexLabels == {"idle", "taken", "dropping", "deleting", "remaking", "recreating",
                  "next", "ensuring", "creating", "upserting"}

Labels == IngestLabels \cup ReindexLabels

(* The types, and the foreign keys: no row without its project.             *)
TypeOK ==
    /\ project \in BOOLEAN
    /\ upload \in [Docs -> {"none", "stored", "answered"}]
    /\ status \in [Docs -> {"absent", "pending", "running", "complete", "failed"}]
    /\ summary \in [Docs -> {"none", "llm", "fallback"}]
    /\ stale \in SUBSET Docs
    /\ queue \in [Docs -> JobStatus]
    /\ pc \in [Actors -> Labels]
    /\ sweep \in SUBSET Docs
    /\ documents \in SUBSET Docs
    /\ todo \in SUBSET documents
    /\ exists \in BOOLEAN
    /\ points \in SUBSET Docs
    /\ (~ exists => points = {})
    /\ (~ project => \A d \in Docs : status[d] = "absent" /\ summary[d] = "none")
    /\ reindexes \in 0..MaxReindexes
    /\ faults \in 0..MaxFaults
    /\ crashed \in BOOLEAN
    /\ cutOff \in SUBSET Docs
    /\ retries \in [Docs -> Nat]

(* A job that says COMPLETE has its summary in the event log and, until     *)
(* somebody reindexes, its points in the collection, whatever crashed, timed *)
(* out, was retried, swept or deleted in between.                           *)
CompleteIsRetrievable ==
    \A d \in Docs : status[d] = "complete" =>
        /\ summary[d] # "none"
        /\ reindexes = 0 => d \in points

(* A COMPLETE document that retrieval cannot find is accounted for by a     *)
(* reindex, and by nothing else: the reindex has dropped the collection and *)
(* has not come to the document, being under way or having failed half way, *)
(* or the document was uploaded after the reindex had made its list.        *)
ReindexAccountsForLoss ==
    \A d \in Docs : project /\ status[d] = "complete" /\ d \notin points =>
        reindexes > 0 /\ (d \in todo \/ d \notin documents)

(* A RUNNING job that is in nobody's hands, where the sweep, which looks at *)
(* PENDING jobs only, never finds it, was cut off: its last run ended by    *)
(* the job timeout, an error of the database or the last of its tries.      *)
(* After any other exception its row says FAILED, and after any other crash *)
(* arq has it queued.                                                       *)
RunningIsInHand ==
    \A d \in Docs : status[d] = "running" =>
        queue[d] \in {"queued", "running"} \/ d \in cutOff

(* The event log is immutable: no retry replaces a summary that is there.   *)
SummaryIsImmutable ==
    [][\A d \in Docs : summary[d] # "none" /\ project'
          => summary'[d] = summary[d]]_vars

(* Unless a worker crashes, a job that was settled is not run again, though *)
(* the upload and the sweep both enqueue it and results are forgotten.      *)
SettledOnce ==
    [][\A d \in Docs : status[d] \in {"complete", "failed"} /\ ~ crashed
          => status'[d] \in {status[d], "absent"}]_vars

(* "re-indexes every document in the project": a reindex that gets to its   *)
(* end leaves every document it listed in the collection, with ingests      *)
(* creating and filling the collection at the same time.                    *)
ReindexRestores ==
    [][NextDocument /\ pc'[Reindexer] = "idle" /\ project
          => documents \subseteq points]_vars

(* Ensuring the collection is not idempotent (OnlyFaultsFail), but without  *)
(* a fault or a reindex that costs a job only its race with another one,    *)
(* which has the collection and goes on: one upload at a time never fails.  *)
FailuresAreCollisions ==
    \A d \in Docs : status[d] = "failed" /\ faults = 0 /\ reindexes = 0 =>
        \E e \in Docs \ {d} : e \in points \/ pc[e] = "upserting"

(* "stale pending jobs can be recovered": no job stays PENDING, whichever   *)
(* request or sweep is lost and whichever task fails.                       *)
PendingIsRecovered ==
    \A d \in Docs : (status[d] = "pending") ~> (status[d] # "pending")

(* Every job whose project stays comes to an end its row tells, so that a   *)
(* client that polls GET /jobs/{id} stops, unless it is cut off (see        *)
(* RunningIsInHand, JobsComplete) while it is RUNNING: one that is cut off  *)
(* before that is swept up and run again.                                   *)
JobsSettle ==
    \A d \in Docs : (status[d] # "absent") ~>
        \/ status[d] \in {"absent", "complete", "failed"}
        \/ status[d] = "running" /\ d \in cutOff

(* "ingestion jobs always complete even when the LLM is unavailable": the   *)
(* timeout of a job whose LLM hangs is no exception to that.                *)
JobsComplete ==
    \A d \in Docs : (status[d] # "absent") ~> (status[d] \in {"absent", "complete", "failed"})

(* Ensuring a collection is idempotent: without any fault of a service no   *)
(* ingest fails.                                                            *)
OnlyFaultsFail == \A d \in Docs : status[d] = "failed" => faults > 0

-----------------------------------------------------------------------------
(* Inductive invariants for the proofs (IngestPipelineProofs.tla).          *)

(* The reindexer works only after a request, the deleter only after the     *)
(* rows are gone: nobody else ever drops the collection.                    *)
DropsAreDue ==
    /\ pc[Reindexer] # "idle" => reindexes > 0
    /\ pc[Deleter] # "idle" => ~ project

(* How far an ingest has come shows in the tables and the collection.       *)
ProgressIsVisible ==
    \A d \in Docs : project =>
        /\ pc[d] = "summarized" => summary[d] # "none"
        /\ pc[d] \in {"indexed", "summarized"} /\ reindexes = 0 => d \in points

(* Why COMPLETE means retrievable. *)
CompleteInv == TypeOK /\ DropsAreDue /\ ProgressIsVisible /\ CompleteIsRetrievable

(* The documents before the one the reindex has come to are indexed again.  *)
ReindexInv ==
    /\ pc[Reindexer] \in {"dropping", "deleting", "remaking", "recreating"} => todo = documents
    /\ project /\ pc[Reindexer] \in {"next", "ensuring", "creating", "upserting"}
          => documents \ todo \subseteq points

(* arq knows of a job what its worker does, and no job has a row before its *)
(* upload.                                                                  *)
WorkerIsKnown ==
    \A d \in Docs :
        /\ pc[d] # "idle" <=> queue[d] = "running"
        /\ upload[d] = "none" => status[d] = "absent"

(* Nobody is about to run or to enqueue a settled job: while arq has        *)
(* forgotten it, no request and no sweep has it in hand.                    *)
SettledInv ==
    ~ crashed =>
        \A d \in Docs : status[d] \in {"complete", "failed"} =>
            /\ pc[d] \in {"idle", "returned"}
            /\ queue[d] # "queued"
            /\ queue[d] = "absent" => upload[d] = "answered" /\ d \notin sweep

(* What is not left to do of a reindex's list is in the collection, after   *)
(* the reindex has ended too.                                               *)
LossInv == project => documents \ todo \subseteq points

(* A worker is at a job only while its row says so ...                      *)
WorkIsRunning ==
    \A d \in Docs :
        /\ pc[d] \in IngestLabels
        /\ pc[d] \in Working /\ project => status[d] = "running"
        /\ pc[d] = "returned" => status[d] # "running" \/ d \in cutOff

(* ... and unless a worker has died, a job that was started is not about to *)
(* be taken, queued or enqueued again.                                      *)
StartedOnce ==
    ~ crashed =>
        \A d \in Docs : status[d] \in {"running", "complete", "failed"} =>
            /\ pc[d] # "taken"
            /\ queue[d] # "queued"
            /\ queue[d] = "absent" => upload[d] = "answered" /\ d \notin sweep

(* Why rows move as JobLifecycle says. *)
LifecycleInv == WorkIsRunning /\ StartedOnce /\ RunningIsInHand

(* Why it takes two ingests for one to fail without a fault: whoever is     *)
(* about to create the collection has not filled it before, and if it is    *)
(* there, somebody else has or is about to.                                 *)
CollisionInv ==
    /\ faults = 0 => ~ crashed
    /\ faults = 0 /\ reindexes = 0 /\ project =>
          /\ exists => \E e \in Docs : e \in points \/ pc[e] = "upserting"
          /\ \A d \in Docs :
                /\ pc[d] = "upserting" => exists
                /\ status[d] \in {"absent", "pending"} => d \notin points
                /\ pc[d] \in {"running", "ensuring", "creating"} => d \notin points
    /\ FailuresAreCollisions

-----------------------------------------------------------------------------
Lifecycle == INSTANCE JobLifecycle WITH removed <- ~ project

(* Uploads, sweeps, workers and their faults together move the rows as one  *)
(* job table and one event log should be moved.                             *)
ImplementsLifecycle == Lifecycle!Spec
=============================================================================
