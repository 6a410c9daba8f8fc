------------------------ MODULE IngestPipelineProofs ------------------------
(* Theorems about IngestPipeline, for all values of its constants. *)
EXTENDS IngestPipeline, TLAPS

(* What arq knows of a job stays one of the four. *)
LEMMA QueueType ==
  ASSUME queue \in [Docs -> JobStatus], NEW d \in Docs
  PROVE  /\ Enqueue(queue, d) \in [Docs -> JobStatus]
         /\ Take(queue, d) \in [Docs -> JobStatus]
         /\ Finish(queue, d) \in [Docs -> JobStatus]
         /\ Interrupt(queue, d) \in [Docs -> JobStatus]
         /\ Forget(queue, d) \in [Docs -> JobStatus]
BY DEF JobStatus, Enqueue, Take, Finish, Interrupt, Forget

(* Tries are counted in natural numbers. *)
LEMMA RetriesType ==
  ASSUME retries \in [Docs -> Nat], NEW d \in Docs
  PROVE  ResetTries(retries, d) \in [Docs -> Nat] /\ CountTry(retries, d) \in [Docs -> Nat]
BY DEF ResetTries, CountTry

(* Docs, the reindexer and the deleter are different tasks. *)
LEMMA TasksDiffer ==
  ASSUME PipelineAssumption
  PROVE  /\ Reindexer \in Actors /\ Deleter \in Actors /\ Docs \subseteq Actors
         /\ Reindexer \notin Docs /\ Deleter \notin Docs /\ Reindexer # Deleter
BY DEF PipelineAssumption, Actors

(* A failed database: the commit in hand may count, and nothing else does.  *)
LEMMA DatabaseRows ==
  ASSUME PipelineAssumption, TypeOK, NEW d \in Docs, DatabaseError(d)
  PROVE  /\ pc[d] \in {"taken"} \cup Working /\ pc' = [pc EXCEPT ![d] = "returned"]
         /\ status' \in [Docs -> {"absent", "pending", "running", "complete", "failed"}]
         /\ summary' \in [Docs -> {"none", "llm", "fallback"}]
         /\ \A e \in Docs \ {d} : status'[e] = status[e] /\ summary'[e] = summary[e]
         /\ \/ status'[d] = status[d] /\ summary'[d] = summary[d]
            \/ /\ status[d] # "absent" /\ pc[d] = "taken"
               /\ status' = [status EXCEPT ![d] = "running"] /\ UNCHANGED summary
            \/ /\ status[d] # "absent" /\ pc[d] = "indexed"
               /\ UNCHANGED status /\ summary'[d] # "none"
               /\ summary[d] = "none" \/ UNCHANGED summary
               /\ \E new \in {"llm", "fallback"} :
                     summary[d] = "none" => summary' = [summary EXCEPT ![d] = new]
            \/ /\ status[d] # "absent" /\ pc[d] = "summarized"
               /\ status' = [status EXCEPT ![d] = "complete"] /\ UNCHANGED summary
<1>t. /\ status \in [Docs -> {"absent", "pending", "running", "complete", "failed"}]
      /\ summary \in [Docs -> {"none", "llm", "fallback"}]
  BY DEF TypeOK
<1>1. pc[d] \in {"taken"} \cup Working /\ pc' = [pc EXCEPT ![d] = "returned"]
  BY DEF DatabaseError, Goto
<1>2. CASE UNCHANGED <<status, summary>>
  BY <1>t, <1>1, <1>2
<1>3. CASE CommitUnanswered(d)
  <2>1. CASE pc[d] = "taken"
    BY <1>t, <1>1, <1>3, <2>1 DEF CommitUnanswered
  <2>2. CASE pc[d] = "summarized"
    BY <1>t, <1>1, <1>3, <2>2 DEF CommitUnanswered
  <2>3. CASE pc[d] = "indexed"
    <3>1. PICK new \in {"llm", "fallback"} :
             summary' = [summary EXCEPT ![d] = WriteSummary(@, new)]
      BY <1>3, <2>3 DEF CommitUnanswered
    <3>2. status[d] # "absent" /\ UNCHANGED status
      BY <1>3, <2>3 DEF CommitUnanswered
    <3>3. CASE summary[d] = "none"
      <4>1. summary' = [summary EXCEPT ![d] = new]
        BY <3>1, <3>3 DEF WriteSummary
      <4>2. QED
        BY <1>t, <1>1, <2>3, <3>2, <3>3, <4>1
    <3>4. CASE summary[d] # "none"
      <4>1. summary' = summary
        BY <1>t, <3>1, <3>4 DEF WriteSummary
      <4>2. QED
        BY <1>t, <1>1, <2>3, <3>2, <3>4, <4>1
    <3>5. QED
      BY <3>3, <3>4
  <2>4. QED
    BY <1>3, <2>1, <2>2, <2>3 DEF CommitUnanswered
<1>4. QED
  BY <1>2, <1>3 DEF DatabaseError

-----------------------------------------------------------------------------
(* Type correctness. *)

LEMMA InitType == PipelineAssumption /\ Init => TypeOK
<1> SUFFICES ASSUME PipelineAssumption, Init PROVE TypeOK
  OBVIOUS
<1>1. reindexes \in 0..MaxReindexes /\ faults \in 0..MaxFaults
  BY DEF PipelineAssumption, Init
<1>2. pc \in [Actors -> Labels] /\ queue \in [Docs -> JobStatus]
  BY DEF Init, Labels, IngestLabels, JobStatus
<1>3. QED
  BY <1>1, <1>2 DEF Init, TypeOK

LEMMA StepType ==
  ASSUME PipelineAssumption, TypeOK, [Next]_vars
  PROVE  TypeOK'
<1> DEFINE Statuses == {"absent", "pending", "running", "complete", "failed"}
<1>t. /\ MaxFaults \in Nat /\ MaxReindexes \in Nat
      /\ pc \in [Actors -> Labels]
      /\ queue \in [Docs -> JobStatus]
      /\ status \in [Docs -> Statuses]
      /\ Reindexer \in Actors /\ Deleter \in Actors /\ Docs \subseteq Actors
      /\ retries \in [Docs -> Nat] /\ crashed \in BOOLEAN
  BY TasksDiffer DEF TypeOK, PipelineAssumption
<1>f. ASSUME NEW kind, Fault(kind) PROVE faults' \in 0..MaxFaults /\ crashed' \in BOOLEAN
  BY <1>f, <1>t DEF Fault, TypeOK
<1>g. ASSUME NEW a \in Actors, NEW label \in Labels, Goto(a, label)
      PROVE  pc' \in [Actors -> Labels]
  BY <1>g, <1>t DEF Goto
<1>r. ASSUME NEW d \in Docs, Raise(d)
      PROVE  /\ status' \in [Docs -> Statuses]
             /\ pc' \in [Actors -> Labels]
             /\ \A e \in Docs : status[e] = "absent" => status'[e] = "absent"
  BY <1>r, <1>t DEF Raise, Goto, Labels, IngestLabels
<1>l. /\ {"idle", "taken", "running", "ensuring", "creating", "upserting", "indexed", "summarized",
          "returned", "dropping", "deleting", "remaking", "recreating", "next"} \subseteq Labels
  BY DEF Labels, IngestLabels, ReindexLabels
<1>1. ASSUME NEW d \in Docs, StoreDocument(d) PROVE TypeOK'
  BY <1>1, <1>t
     DEF StoreDocument, reindexVars, storeVars, faultVars, TypeOK
<1>2. ASSUME NEW d \in Docs, EnqueueIngest(d) PROVE TypeOK'
  BY <1>2, <1>t, QueueType
     DEF EnqueueIngest, rowVars, reindexVars, storeVars, faultVars, TypeOK
<1>3. ASSUME NEW d \in Docs, GrowStale(d) PROVE TypeOK'
  BY <1>3, <1>t
     DEF GrowStale, rowVars, reindexVars, storeVars, faultVars, TypeOK
<1>4. ASSUME NEW d \in Docs, SweepOne(d) PROVE TypeOK'
  BY <1>4, <1>t, QueueType
     DEF SweepOne, rowVars, reindexVars, storeVars, faultVars, TypeOK
<1>5. ASSUME NEW d \in Docs, TakeIngest(d) PROVE TypeOK'
  <2>1. queue' \in [Docs -> JobStatus] /\ retries' \in [Docs -> Nat] /\ cutOff' \in SUBSET Docs
    BY <1>5, <1>t, QueueType, RetriesType DEF TakeIngest, TypeOK
  <2>2. pc' \in [Actors -> Labels]
    BY <1>5, <1>t, <1>g, <1>l DEF TakeIngest
  <2>3. QED
    BY <1>5, <2>1, <2>2
     DEF TakeIngest, rowVars, requestVars, reindexVars, storeVars, faultVars, TypeOK
<1>6. ASSUME NEW d \in Docs, MarkRunning(d) PROVE TypeOK'
  BY <1>6, <1>t, <1>g, <1>l, <1>r
     DEF MarkRunning, requestVars, reindexVars, storeVars, faultVars, TypeOK
<1>7. ASSUME NEW d \in Docs, LoadDocument(d) PROVE TypeOK'
  BY <1>7, <1>t, <1>g, <1>l, <1>r
     DEF LoadDocument, requestVars, reindexVars, storeVars, faultVars, TypeOK
<1>8. ASSUME NEW w \in Writers, CheckCollection(w) PROVE TypeOK'
  BY <1>8, <1>t, <1>g, <1>l
     DEF CheckCollection, Writers, rowVars, requestVars, reindexVars, storeVars, faultVars, TypeOK
<1>9. ASSUME NEW w \in Writers, CreateCollection(w) PROVE TypeOK'
  <2>1. CASE ~ exists
    <3>1. exists' = TRUE /\ status' = status
      BY <1>9, <2>1 DEF CreateCollection
    <3>2. pc' \in [Actors -> Labels]
      BY <1>9, <1>t, <1>g, <1>l, <2>1 DEF CreateCollection, Writers
    <3>3. QED
      BY <1>9, <3>1, <3>2
         DEF CreateCollection, requestVars, reindexVars, faultVars, TypeOK
  <2>2. CASE exists
    <3>1. Fail(w) /\ UNCHANGED <<exists, points>>
      BY <1>9, <2>2 DEF CreateCollection
    <3>2. /\ status' \in [Docs -> Statuses] /\ pc' \in [Actors -> Labels]
          /\ \A e \in Docs : status[e] = "absent" => status'[e] = "absent"
      BY <1>t, <1>g, <1>l, <1>r, <3>1 DEF Fail, FailReindex
    <3>3. QED
      BY <1>9, <3>1, <3>2
         DEF CreateCollection, requestVars, reindexVars, faultVars, TypeOK
  <2>3. QED
    BY <1>9, <2>1, <2>2 DEF CreateCollection
<1>10. ASSUME NEW d \in Docs, UpsertDocument(d) PROVE TypeOK'
  BY <1>10, <1>t, <1>g, <1>l, <1>r
     DEF UpsertDocument, requestVars, reindexVars, faultVars, TypeOK
<1>11. ASSUME NEW d \in Docs, CommitSummary(d) PROVE TypeOK'
  BY <1>11, <1>t, <1>g, <1>l, <1>r
     DEF CommitSummary, WriteSummary, requestVars, reindexVars, storeVars, faultVars, TypeOK
<1>12. ASSUME NEW d \in Docs, MarkComplete(d) PROVE TypeOK'
  BY <1>12, <1>t, <1>g, <1>l
     DEF MarkComplete, requestVars, reindexVars, storeVars, faultVars, TypeOK
<1>13. ASSUME NEW d \in Docs, ReturnIngest(d) PROVE TypeOK'
  BY <1>13, <1>t, <1>g, <1>l, QueueType, RetriesType
     DEF ReturnIngest, rowVars, requestVars, reindexVars, storeVars, faultVars, TypeOK
<1>14. ASSUME NEW d \in Docs, ForgetResult(d) PROVE TypeOK'
  BY <1>14, <1>t, QueueType
     DEF ForgetResult, rowVars, requestVars, reindexVars, storeVars, faultVars, TypeOK
<1>15. ASSUME SelectStale PROVE TypeOK'
  BY <1>15, <1>t
     DEF SelectStale, Sweepable, rowVars, reindexVars, storeVars, faultVars, TypeOK
<1>16. ASSUME RequestReindex PROVE TypeOK'
  BY <1>16, <1>t, <1>g, <1>l
     DEF RequestReindex, rowVars, requestVars, storeVars, faultVars, TypeOK
<1>17. ASSUME ListDocuments PROVE TypeOK'
  BY <1>17, <1>t, <1>g, <1>l
     DEF ListDocuments, rowVars, requestVars, storeVars, faultVars, TypeOK
<1>18. ASSUME NextDocument PROVE TypeOK'
  BY <1>18, <1>t, <1>g, <1>l
     DEF NextDocument, rowVars, requestVars, reindexVars, storeVars, faultVars, TypeOK
<1>19. ASSUME NEW a \in {Reindexer, Deleter}, CheckDrop(a) PROVE TypeOK'
  BY <1>19, <1>t, <1>g, <1>l
     DEF CheckDrop, rowVars, requestVars, reindexVars, storeVars, faultVars, TypeOK
<1>20. ASSUME NEW a \in {Reindexer, Deleter}, DropCollection(a) PROVE TypeOK'
  <2>1. pc' \in [Actors -> Labels]
    <3>1. CASE a = Reindexer
      BY <1>20, <1>t, <1>g, <1>l, <3>1 DEF DropCollection
    <3>2. CASE a = Deleter
      BY <1>20, <1>t, <1>g, <1>l, <3>2 DEF DropCollection
    <3>3. QED
      BY <3>1, <3>2
  <2>2. exists' = FALSE /\ points' = {}
    BY <1>20 DEF DropCollection
  <2>3. QED
    BY <1>20, <2>1, <2>2
       DEF DropCollection, rowVars, requestVars, reindexVars, faultVars, TypeOK
<1>21. ASSUME UpsertNext PROVE TypeOK'
  <2>1. pc' \in [Actors -> Labels]
    BY <1>21, <1>t, <1>g, <1>l DEF UpsertNext, FailReindex
  <2>2. points' \in SUBSET Docs /\ todo' \in SUBSET documents
        /\ (~ exists => points' = points)
    BY <1>21, <1>t DEF UpsertNext, TypeOK
  <2>3. UNCHANGED <<project, upload, status, summary, stale, queue, sweep, documents,
                    exists, reindexes, faults, crashed, cutOff, retries>>
    BY <1>21 DEF UpsertNext, rowVars, requestVars, faultVars
  <2>4. QED
    BY <2>1, <2>2, <2>3 DEF TypeOK
<1>22. ASSUME DeleteProject PROVE TypeOK'
  BY <1>22, <1>t, <1>g, <1>l
     DEF DeleteProject, requestVars, reindexVars, storeVars, faultVars, TypeOK
<1>23. ASSUME NEW d \in Docs, LoseRequest(d) PROVE TypeOK'
  BY <1>23, <1>t, <1>f
     DEF LoseRequest, rowVars, reindexVars, storeVars, TypeOK
<1>24. ASSUME NEW d \in Docs, IngestError(d) PROVE TypeOK'
  BY <1>24, <1>t, <1>r, <1>f
     DEF IngestError, requestVars, reindexVars, storeVars, TypeOK
<1>25. ASSUME NEW d \in Docs, IngestTimeout(d) PROVE TypeOK'
  BY <1>25, <1>t, <1>g, <1>l, <1>f, QueueType, RetriesType
     DEF IngestTimeout, rowVars, requestVars, reindexVars, storeVars, TypeOK
<1>26. ASSUME NEW d \in Docs, IngestCrash(d) PROVE TypeOK'
  BY <1>26, <1>t, <1>g, <1>l, <1>f, QueueType, RetriesType
     DEF IngestCrash, rowVars, requestVars, reindexVars, storeVars, TypeOK
<1>27. ASSUME LoseSweep PROVE TypeOK'
  BY <1>27, <1>t, <1>f
     DEF LoseSweep, rowVars, reindexVars, storeVars, TypeOK
<1>28. ASSUME ReindexFault PROVE TypeOK'
  BY <1>28, <1>t, <1>g, <1>l, <1>f
     DEF ReindexFault, rowVars, requestVars, reindexVars, storeVars, TypeOK
<1>33. ASSUME NEW d \in Docs, DatabaseError(d) PROVE TypeOK'
  BY <1>33, <1>t, <1>g, <1>l, <1>f, DatabaseRows
     DEF DatabaseError, requestVars, reindexVars, storeVars, TypeOK
<1>29. ASSUME DeleteFault PROVE TypeOK'
  BY <1>29, <1>t, <1>g, <1>l, <1>f
     DEF DeleteFault, rowVars, requestVars, reindexVars, storeVars, TypeOK
<1>30. CASE UNCHANGED vars
  BY <1>30 DEF vars, TypeOK
<1>31. QED
  BY <1>1, <1>2, <1>3, <1>4, <1>5, <1>6, <1>7, <1>8, <1>9, <1>10, <1>11, <1>12, <1>13, <1>14, <1>15, <1>16, <1>17, <1>18, <1>19, <1>20, <1>21, <1>22, <1>23, <1>24, <1>25, <1>26, <1>27, <1>28, <1>29, <1>33, <1>30,
     TasksDiffer DEF Next, IngestStep, ReindexStep, DeleteStep, Faulty, Writers

THEOREM TypeCorrect == ASSUME PipelineAssumption PROVE Spec => []TypeOK
<1>1. Init => TypeOK
  BY InitType
<1>2. TypeOK /\ [Next]_vars => TypeOK'
  BY StepType
<1>3. QED
  BY <1>1, <1>2, PTL DEF Spec

-----------------------------------------------------------------------------
(* COMPLETE means retrievable. *)

LEMMA InitComplete == PipelineAssumption /\ Init => CompleteInv
<1> SUFFICES ASSUME PipelineAssumption, Init PROVE CompleteInv
  OBVIOUS
<1>1. TypeOK
  BY InitType
<1>2. QED
  BY <1>1, TasksDiffer DEF Init, CompleteInv, DropsAreDue, ProgressIsVisible, CompleteIsRetrievable

(* A step that settles or advances no ingest and takes nothing away. *)
LEMMA CompleteElsewhere ==
  ASSUME CompleteInv, TypeOK', DropsAreDue', UNCHANGED summary,
         project' => project,
         reindexes' >= reindexes,
         project /\ reindexes' = 0 => points \subseteq points',
         \A d \in Docs :
            /\ status'[d] = "complete" => status[d] = "complete"
            /\ pc'[d] \in {"indexed", "summarized"} => pc'[d] = pc[d]
  PROVE  CompleteInv'
<1>1. reindexes \in Nat /\ reindexes' \in Nat
  BY DEF CompleteInv, TypeOK
<1>2. reindexes' = 0 => reindexes = 0
  BY <1>1
<1>3. \A d \in Docs : status[d] = "complete" => project
  BY DEF CompleteInv, TypeOK
<1>4. ProgressIsVisible'
  <2> SUFFICES ASSUME NEW d \in Docs, project'
               PROVE  /\ pc'[d] = "summarized" => summary'[d] # "none"
                      /\ pc'[d] \in {"indexed", "summarized"} /\ reindexes' = 0 => d \in points'
    BY DEF ProgressIsVisible
  <2>1. project
    OBVIOUS
  <2>2. QED
    BY <1>2, <2>1 DEF CompleteInv, ProgressIsVisible
<1>5. CompleteIsRetrievable'
  <2> SUFFICES ASSUME NEW d \in Docs, status'[d] = "complete"
               PROVE  summary'[d] # "none" /\ (reindexes' = 0 => d \in points')
    BY DEF CompleteIsRetrievable
  <2>1. status[d] = "complete"
    OBVIOUS
  <2>2. QED
    BY <1>2, <1>3, <2>1 DEF CompleteInv, CompleteIsRetrievable
<1>6. QED
  BY <1>4, <1>5 DEF CompleteInv

LEMMA StepComplete ==
  ASSUME PipelineAssumption, CompleteInv, [Next]_vars
  PROVE  CompleteInv'
<1>t. /\ TypeOK /\ TypeOK' /\ DropsAreDue /\ ProgressIsVisible /\ CompleteIsRetrievable
      /\ pc \in [Actors -> Labels] /\ reindexes \in Nat
      /\ status \in [Docs -> {"absent", "pending", "running", "complete", "failed"}]
      /\ summary \in [Docs -> {"none", "llm", "fallback"}]
      /\ Reindexer \in Actors /\ Deleter \in Actors /\ Docs \subseteq Actors
      /\ Reindexer \notin Docs /\ Deleter \notin Docs /\ Reindexer # Deleter
  BY StepType, TasksDiffer DEF CompleteInv, TypeOK
<1>r. ASSUME NEW d \in Docs, Raise(d)
      PROVE  /\ \A e \in Docs :
                /\ status'[e] = "complete" => status[e] = "complete"
                /\ pc'[e] \in {"indexed", "summarized"} => pc'[e] = pc[e]
             /\ pc'[Reindexer] = pc[Reindexer] /\ pc'[Deleter] = pc[Deleter]
  BY <1>r, <1>t DEF Raise, Goto
<1>1. ASSUME NEW d \in Docs, StoreDocument(d) PROVE CompleteInv'
  BY <1>1, <1>t, CompleteElsewhere DEF StoreDocument, reindexVars, storeVars, DropsAreDue
<1>2. ASSUME NEW d \in Docs, EnqueueIngest(d) PROVE CompleteInv'
  BY <1>2, <1>t, CompleteElsewhere DEF EnqueueIngest, rowVars, reindexVars, storeVars, DropsAreDue
<1>3. ASSUME NEW d \in Docs, GrowStale(d) PROVE CompleteInv'
  BY <1>3, <1>t, CompleteElsewhere DEF GrowStale, rowVars, reindexVars, storeVars, DropsAreDue
<1>4. ASSUME NEW d \in Docs, SweepOne(d) PROVE CompleteInv'
  BY <1>4, <1>t, CompleteElsewhere DEF SweepOne, rowVars, reindexVars, storeVars, DropsAreDue
<1>5. ASSUME NEW d \in Docs, TakeIngest(d) PROVE CompleteInv'
  BY <1>5, <1>t, CompleteElsewhere DEF TakeIngest, Goto, rowVars, reindexVars, storeVars, DropsAreDue
<1>6. ASSUME NEW d \in Docs, MarkRunning(d) PROVE CompleteInv'
  BY <1>6, <1>t, <1>r, CompleteElsewhere DEF MarkRunning, Goto, reindexVars, storeVars, DropsAreDue
<1>7. ASSUME NEW d \in Docs, LoadDocument(d) PROVE CompleteInv'
  BY <1>7, <1>t, <1>r, CompleteElsewhere DEF LoadDocument, Goto, reindexVars, storeVars, DropsAreDue
<1>8. ASSUME NEW w \in Writers, CheckCollection(w) PROVE CompleteInv'
  BY <1>8, <1>t, CompleteElsewhere DEF CheckCollection, Goto, Writers, rowVars, reindexVars, storeVars, DropsAreDue
<1>9. ASSUME NEW w \in Writers, CreateCollection(w) PROVE CompleteInv'
  BY <1>9, <1>t, <1>r, CompleteElsewhere DEF CreateCollection, Goto, Fail, FailReindex, Writers, reindexVars, DropsAreDue
<1>10. ASSUME NEW d \in Docs, UpsertDocument(d) PROVE CompleteInv'
  <2>1. UNCHANGED <<project, summary, reindexes>>
    BY <1>10 DEF UpsertDocument, reindexVars
  <2>2. CASE exists
    <3>1. points' = points \cup {d} /\ pc' = [pc EXCEPT ![d] = "indexed"] /\ UNCHANGED status
      BY <1>10, <2>2 DEF UpsertDocument, Goto
    <3>2. \A e \in Docs : pc'[e] \in {"indexed", "summarized"} => e = d \/ pc'[e] = pc[e]
      BY <1>t, <3>1
    <3>3. DropsAreDue'
      BY <1>t, <2>1, <3>1 DEF DropsAreDue
    <3>4. ProgressIsVisible'
      BY <1>t, <2>1, <3>1, <3>2 DEF ProgressIsVisible
    <3>5. CompleteIsRetrievable'
      BY <1>t, <2>1, <3>1 DEF CompleteIsRetrievable
    <3>6. QED
      BY <1>t, <3>3, <3>4, <3>5 DEF CompleteInv
  <2>3. CASE ~ exists
    <3>1. Raise(d) /\ UNCHANGED points
      BY <1>10, <2>3 DEF UpsertDocument
    <3>2. DropsAreDue'
      BY <1>t, <1>r, <2>1, <3>1 DEF DropsAreDue
    <3>3. QED
      BY <1>t, <1>r, <2>1, <3>1, <3>2, CompleteElsewhere
  <2>4. QED
    BY <2>2, <2>3 DEF TypeOK
<1>11. ASSUME NEW d \in Docs, CommitSummary(d) PROVE CompleteInv'
  BY <1>11, <1>t, <1>r DEF CommitSummary, Goto, WriteSummary, reindexVars, storeVars, CompleteInv, DropsAreDue, ProgressIsVisible, CompleteIsRetrievable, TypeOK
<1>12. ASSUME NEW d \in Docs, MarkComplete(d) PROVE CompleteInv'
  BY <1>12, <1>t DEF MarkComplete, Goto, reindexVars, storeVars, CompleteInv, DropsAreDue, ProgressIsVisible, CompleteIsRetrievable, TypeOK
<1>13. ASSUME NEW d \in Docs, ReturnIngest(d) PROVE CompleteInv'
  BY <1>13, <1>t, CompleteElsewhere DEF ReturnIngest, Goto, rowVars, reindexVars, storeVars, DropsAreDue
<1>14. ASSUME NEW d \in Docs, ForgetResult(d) PROVE CompleteInv'
  BY <1>14, <1>t, CompleteElsewhere DEF ForgetResult, rowVars, reindexVars, storeVars, DropsAreDue
<1>15. ASSUME SelectStale PROVE CompleteInv'
  BY <1>15, <1>t, CompleteElsewhere DEF SelectStale, rowVars, reindexVars, storeVars, DropsAreDue
<1>16. ASSUME RequestReindex PROVE CompleteInv'
  BY <1>16, <1>t, CompleteElsewhere DEF RequestReindex, Goto, rowVars, storeVars, DropsAreDue
<1>17. ASSUME ListDocuments PROVE CompleteInv'
  BY <1>17, <1>t, CompleteElsewhere DEF ListDocuments, Goto, rowVars, storeVars, DropsAreDue
<1>18. ASSUME NextDocument PROVE CompleteInv'
  BY <1>18, <1>t, CompleteElsewhere DEF NextDocument, Goto, rowVars, reindexVars, storeVars, DropsAreDue
<1>19. ASSUME NEW a \in {Reindexer, Deleter}, CheckDrop(a) PROVE CompleteInv'
  BY <1>19, <1>t, CompleteElsewhere DEF CheckDrop, Goto, rowVars, reindexVars, storeVars, DropsAreDue
<1>20. ASSUME NEW a \in {Reindexer, Deleter}, DropCollection(a) PROVE CompleteInv'
  BY <1>20, <1>t, CompleteElsewhere DEF DropCollection, Goto, rowVars, reindexVars, DropsAreDue
<1>21. ASSUME UpsertNext PROVE CompleteInv'
  BY <1>21, <1>t, CompleteElsewhere DEF UpsertNext, Goto, FailReindex, rowVars, DropsAreDue
<1>22. ASSUME DeleteProject PROVE CompleteInv'
  BY <1>22, <1>t DEF DeleteProject, Goto, reindexVars, storeVars, CompleteInv, DropsAreDue, ProgressIsVisible, CompleteIsRetrievable, TypeOK
<1>23. ASSUME NEW d \in Docs, LoseRequest(d) PROVE CompleteInv'
  BY <1>23, <1>t, CompleteElsewhere DEF LoseRequest, rowVars, reindexVars, storeVars, DropsAreDue
<1>24. ASSUME NEW d \in Docs, IngestError(d) PROVE CompleteInv'
  BY <1>24, <1>t, <1>r, CompleteElsewhere DEF IngestError, reindexVars, storeVars, DropsAreDue
<1>25. ASSUME NEW d \in Docs, IngestTimeout(d) PROVE CompleteInv'
  BY <1>25, <1>t, CompleteElsewhere DEF IngestTimeout, Goto, rowVars, reindexVars, storeVars, DropsAreDue
<1>26. ASSUME NEW d \in Docs, IngestCrash(d) PROVE CompleteInv'
  BY <1>26, <1>t, CompleteElsewhere DEF IngestCrash, Goto, rowVars, reindexVars, storeVars, DropsAreDue
<1>27. ASSUME LoseSweep PROVE CompleteInv'
  BY <1>27, <1>t, CompleteElsewhere DEF LoseSweep, rowVars, reindexVars, storeVars, DropsAreDue
<1>28. ASSUME ReindexFault PROVE CompleteInv'
  BY <1>28, <1>t, CompleteElsewhere DEF ReindexFault, Busy, Goto, rowVars, reindexVars, storeVars, DropsAreDue
<1>33. ASSUME NEW d \in Docs, DatabaseError(d) PROVE CompleteInv'
  <2>1. /\ UNCHANGED <<project, reindexes, points>>
        /\ pc'[d] = "returned" /\ \A a \in Actors : a # d => pc'[a] = pc[a]
        /\ pc[d] \in {"taken"} \cup Working
    BY <1>33, <1>t, DatabaseRows DEF DatabaseError, reindexVars, storeVars
  <2>2. DropsAreDue'
    BY <1>t, <2>1 DEF DropsAreDue
  <2>3. ProgressIsVisible'
    BY <1>33, <1>t, <2>1, DatabaseRows DEF ProgressIsVisible
  <2>4. CompleteIsRetrievable'
    BY <1>33, <1>t, <2>1, DatabaseRows DEF CompleteIsRetrievable, ProgressIsVisible, TypeOK
  <2>5. QED
    BY <1>t, <2>2, <2>3, <2>4 DEF CompleteInv
<1>29. ASSUME DeleteFault PROVE CompleteInv'
  BY <1>29, <1>t, CompleteElsewhere DEF DeleteFault, Goto, rowVars, reindexVars, storeVars, DropsAreDue
<1>30. CASE UNCHANGED vars
  BY <1>30, <1>t, CompleteElsewhere DEF vars, DropsAreDue
<1>31. QED
  BY <1>1, <1>2, <1>3, <1>4, <1>5, <1>6, <1>7, <1>8, <1>9, <1>10, <1>11, <1>12, <1>13, <1>14, <1>15, <1>16, <1>17, <1>18, <1>19, <1>20, <1>21, <1>22, <1>23, <1>24, <1>25, <1>26, <1>27, <1>28, <1>29, <1>33, <1>30
     DEF Next, IngestStep, ReindexStep, DeleteStep, Faulty, Writers

THEOREM CompleteInvariant == ASSUME PipelineAssumption PROVE Spec => []CompleteInv
<1>1. Init => CompleteInv
  BY InitComplete
<1>2. CompleteInv /\ [Next]_vars => CompleteInv'
  BY StepComplete
<1>3. QED
  BY <1>1, <1>2, PTL DEF Spec

(* A job that says COMPLETE has its summary in the event log and, until     *)
(* somebody reindexes, its points in the collection.                        *)
THEOREM CompleteMeansRetrievable ==
  ASSUME PipelineAssumption PROVE Spec => []CompleteIsRetrievable
<1>1. CompleteInv => CompleteIsRetrievable
  BY DEF CompleteInv
<1>2. QED
  BY <1>1, CompleteInvariant, PTL

(* No retry replaces a summary that is there. *)
THEOREM SummariesAreImmutable ==
  ASSUME PipelineAssumption PROVE Spec => SummaryIsImmutable
<1> DEFINE Kept == \A d \in Docs : summary[d] # "none" /\ project' => summary'[d] = summary[d]
<1>1. ASSUME TypeOK, Next PROVE Kept
  <2>1. ASSUME NEW d \in Docs, CommitSummary(d) PROVE Kept
    BY <1>1, <2>1 DEF CommitSummary, WriteSummary, TypeOK
  <2>2. ASSUME DeleteProject PROVE Kept
    BY <2>2 DEF DeleteProject
  <2>3. ASSUME NEW d \in Docs, StoreDocument(d) \/ EnqueueIngest(d) \/ GrowStale(d) \/ SweepOne(d)
                               \/ TakeIngest(d) \/ ForgetResult(d)
        PROVE  Kept
    BY <2>3 DEF StoreDocument, EnqueueIngest, GrowStale, SweepOne, TakeIngest, ForgetResult, rowVars
  <2>4. ASSUME NEW d \in Docs, MarkRunning(d) \/ LoadDocument(d) \/ UpsertDocument(d)
                               \/ MarkComplete(d) \/ ReturnIngest(d)
        PROVE  Kept
    BY <2>4 DEF MarkRunning, LoadDocument, UpsertDocument, MarkComplete, ReturnIngest, rowVars
  <2>5. ASSUME NEW w \in Writers, CheckCollection(w) \/ CreateCollection(w) PROVE Kept
    BY <2>5 DEF CheckCollection, CreateCollection, rowVars
  <2>6. ASSUME SelectStale \/ RequestReindex \/ ListDocuments \/ NextDocument \/ UpsertNext PROVE Kept
    BY <2>6 DEF SelectStale, RequestReindex, ListDocuments, NextDocument, UpsertNext, rowVars
  <2>7. ASSUME NEW a \in {Reindexer, Deleter}, CheckDrop(a) \/ DropCollection(a) PROVE Kept
    BY <2>7 DEF CheckDrop, DropCollection, rowVars
  <2>10. ASSUME NEW d \in Docs, DatabaseError(d) PROVE Kept
    BY <1>1, <2>10 DEF DatabaseError, CommitUnanswered, WriteSummary, TypeOK
  <2>8. ASSUME Faulty PROVE Kept
    BY <2>8, <2>10 DEF Faulty, LoseRequest, IngestError, IngestTimeout, IngestCrash, LoseSweep,
                ReindexFault, DeleteFault, rowVars
  <2>9. QED
    BY <1>1, <2>1, <2>2, <2>3, <2>4, <2>5, <2>6, <2>7, <2>8
       DEF Next, IngestStep, ReindexStep, DeleteStep, Writers
<1>2. TypeOK /\ [Next]_vars => [Kept]_vars
  BY <1>1
<1>3. QED
  BY <1>2, TypeCorrect, PTL DEF Spec, SummaryIsImmutable

-----------------------------------------------------------------------------
(* A reindex restores what it listed. *)

(* A step of somebody else, who takes nothing from the collection unless    *)
(* the project is gone.                                                     *)
LEMMA ReindexElsewhere ==
  ASSUME ReindexInv, UNCHANGED <<documents, todo>>, pc'[Reindexer] = pc[Reindexer],
         project' => project /\ points \subseteq points'
  PROVE  ReindexInv'
<1>1. CASE project'
  BY <1>1 DEF ReindexInv
<1>2. CASE ~ project'
  BY <1>2 DEF ReindexInv
<1>3. QED
  BY <1>1, <1>2

LEMMA StepReindex ==
  ASSUME PipelineAssumption, CompleteInv, ReindexInv, [Next]_vars
  PROVE  ReindexInv'
<1>t. /\ TypeOK /\ DropsAreDue
      /\ pc \in [Actors -> Labels] /\ todo \subseteq documents
      /\ Reindexer \in Actors /\ Deleter \in Actors /\ Docs \subseteq Actors
      /\ Reindexer \notin Docs /\ Deleter \notin Docs /\ Reindexer # Deleter
  BY TasksDiffer DEF CompleteInv, TypeOK
<1>r. ASSUME NEW d \in Docs, Raise(d) PROVE pc'[Reindexer] = pc[Reindexer]
  BY <1>r, <1>t DEF Raise, Goto
<1>1. ASSUME NEW d \in Docs, StoreDocument(d) PROVE ReindexInv'
  BY <1>1, <1>t, ReindexElsewhere DEF StoreDocument, reindexVars, storeVars
<1>2. ASSUME NEW d \in Docs, EnqueueIngest(d) PROVE ReindexInv'
  BY <1>2, <1>t, ReindexElsewhere DEF EnqueueIngest, rowVars, reindexVars, storeVars
<1>3. ASSUME NEW d \in Docs, GrowStale(d) PROVE ReindexInv'
  BY <1>3, <1>t, ReindexElsewhere DEF GrowStale, rowVars, reindexVars, storeVars
<1>4. ASSUME NEW d \in Docs, SweepOne(d) PROVE ReindexInv'
  BY <1>4, <1>t, ReindexElsewhere DEF SweepOne, rowVars, reindexVars, storeVars
<1>5. ASSUME NEW d \in Docs, TakeIngest(d) PROVE ReindexInv'
  BY <1>5, <1>t, ReindexElsewhere DEF TakeIngest, Goto, rowVars, reindexVars, storeVars
<1>6. ASSUME NEW d \in Docs, MarkRunning(d) PROVE ReindexInv'
  BY <1>6, <1>t, <1>r, ReindexElsewhere DEF MarkRunning, Goto, reindexVars, storeVars
<1>7. ASSUME NEW d \in Docs, LoadDocument(d) PROVE ReindexInv'
  BY <1>7, <1>t, <1>r, ReindexElsewhere DEF LoadDocument, Goto, reindexVars, storeVars
<1>8. ASSUME NEW w \in Writers, CheckCollection(w) PROVE ReindexInv'
  BY <1>8, <1>t, ReindexElsewhere DEF CheckCollection, Goto, Writers, ReindexInv, rowVars, reindexVars, storeVars
<1>9. ASSUME NEW w \in Writers, CreateCollection(w) PROVE ReindexInv'
  BY <1>9, <1>t, <1>r, ReindexElsewhere DEF CreateCollection, Goto, Fail, FailReindex, Writers, ReindexInv, reindexVars
<1>10. ASSUME NEW d \in Docs, UpsertDocument(d) PROVE ReindexInv'
  BY <1>10, <1>t, <1>r, ReindexElsewhere DEF UpsertDocument, Goto, reindexVars
<1>11. ASSUME NEW d \in Docs, CommitSummary(d) PROVE ReindexInv'
  BY <1>11, <1>t, <1>r, ReindexElsewhere DEF CommitSummary, Goto, reindexVars, storeVars
<1>12. ASSUME NEW d \in Docs, MarkComplete(d) PROVE ReindexInv'
  BY <1>12, <1>t, ReindexElsewhere DEF MarkComplete, Goto, reindexVars, storeVars
<1>13. ASSUME NEW d \in Docs, ReturnIngest(d) PROVE ReindexInv'
  BY <1>13, <1>t, ReindexElsewhere DEF ReturnIngest, Goto, rowVars, reindexVars, storeVars
<1>14. ASSUME NEW d \in Docs, ForgetResult(d) PROVE ReindexInv'
  BY <1>14, <1>t, ReindexElsewhere DEF ForgetResult, rowVars, reindexVars, storeVars
<1>15. ASSUME SelectStale PROVE ReindexInv'
  BY <1>15, <1>t, ReindexElsewhere DEF SelectStale, rowVars, reindexVars, storeVars
<1>16. ASSUME RequestReindex PROVE ReindexInv'
  BY <1>16, <1>t DEF RequestReindex, Goto, ReindexInv, rowVars, storeVars
<1>17. ASSUME ListDocuments PROVE ReindexInv'
  BY <1>17, <1>t DEF ListDocuments, Goto, ReindexInv, rowVars, storeVars
<1>18. ASSUME NextDocument PROVE ReindexInv'
  BY <1>18, <1>t DEF NextDocument, Goto, ReindexInv, rowVars, reindexVars, storeVars
<1>19. ASSUME NEW a \in {Reindexer, Deleter}, CheckDrop(a) PROVE ReindexInv'
  BY <1>19, <1>t, ReindexElsewhere DEF CheckDrop, Goto, ReindexInv, rowVars, reindexVars, storeVars
<1>20. ASSUME NEW a \in {Reindexer, Deleter}, DropCollection(a) PROVE ReindexInv'
  BY <1>20, <1>t, ReindexElsewhere DEF DropCollection, Goto, ReindexInv, DropsAreDue, rowVars, reindexVars
<1>21. ASSUME UpsertNext PROVE ReindexInv'
  BY <1>21, <1>t DEF UpsertNext, Goto, FailReindex, ReindexInv, rowVars
<1>22. ASSUME DeleteProject PROVE ReindexInv'
  BY <1>22, <1>t, ReindexElsewhere DEF DeleteProject, Goto, reindexVars, storeVars
<1>23. ASSUME NEW d \in Docs, LoseRequest(d) PROVE ReindexInv'
  BY <1>23, <1>t, ReindexElsewhere DEF LoseRequest, rowVars, reindexVars, storeVars
<1>24. ASSUME NEW d \in Docs, IngestError(d) PROVE ReindexInv'
  BY <1>24, <1>t, <1>r, ReindexElsewhere DEF IngestError, reindexVars, storeVars
<1>25. ASSUME NEW d \in Docs, IngestTimeout(d) PROVE ReindexInv'
  BY <1>25, <1>t, ReindexElsewhere DEF IngestTimeout, Goto, rowVars, reindexVars, storeVars
<1>26. ASSUME NEW d \in Docs, IngestCrash(d) PROVE ReindexInv'
  BY <1>26, <1>t, ReindexElsewhere DEF IngestCrash, Goto, rowVars, reindexVars, storeVars
<1>27. ASSUME LoseSweep PROVE ReindexInv'
  BY <1>27, <1>t, ReindexElsewhere DEF LoseSweep, rowVars, reindexVars, storeVars
<1>28. ASSUME ReindexFault PROVE ReindexInv'
  BY <1>28, <1>t DEF ReindexFault, Goto, ReindexInv, rowVars, reindexVars, storeVars
<1>33. ASSUME NEW d \in Docs, DatabaseError(d) PROVE ReindexInv'
  BY <1>33, <1>t, ReindexElsewhere DEF DatabaseError, Goto, reindexVars, storeVars
<1>29. ASSUME DeleteFault PROVE ReindexInv'
  BY <1>29, <1>t, ReindexElsewhere DEF DeleteFault, Goto, rowVars, reindexVars, storeVars
<1>30. CASE UNCHANGED vars
  BY <1>30, ReindexElsewhere DEF vars
<1>31. QED
  BY <1>1, <1>2, <1>3, <1>4, <1>5, <1>6, <1>7, <1>8, <1>9, <1>10, <1>11, <1>12, <1>13, <1>14, <1>15, <1>16, <1>17, <1>18, <1>19, <1>20, <1>21, <1>22, <1>23, <1>24, <1>25, <1>26, <1>27, <1>28, <1>29, <1>33, <1>30
     DEF Next, IngestStep, ReindexStep, DeleteStep, Faulty, Writers

(* A reindex that gets to its end leaves every document it listed in the    *)
(* collection, unless the project is deleted meanwhile.                     *)
THEOREM ReindexIsWhole ==
  ASSUME PipelineAssumption PROVE Spec => ReindexRestores
<1> DEFINE Restored == NextDocument /\ pc'[Reindexer] = "idle" /\ project => documents \subseteq points
<1>1. Init => ReindexInv
  BY TasksDiffer DEF Init, ReindexInv
<1>2. CompleteInv /\ ReindexInv /\ [Next]_vars => ReindexInv'
  BY StepReindex
<1>3. CompleteInv /\ ReindexInv => Restored
  <2> SUFFICES ASSUME CompleteInv, ReindexInv, NextDocument, pc'[Reindexer] = "idle", project
               PROVE  documents \subseteq points
    OBVIOUS
  <2>1. pc[Reindexer] = "next" /\ todo = {}
    BY TasksDiffer DEF NextDocument, Goto, CompleteInv, TypeOK
  <2>2. QED
    BY <2>1 DEF ReindexInv
<1>4. CompleteInv /\ ReindexInv /\ [Next]_vars => [Restored]_vars
  BY <1>3
<1>5. QED
  BY <1>1, <1>2, <1>4, CompleteInvariant, PTL DEF Spec, ReindexRestores

-----------------------------------------------------------------------------
(* A settled job is not run again. *)

LEMMA StepSettled ==
  ASSUME PipelineAssumption, TypeOK, WorkerIsKnown, SettledInv, [Next]_vars
  PROVE  /\ WorkerIsKnown'
         /\ SettledInv'
         /\ \A d \in Docs : status[d] \in {"complete", "failed"} /\ ~ crashed
                              => status'[d] \in {status[d], "absent"}
<1> DEFINE Kept == \A d \in Docs : status[d] \in {"complete", "failed"} /\ ~ crashed
                                     => status'[d] \in {status[d], "absent"}
           Goal == WorkerIsKnown' /\ SettledInv' /\ Kept
<1>t. /\ pc \in [Actors -> Labels]
      /\ queue \in [Docs -> JobStatus]
      /\ status \in [Docs -> {"absent", "pending", "running", "complete", "failed"}]
      /\ upload \in [Docs -> {"none", "stored", "answered"}]
      /\ Reindexer \in Actors /\ Deleter \in Actors /\ Docs \subseteq Actors
      /\ Reindexer \notin Docs /\ Deleter \notin Docs /\ Reindexer # Deleter
  BY TasksDiffer DEF TypeOK
<1>1. ASSUME NEW d \in Docs, StoreDocument(d) PROVE Goal
  BY <1>1, <1>t
     DEF StoreDocument, faultVars, WorkerIsKnown, SettledInv
<1>2. ASSUME NEW d \in Docs, EnqueueIngest(d) PROVE Goal
  BY <1>2, <1>t
     DEF EnqueueIngest, Enqueue, rowVars, faultVars, WorkerIsKnown, SettledInv
<1>3. ASSUME NEW d \in Docs, GrowStale(d) PROVE Goal
  BY <1>3, <1>t
     DEF GrowStale, rowVars, faultVars, WorkerIsKnown, SettledInv
<1>4. ASSUME NEW d \in Docs, SweepOne(d) PROVE Goal
  BY <1>4, <1>t
     DEF SweepOne, Enqueue, rowVars, faultVars, WorkerIsKnown, SettledInv
<1>5. ASSUME NEW d \in Docs, TakeIngest(d) PROVE Goal
  BY <1>5, <1>t
     DEF TakeIngest, Goto, Take, Finish, rowVars, requestVars, WorkerIsKnown, SettledInv
<1>6. ASSUME NEW d \in Docs, MarkRunning(d) PROVE Goal
  BY <1>6, <1>t
     DEF MarkRunning, Goto, Raise, requestVars, faultVars, WorkerIsKnown, SettledInv
<1>7. ASSUME NEW d \in Docs, LoadDocument(d) PROVE Goal
  BY <1>7, <1>t
     DEF LoadDocument, Goto, Raise, requestVars, faultVars, WorkerIsKnown, SettledInv
<1>8. ASSUME NEW w \in Writers, CheckCollection(w) PROVE Goal
  BY <1>8, <1>t
     DEF CheckCollection, Goto, Writers, rowVars, requestVars, faultVars, WorkerIsKnown, SettledInv
<1>9. ASSUME NEW w \in Writers, CreateCollection(w) PROVE Goal
  BY <1>9, <1>t
     DEF CreateCollection, Goto, Raise, Fail, FailReindex, Writers, requestVars, faultVars, WorkerIsKnown, SettledInv
<1>10. ASSUME NEW d \in Docs, UpsertDocument(d) PROVE Goal
  BY <1>10, <1>t
     DEF UpsertDocument, Goto, Raise, requestVars, faultVars, WorkerIsKnown, SettledInv
<1>11. ASSUME NEW d \in Docs, CommitSummary(d) PROVE Goal
  BY <1>11, <1>t
     DEF CommitSummary, Goto, Raise, requestVars, faultVars, WorkerIsKnown, SettledInv
<1>12. ASSUME NEW d \in Docs, MarkComplete(d) PROVE Goal
  BY <1>12, <1>t
     DEF MarkComplete, Goto, requestVars, faultVars, WorkerIsKnown, SettledInv
<1>13. ASSUME NEW d \in Docs, ReturnIngest(d) PROVE Goal
  BY <1>13, <1>t
     DEF ReturnIngest, Goto, Finish, rowVars, requestVars, faultVars, WorkerIsKnown, SettledInv
<1>14. ASSUME NEW d \in Docs, ForgetResult(d) PROVE Goal
  BY <1>14, <1>t
     DEF ForgetResult, Forget, rowVars, requestVars, faultVars, WorkerIsKnown, SettledInv
<1>15. ASSUME SelectStale PROVE Goal
  BY <1>15, <1>t
     DEF SelectStale, Sweepable, rowVars, faultVars, WorkerIsKnown, SettledInv
<1>16. ASSUME RequestReindex PROVE Goal
  BY <1>16, <1>t
     DEF RequestReindex, Goto, rowVars, requestVars, faultVars, WorkerIsKnown, SettledInv
<1>17. ASSUME ListDocuments PROVE Goal
  BY <1>17, <1>t
     DEF ListDocuments, Goto, rowVars, requestVars, faultVars, WorkerIsKnown, SettledInv
<1>18. ASSUME NextDocument PROVE Goal
  BY <1>18, <1>t
     DEF NextDocument, Goto, rowVars, requestVars, faultVars, WorkerIsKnown, SettledInv
<1>19. ASSUME NEW a \in {Reindexer, Deleter}, CheckDrop(a) PROVE Goal
  BY <1>19, <1>t
     DEF CheckDrop, Goto, rowVars, requestVars, faultVars, WorkerIsKnown, SettledInv
<1>20. ASSUME NEW a \in {Reindexer, Deleter}, DropCollection(a) PROVE Goal
  BY <1>20, <1>t
     DEF DropCollection, Goto, rowVars, requestVars, faultVars, WorkerIsKnown, SettledInv
<1>21. ASSUME UpsertNext PROVE Goal
  BY <1>21, <1>t
     DEF UpsertNext, Goto, FailReindex, rowVars, requestVars, faultVars, WorkerIsKnown, SettledInv
<1>22. ASSUME DeleteProject PROVE Goal
  BY <1>22, <1>t
     DEF DeleteProject, Goto, requestVars, faultVars, WorkerIsKnown, SettledInv
<1>23. ASSUME NEW d \in Docs, LoseRequest(d) PROVE Goal
  BY <1>23, <1>t
     DEF LoseRequest, Fault, rowVars, WorkerIsKnown, SettledInv
<1>24. ASSUME NEW d \in Docs, IngestError(d) PROVE Goal
  BY <1>24, <1>t
     DEF IngestError, Working, Raise, Goto, Fault, requestVars, WorkerIsKnown, SettledInv
<1>25. ASSUME NEW d \in Docs, IngestTimeout(d) PROVE Goal
  BY <1>25, <1>t
     DEF IngestTimeout, Goto, Fault, Busy, Finish, rowVars, requestVars, WorkerIsKnown, SettledInv
<1>26. ASSUME NEW d \in Docs, IngestCrash(d) PROVE Goal
  BY <1>26, <1>t
     DEF IngestCrash, Goto, Fault, Busy, Interrupt, rowVars, requestVars, WorkerIsKnown, SettledInv
<1>27. ASSUME LoseSweep PROVE Goal
  BY <1>27, <1>t
     DEF LoseSweep, Fault, rowVars, WorkerIsKnown, SettledInv
<1>28. ASSUME ReindexFault PROVE Goal
  BY <1>28, <1>t
     DEF ReindexFault, Goto, Fault, Busy, rowVars, requestVars, WorkerIsKnown, SettledInv
<1>33. ASSUME NEW d \in Docs, DatabaseError(d) PROVE Goal
  <2>1. /\ UNCHANGED <<project, upload, sweep, queue>> /\ (~ crashed' => ~ crashed)
        /\ cutOff' = cutOff \cup {d}
    BY <1>33 DEF DatabaseError, Fault, requestVars
  <2>2. /\ pc[d] \in {"taken"} \cup Working /\ pc[d] # "idle"
        /\ pc'[d] = "returned" /\ \A e \in Docs : e # d => pc'[e] = pc[e]
    BY <1>33, <1>t, DatabaseRows DEF Working
  <2>3. /\ \A e \in Docs : e # d => status'[e] = status[e]
        /\ \/ status'[d] = status[d]
           \/ status[d] # "absent" /\ pc[d] = "taken" /\ status'[d] = "running"
           \/ status[d] # "absent" /\ pc[d] = "summarized" /\ status'[d] = "complete"
    BY <1>33, <1>t, DatabaseRows
  <2>4. queue[d] = "running"
    BY <2>2 DEF WorkerIsKnown
  <2>5. WorkerIsKnown'
    BY <2>1, <2>2, <2>3 DEF WorkerIsKnown
  <2>6. SettledInv'
    BY <2>1, <2>2, <2>3, <2>4 DEF SettledInv
  <2>7. Kept
    BY <2>1, <2>2, <2>3 DEF SettledInv, Working
  <2>8. QED
    BY <2>5, <2>6, <2>7
<1>29. ASSUME DeleteFault PROVE Goal
  BY <1>29, <1>t
     DEF DeleteFault, Goto, Fault, Busy, rowVars, requestVars, WorkerIsKnown, SettledInv
<1>30. CASE UNCHANGED vars
  BY <1>30 DEF vars, WorkerIsKnown, SettledInv
<1>31. QED
  BY <1>1, <1>2, <1>3, <1>4, <1>5, <1>6, <1>7, <1>8, <1>9, <1>10, <1>11, <1>12, <1>13, <1>14, <1>15, <1>16, <1>17, <1>18, <1>19, <1>20, <1>21, <1>22, <1>23, <1>24, <1>25, <1>26, <1>27, <1>28, <1>29, <1>33, <1>30
     DEF Next, IngestStep, ReindexStep, DeleteStep, Faulty, Writers

(* Unless a worker crashes, a job that was settled is not run again, though *)
(* the upload and the sweep both enqueue it and results are forgotten.      *)
THEOREM SettledJobsStay ==
  ASSUME PipelineAssumption PROVE Spec => SettledOnce
<1> DEFINE Kept == \A d \in Docs : status[d] \in {"complete", "failed"} /\ ~ crashed
                                     => status'[d] \in {status[d], "absent"}
<1>1. Init => WorkerIsKnown /\ SettledInv
  BY TasksDiffer DEF Init, WorkerIsKnown, SettledInv
<1>2. TypeOK /\ WorkerIsKnown /\ SettledInv /\ [Next]_vars => WorkerIsKnown' /\ SettledInv'
  BY StepSettled
<1>3. TypeOK /\ WorkerIsKnown /\ SettledInv /\ [Next]_vars => [Kept]_vars
  BY StepSettled
<1>4. QED
  BY <1>1, <1>2, <1>3, TypeCorrect, PTL DEF Spec, SettledOnce

-----------------------------------------------------------------------------
(* What a reindex has not brought back is accounted for. *)

LEMMA StepLoss ==
  ASSUME PipelineAssumption, CompleteInv, ReindexInv, LossInv, [Next]_vars
  PROVE  LossInv'
<1>t. /\ TypeOK /\ DropsAreDue /\ todo \subseteq documents
      /\ Reindexer \in Actors /\ Deleter \in Actors /\ Reindexer # Deleter
  BY TasksDiffer DEF CompleteInv, TypeOK
<1>1. ASSUME UNCHANGED <<documents, todo>>, project' => project /\ points \subseteq points'
      PROVE  LossInv'
  BY <1>1 DEF LossInv
<1>2. ASSUME ListDocuments PROVE LossInv'
  BY <1>2 DEF ListDocuments, LossInv
<1>3. ASSUME UpsertNext PROVE LossInv'
  BY <1>3 DEF UpsertNext, FailReindex, LossInv, rowVars
<1>4. ASSUME NEW a \in {Reindexer, Deleter}, DropCollection(a) PROVE LossInv'
  <2>1. UNCHANGED <<project, documents, todo>> /\ pc[a] = "deleting"
    BY <1>4 DEF DropCollection, rowVars, reindexVars
  <2>2. CASE a = Reindexer
    BY <2>1, <2>2 DEF ReindexInv, LossInv
  <2>3. CASE a = Deleter
    BY <1>t, <2>1, <2>3 DEF DropsAreDue, LossInv
  <2>4. QED
    BY <2>2, <2>3
<1>5. ASSUME DeleteProject PROVE LossInv'
  BY <1>5 DEF DeleteProject, LossInv
<1>6. ASSUME NEW d \in Docs, \/ StoreDocument(d) \/ EnqueueIngest(d) \/ GrowStale(d)
                              \/ SweepOne(d) \/ TakeIngest(d) \/ ForgetResult(d)
      PROVE  LossInv'
  BY <1>1, <1>6 DEF StoreDocument, EnqueueIngest, GrowStale, SweepOne, TakeIngest, ForgetResult,
                    rowVars, reindexVars, storeVars
<1>7. ASSUME NEW d \in Docs, \/ MarkRunning(d) \/ LoadDocument(d) \/ CommitSummary(d)
                              \/ MarkComplete(d) \/ ReturnIngest(d)
      PROVE  LossInv'
  BY <1>1, <1>7 DEF MarkRunning, LoadDocument, CommitSummary, MarkComplete, ReturnIngest,
                    rowVars, reindexVars, storeVars
<1>8. ASSUME NEW d \in Docs, UpsertDocument(d) PROVE LossInv'
  BY <1>1, <1>8 DEF UpsertDocument, reindexVars
<1>9. ASSUME NEW w \in Writers, CheckCollection(w) \/ CreateCollection(w) PROVE LossInv'
  BY <1>1, <1>9 DEF CheckCollection, CreateCollection, rowVars, reindexVars, storeVars
<1>10. ASSUME SelectStale \/ RequestReindex \/ NextDocument PROVE LossInv'
  BY <1>1, <1>10 DEF SelectStale, RequestReindex, NextDocument, rowVars, reindexVars, storeVars
<1>11. ASSUME NEW a \in {Reindexer, Deleter}, CheckDrop(a) PROVE LossInv'
  BY <1>1, <1>11 DEF CheckDrop, rowVars, reindexVars, storeVars
<1>12. ASSUME Faulty PROVE LossInv'
  BY <1>1, <1>12 DEF Faulty, LoseRequest, IngestError, DatabaseError, IngestTimeout, IngestCrash, LoseSweep,
                     ReindexFault, DeleteFault, rowVars, reindexVars, storeVars
<1>13. CASE UNCHANGED vars
  BY <1>1, <1>13 DEF vars
<1>14. QED
  BY <1>2, <1>3, <1>4, <1>5, <1>6, <1>7, <1>8, <1>9, <1>10, <1>11, <1>12, <1>13
     DEF Next, IngestStep, ReindexStep, DeleteStep, Writers

(* A COMPLETE document that retrieval cannot find is one that a reindex has *)
(* listed and not come to, or one uploaded after the list was made: nothing *)
(* else takes points away while the project stays.                          *)
THEOREM LossIsAccountedFor ==
  ASSUME PipelineAssumption PROVE Spec => []ReindexAccountsForLoss
<1>1. Init => ReindexInv /\ LossInv
  BY TasksDiffer DEF Init, ReindexInv, LossInv
<1>2. CompleteInv /\ ReindexInv /\ LossInv /\ [Next]_vars => ReindexInv' /\ LossInv'
  BY StepReindex, StepLoss
<1>3. CompleteInv /\ LossInv => ReindexAccountsForLoss
  <2> SUFFICES ASSUME CompleteInv, LossInv, NEW d \in Docs, project, status[d] = "complete",
                      d \notin points
               PROVE  reindexes > 0 /\ (d \in todo \/ d \notin documents)
    BY DEF ReindexAccountsForLoss
  <2>1. reindexes # 0 /\ reindexes \in Nat
    BY DEF CompleteInv, CompleteIsRetrievable, TypeOK
  <2>2. d \in todo \/ d \notin documents
    BY DEF LossInv
  <2>3. QED
    BY <2>1, <2>2
<1>4. QED
  BY <1>1, <1>2, <1>3, CompleteInvariant, PTL DEF Spec

-----------------------------------------------------------------------------
(* Rows move as in JobLifecycle. *)

LEMMA StepLifecycle ==
  ASSUME PipelineAssumption, TypeOK, WorkerIsKnown, LifecycleInv, [Next]_vars
  PROVE  LifecycleInv'
<1> DEFINE Goal == LifecycleInv'
<1>t. /\ pc \in [Actors -> Labels]
      /\ queue \in [Docs -> JobStatus]
      /\ status \in [Docs -> {"absent", "pending", "running", "complete", "failed"}]
      /\ upload \in [Docs -> {"none", "stored", "answered"}]
      /\ (~ project => \A d \in Docs : status[d] = "absent")
      /\ Reindexer \in Actors /\ Deleter \in Actors /\ Docs \subseteq Actors
      /\ Reindexer \notin Docs /\ Deleter \notin Docs /\ Reindexer # Deleter
  BY TasksDiffer DEF TypeOK
<1>1. ASSUME NEW d \in Docs, StoreDocument(d) PROVE Goal
  BY <1>1, <1>t
     DEF StoreDocument, faultVars, WorkerIsKnown, LifecycleInv, WorkIsRunning, StartedOnce, RunningIsInHand, Working, IngestLabels
<1>2. ASSUME NEW d \in Docs, EnqueueIngest(d) PROVE Goal
  BY <1>2, <1>t
     DEF EnqueueIngest, Enqueue, rowVars, faultVars, WorkerIsKnown, LifecycleInv, WorkIsRunning, StartedOnce, RunningIsInHand, Working, IngestLabels
<1>3. ASSUME NEW d \in Docs, GrowStale(d) PROVE Goal
  BY <1>3, <1>t
     DEF GrowStale, rowVars, faultVars, WorkerIsKnown, LifecycleInv, WorkIsRunning, StartedOnce, RunningIsInHand, Working, IngestLabels
<1>4. ASSUME NEW d \in Docs, SweepOne(d) PROVE Goal
  BY <1>4, <1>t
     DEF SweepOne, Enqueue, rowVars, faultVars, WorkerIsKnown, LifecycleInv, WorkIsRunning, StartedOnce, RunningIsInHand, Working, IngestLabels
<1>5. ASSUME NEW d \in Docs, TakeIngest(d) PROVE Goal
  BY <1>5, <1>t
     DEF TakeIngest, Goto, Take, Finish, rowVars, requestVars, WorkerIsKnown, LifecycleInv, WorkIsRunning, StartedOnce, RunningIsInHand, Working, IngestLabels
<1>6. ASSUME NEW d \in Docs, MarkRunning(d) PROVE Goal
  BY <1>6, <1>t
     DEF MarkRunning, Goto, Raise, requestVars, faultVars, WorkerIsKnown, LifecycleInv, WorkIsRunning, StartedOnce, RunningIsInHand, Working, IngestLabels
<1>7. ASSUME NEW d \in Docs, LoadDocument(d) PROVE Goal
  BY <1>7, <1>t
     DEF LoadDocument, Goto, Raise, requestVars, faultVars, WorkerIsKnown, LifecycleInv, WorkIsRunning, StartedOnce, RunningIsInHand, Working, IngestLabels
<1>8. ASSUME NEW w \in Writers, CheckCollection(w) PROVE Goal
  BY <1>8, <1>t
     DEF CheckCollection, Goto, Writers, rowVars, requestVars, faultVars, WorkerIsKnown, LifecycleInv, WorkIsRunning, StartedOnce, RunningIsInHand, Working, IngestLabels
<1>9. ASSUME NEW w \in Writers, CreateCollection(w) PROVE Goal
  BY <1>9, <1>t
     DEF CreateCollection, Goto, Raise, Fail, FailReindex, Writers, requestVars, faultVars, WorkerIsKnown, LifecycleInv, WorkIsRunning, StartedOnce, RunningIsInHand, Working, IngestLabels
<1>10. ASSUME NEW d \in Docs, UpsertDocument(d) PROVE Goal
  BY <1>10, <1>t
     DEF UpsertDocument, Goto, Raise, requestVars, faultVars, WorkerIsKnown, LifecycleInv, WorkIsRunning, StartedOnce, RunningIsInHand, Working, IngestLabels
<1>11. ASSUME NEW d \in Docs, CommitSummary(d) PROVE Goal
  BY <1>11, <1>t
     DEF CommitSummary, Goto, Raise, requestVars, faultVars, WorkerIsKnown, LifecycleInv, WorkIsRunning, StartedOnce, RunningIsInHand, Working, IngestLabels
<1>12. ASSUME NEW d \in Docs, MarkComplete(d) PROVE Goal
  BY <1>12, <1>t
     DEF MarkComplete, Goto, requestVars, faultVars, WorkerIsKnown, LifecycleInv, WorkIsRunning, StartedOnce, RunningIsInHand, Working, IngestLabels
<1>13. ASSUME NEW d \in Docs, ReturnIngest(d) PROVE Goal
  BY <1>13, <1>t
     DEF ReturnIngest, Goto, Finish, rowVars, requestVars, faultVars, WorkerIsKnown, LifecycleInv, WorkIsRunning, StartedOnce, RunningIsInHand, Working, IngestLabels
<1>14. ASSUME NEW d \in Docs, ForgetResult(d) PROVE Goal
  BY <1>14, <1>t
     DEF ForgetResult, Forget, rowVars, requestVars, faultVars, WorkerIsKnown, LifecycleInv, WorkIsRunning, StartedOnce, RunningIsInHand, Working, IngestLabels
<1>15. ASSUME SelectStale PROVE Goal
  BY <1>15, <1>t
     DEF SelectStale, Sweepable, rowVars, faultVars, WorkerIsKnown, LifecycleInv, WorkIsRunning, StartedOnce, RunningIsInHand, Working, IngestLabels
<1>16. ASSUME RequestReindex PROVE Goal
  BY <1>16, <1>t
     DEF RequestReindex, Goto, rowVars, requestVars, faultVars, WorkerIsKnown, LifecycleInv, WorkIsRunning, StartedOnce, RunningIsInHand, Working, IngestLabels
<1>17. ASSUME ListDocuments PROVE Goal
  BY <1>17, <1>t
     DEF ListDocuments, Goto, rowVars, requestVars, faultVars, WorkerIsKnown, LifecycleInv, WorkIsRunning, StartedOnce, RunningIsInHand, Working, IngestLabels
<1>18. ASSUME NextDocument PROVE Goal
  BY <1>18, <1>t
     DEF NextDocument, Goto, rowVars, requestVars, faultVars, WorkerIsKnown, LifecycleInv, WorkIsRunning, StartedOnce, RunningIsInHand, Working, IngestLabels
<1>19. ASSUME NEW a \in {Reindexer, Deleter}, CheckDrop(a) PROVE Goal
  BY <1>19, <1>t
     DEF CheckDrop, Goto, rowVars, requestVars, faultVars, WorkerIsKnown, LifecycleInv, WorkIsRunning, StartedOnce, RunningIsInHand, Working, IngestLabels
<1>20. ASSUME NEW a \in {Reindexer, Deleter}, DropCollection(a) PROVE Goal
  BY <1>20, <1>t
     DEF DropCollection, Goto, rowVars, requestVars, faultVars, WorkerIsKnown, LifecycleInv, WorkIsRunning, StartedOnce, RunningIsInHand, Working, IngestLabels
<1>21. ASSUME UpsertNext PROVE Goal
  BY <1>21, <1>t
     DEF UpsertNext, Goto, FailReindex, rowVars, requestVars, faultVars, WorkerIsKnown, LifecycleInv, WorkIsRunning, StartedOnce, RunningIsInHand, Working, IngestLabels
<1>22. ASSUME DeleteProject PROVE Goal
  BY <1>22, <1>t
     DEF DeleteProject, Goto, requestVars, faultVars, WorkerIsKnown, LifecycleInv, WorkIsRunning, StartedOnce, RunningIsInHand, Working, IngestLabels
<1>23. ASSUME NEW d \in Docs, LoseRequest(d) PROVE Goal
  BY <1>23, <1>t
     DEF LoseRequest, Fault, rowVars, WorkerIsKnown, LifecycleInv, WorkIsRunning, StartedOnce, RunningIsInHand, Working, IngestLabels
<1>24. ASSUME NEW d \in Docs, IngestError(d) PROVE Goal
  BY <1>24, <1>t
     DEF IngestError, Raise, Goto, Fault, requestVars, WorkerIsKnown, LifecycleInv, WorkIsRunning, StartedOnce, RunningIsInHand, Working, IngestLabels
<1>25. ASSUME NEW d \in Docs, IngestTimeout(d) PROVE Goal
  BY <1>25, <1>t
     DEF IngestTimeout, Goto, Fault, Busy, Finish, rowVars, requestVars, WorkerIsKnown, LifecycleInv, WorkIsRunning, StartedOnce, RunningIsInHand, Working, IngestLabels
<1>26. ASSUME NEW d \in Docs, IngestCrash(d) PROVE Goal
  BY <1>26, <1>t
     DEF IngestCrash, Goto, Fault, Busy, Interrupt, rowVars, requestVars, WorkerIsKnown, LifecycleInv, WorkIsRunning, StartedOnce, RunningIsInHand, Working, IngestLabels
<1>27. ASSUME LoseSweep PROVE Goal
  BY <1>27, <1>t
     DEF LoseSweep, Fault, rowVars, WorkerIsKnown, LifecycleInv, WorkIsRunning, StartedOnce, RunningIsInHand, Working, IngestLabels
<1>28. ASSUME ReindexFault PROVE Goal
  BY <1>28, <1>t
     DEF ReindexFault, Goto, Fault, Busy, rowVars, requestVars, WorkerIsKnown, LifecycleInv, WorkIsRunning, StartedOnce, RunningIsInHand, Working, IngestLabels
<1>33. ASSUME NEW d \in Docs, DatabaseError(d) PROVE Goal
  <2>1. /\ UNCHANGED <<project, upload, sweep, queue>> /\ (~ crashed' => ~ crashed)
        /\ cutOff' = cutOff \cup {d}
    BY <1>33 DEF DatabaseError, Fault, requestVars
  <2>2. /\ pc[d] \in {"taken"} \cup Working /\ pc[d] # "idle"
        /\ pc'[d] = "returned" /\ \A e \in Docs : e # d => pc'[e] = pc[e]
    BY <1>33, <1>t, DatabaseRows DEF Working
  <2>3. /\ \A e \in Docs : e # d => status'[e] = status[e]
        /\ \/ status'[d] = status[d]
           \/ status[d] # "absent" /\ pc[d] = "taken" /\ status'[d] = "running"
           \/ status[d] # "absent" /\ pc[d] = "summarized" /\ status'[d] = "complete"
    BY <1>33, <1>t, DatabaseRows
  <2>4. queue[d] = "running"
    BY <2>2 DEF WorkerIsKnown
  <2>5. WorkIsRunning'
    BY <2>1, <2>2, <2>3 DEF LifecycleInv, WorkIsRunning, Working, IngestLabels
  <2>6. StartedOnce'
    BY <2>1, <2>2, <2>3, <2>4 DEF LifecycleInv, StartedOnce
  <2>7. RunningIsInHand'
    BY <2>1, <2>2, <2>3, <2>4 DEF LifecycleInv, RunningIsInHand
  <2>8. QED
    BY <2>5, <2>6, <2>7 DEF LifecycleInv
<1>29. ASSUME DeleteFault PROVE Goal
  BY <1>29, <1>t
     DEF DeleteFault, Goto, Fault, Busy, rowVars, requestVars, WorkerIsKnown, LifecycleInv, WorkIsRunning, StartedOnce, RunningIsInHand, Working, IngestLabels
<1>30. CASE UNCHANGED vars
  BY <1>30 DEF vars, WorkerIsKnown, LifecycleInv, WorkIsRunning, StartedOnce, RunningIsInHand, Working, IngestLabels
<1>31. QED
  BY <1>1, <1>2, <1>3, <1>4, <1>5, <1>6, <1>7, <1>8, <1>9, <1>10, <1>11, <1>12, <1>13, <1>14, <1>15, <1>16, <1>17, <1>18, <1>19, <1>20, <1>21, <1>22, <1>23, <1>24, <1>25, <1>26, <1>27, <1>28, <1>29, <1>33, <1>30
     DEF Next, IngestStep, ReindexStep, DeleteStep, Faulty, Writers

(* What a step of the pipeline does to the rows: nothing, or one step of    *)
(* the life of one job, or the end of them all.                             *)
LEMMA StepRefines ==
  ASSUME PipelineAssumption, CompleteInv, WorkerIsKnown, LifecycleInv, [Next]_vars
  PROVE  Lifecycle!Next \/ UNCHANGED <<status, summary, crashed, ~ project>>
<1> DEFINE Same == UNCHANGED <<status, summary, crashed, ~ project>>
           Goal == Lifecycle!Next \/ Same
<1>t. /\ pc \in [Actors -> Labels] /\ Docs \subseteq Actors
      /\ status \in [Docs -> {"absent", "pending", "running", "complete", "failed"}]
      /\ summary \in [Docs -> {"none", "llm", "fallback"}]
      /\ (~ project => \A d \in Docs : status[d] = "absent" /\ summary[d] = "none")
      /\ ~ crashed =>
            \A d \in Docs : status[d] \in {"running", "complete", "failed"} => pc[d] # "taken"
      /\ crashed \in BOOLEAN
  BY TasksDiffer DEF CompleteInv, TypeOK, LifecycleInv, StartedOnce
<1>1. ASSUME UNCHANGED <<project, status, summary, crashed>> PROVE Goal
  BY <1>1
<1>2. ASSUME UNCHANGED <<project, status, summary>>, NEW kind, Fault(kind) PROVE Goal
  <2>1. crashed' = (crashed \/ kind = "crash")
    BY <1>2 DEF Fault
  <2>2. CASE kind = "crash"
    <3>1. crashed' = TRUE
      BY <2>1, <2>2
    <3>2. Lifecycle!Crash
      BY <1>2, <3>1 DEF Lifecycle!Crash
    <3>3. QED
      BY <3>2 DEF Lifecycle!Next
  <2>3. CASE kind # "crash"
    <3>1. crashed' = crashed
      BY <1>t, <2>1, <2>3
    <3>2. QED
      BY <1>1, <1>2, <3>1
  <2>4. QED
    BY <2>2, <2>3
<1>3. ASSUME NEW d \in Docs, NEW next, status' = [status EXCEPT ![d] = next],
             UNCHANGED <<project, summary, crashed>>
      PROVE  Lifecycle!Become(d, next)
  BY <1>3 DEF Lifecycle!Become
<1>4. ASSUME NEW d \in Docs, Raise(d), pc[d] \in Working, UNCHANGED <<project, summary, crashed>>
      PROVE  Goal
  <2>1. CASE project
    <3>1. status[d] = "running" /\ status' = [status EXCEPT ![d] = "failed"]
      BY <1>t, <1>4, <2>1 DEF Raise, LifecycleInv, WorkIsRunning
    <3>2. Lifecycle!Fail(d)
      BY <1>3, <1>4, <3>1 DEF Lifecycle!Fail
    <3>3. QED
      BY <3>2 DEF Lifecycle!Next
  <2>2. CASE ~ project
    BY <1>t, <1>4, <2>2 DEF Raise
  <2>3. QED
    BY <2>1, <2>2
<1>5. ASSUME NEW d \in Docs, StoreDocument(d) PROVE Goal
  <2>1. /\ status[d] = "absent" /\ project /\ status' = [status EXCEPT ![d] = "pending"]
        /\ UNCHANGED <<project, summary, crashed>>
    BY <1>5 DEF StoreDocument, WorkerIsKnown, faultVars
  <2>2. Lifecycle!Upload(d)
    BY <1>3, <2>1 DEF Lifecycle!Upload
  <2>3. QED
    BY <2>2 DEF Lifecycle!Next
<1>6. ASSUME NEW d \in Docs, MarkRunning(d) PROVE Goal
  <2>1. pc[d] = "taken" /\ UNCHANGED <<project, summary, crashed>>
    BY <1>6 DEF MarkRunning, faultVars
  <2>2. CASE status[d] # "absent"
    <3>1. status' = [status EXCEPT ![d] = "running"]
      BY <1>6, <2>2 DEF MarkRunning
    <3>2. status[d] = "pending" \/ crashed
      BY <1>t, <2>1, <2>2
    <3>3. Lifecycle!Start(d)
      BY <1>3, <2>1, <2>2, <3>1, <3>2 DEF Lifecycle!Start
    <3>4. QED
      BY <3>3 DEF Lifecycle!Next
  <2>3. CASE status[d] = "absent"
    <3>1. status' = status
      BY <1>t, <1>6, <2>3 DEF MarkRunning, Raise
    <3>2. QED
      BY <1>1, <2>1, <3>1
  <2>4. QED
    BY <2>2, <2>3
<1>7. ASSUME NEW d \in Docs, LoadDocument(d) PROVE Goal
  <2>1. pc[d] \in Working /\ UNCHANGED <<project, summary, crashed>>
        /\ (UNCHANGED status \/ Raise(d))
    BY <1>7 DEF LoadDocument, Working, faultVars
  <2>2. QED
    BY <1>1, <1>4, <2>1
<1>8. ASSUME NEW d \in Docs, CommitSummary(d) PROVE Goal
  <2>1. pc[d] = "indexed" /\ UNCHANGED <<project, crashed>>
    BY <1>8 DEF CommitSummary, faultVars
  <2>2. CASE ~ project
    <3>1. Raise(d) /\ UNCHANGED summary
      BY <1>8, <2>2 DEF CommitSummary
    <3>2. QED
      BY <1>4, <2>1, <3>1 DEF Working
  <2>3. CASE project
    <3>1. PICK new \in {"llm", "fallback"} :
             summary' = [summary EXCEPT ![d] = WriteSummary(@, new)]
      BY <1>8, <2>3 DEF CommitSummary
    <3>2. UNCHANGED status /\ status[d] = "running"
      BY <1>8, <2>1, <2>3 DEF CommitSummary, LifecycleInv, WorkIsRunning, Working
    <3>3. CASE summary[d] = "none"
      <4>1. summary' = [summary EXCEPT ![d] = new]
        BY <1>t, <3>1, <3>3 DEF WriteSummary
      <4>2. Lifecycle!Summarize(d)
        BY <2>1, <3>2, <3>3, <4>1 DEF Lifecycle!Summarize
      <4>3. QED
        BY <4>2 DEF Lifecycle!Next
    <3>4. CASE summary[d] # "none"
      <4>1. summary' = summary
        BY <1>t, <3>1, <3>4 DEF WriteSummary
      <4>2. QED
        BY <1>1, <2>1, <3>2, <4>1
    <3>5. QED
      BY <3>3, <3>4
  <2>4. QED
    BY <2>2, <2>3
<1>9. ASSUME NEW d \in Docs, MarkComplete(d) PROVE Goal
  <2>1. pc[d] = "summarized" /\ UNCHANGED <<project, summary, crashed>>
        /\ status' = [status EXCEPT ![d] = IF @ = "absent" THEN @ ELSE "complete"]
    BY <1>9 DEF MarkComplete, faultVars
  <2>2. CASE project
    <3>1. status[d] = "running" /\ summary[d] # "none"
      BY <2>1, <2>2 DEF LifecycleInv, WorkIsRunning, Working, CompleteInv, ProgressIsVisible
    <3>2. status' = [status EXCEPT ![d] = "complete"]
      BY <1>t, <2>1, <3>1
    <3>3. Lifecycle!Complete(d)
      BY <1>3, <2>1, <3>1, <3>2 DEF Lifecycle!Complete
    <3>4. QED
      BY <3>3 DEF Lifecycle!Next
  <2>3. CASE ~ project
    <3>1. status' = status
      BY <1>t, <2>1, <2>3
    <3>2. QED
      BY <1>1, <2>1, <3>1
  <2>4. QED
    BY <2>2, <2>3
<1>10. ASSUME NEW w \in Writers, CreateCollection(w) PROVE Goal
  <2>1. pc[w] \in {"creating", "recreating"} /\ UNCHANGED <<project, summary, crashed>>
        /\ (UNCHANGED status \/ (w \in Docs /\ Raise(w)))
    BY <1>10 DEF CreateCollection, Fail, FailReindex, faultVars
  <2>2. CASE UNCHANGED status
    BY <1>1, <2>1, <2>2
  <2>3. CASE w \in Docs /\ Raise(w) /\ pc[w] = "creating"
    BY <1>4, <2>1, <2>3 DEF Working
  <2>4. CASE w \in Docs /\ Raise(w) /\ pc[w] = "recreating"
    BY <2>4 DEF LifecycleInv, WorkIsRunning, IngestLabels
  <2>5. QED
    BY <2>1, <2>2, <2>3, <2>4
<1>11. ASSUME NEW d \in Docs, UpsertDocument(d) PROVE Goal
  <2>1. pc[d] \in Working /\ UNCHANGED <<project, summary, crashed>>
        /\ (UNCHANGED status \/ Raise(d))
    BY <1>11 DEF UpsertDocument, Working, faultVars
  <2>2. QED
    BY <1>1, <1>4, <2>1
<1>12. ASSUME NEW d \in Docs, IngestError(d) PROVE Goal
  <2>0. crashed' = (crashed \/ "error" = "crash")
    BY <1>12 DEF IngestError, Fault
  <2>1. pc[d] \in Working /\ UNCHANGED <<project, summary, crashed>> /\ Raise(d)
    BY <1>t, <1>12, <2>0 DEF IngestError
  <2>2. QED
    BY <1>4, <2>1
<1>21. ASSUME NEW d \in Docs, DatabaseError(d) PROVE Goal
  <2>a. crashed' = (crashed \/ "database" = "crash")
    BY <1>21 DEF DatabaseError, Fault
  <2>0. UNCHANGED <<project, crashed>> /\ TypeOK
    BY <1>t, <1>21, <2>a DEF DatabaseError, CompleteInv
  <2>1. CASE status'[d] = status[d] /\ summary'[d] = summary[d]
    <3>1. UNCHANGED <<status, summary>>
      BY <1>t, <1>21, <2>0, <2>1, DatabaseRows
    <3>2. QED
      BY <1>1, <2>0, <3>1
  <2>2. CASE /\ status[d] # "absent" /\ pc[d] = "taken"
             /\ status' = [status EXCEPT ![d] = "running"] /\ UNCHANGED summary
    <3>1. status[d] = "pending" \/ crashed
      BY <1>t, <2>2
    <3>2. Lifecycle!Start(d)
      BY <1>3, <2>0, <2>2, <3>1 DEF Lifecycle!Start
    <3>3. QED
      BY <3>2 DEF Lifecycle!Next
  <2>3. CASE /\ status[d] # "absent" /\ pc[d] = "indexed" /\ UNCHANGED status
             /\ summary[d] = "none" \/ UNCHANGED summary
             /\ \E new \in {"llm", "fallback"} :
                   summary[d] = "none" => summary' = [summary EXCEPT ![d] = new]
    <3>1. CASE UNCHANGED summary
      BY <1>1, <2>0, <2>3, <3>1
    <3>2. CASE summary[d] = "none"
      <4>1. PICK new \in {"llm", "fallback"} : summary' = [summary EXCEPT ![d] = new]
        BY <2>3, <3>2
      <4>2. project
        BY <1>t, <2>3
      <4>3. status[d] = "running"
        BY <2>3, <4>2 DEF LifecycleInv, WorkIsRunning, Working
      <4>4. Lifecycle!Summarize(d)
        BY <2>0, <2>3, <3>2, <4>1, <4>3 DEF Lifecycle!Summarize
      <4>5. QED
        BY <4>4 DEF Lifecycle!Next
    <3>3. QED
      BY <2>3, <3>1, <3>2
  <2>4. CASE /\ status[d] # "absent" /\ pc[d] = "summarized"
             /\ status' = [status EXCEPT ![d] = "complete"] /\ UNCHANGED summary
    <3>1. project
      BY <1>t, <2>4
    <3>2. status[d] = "running" /\ summary[d] # "none"
      BY <2>4, <3>1 DEF LifecycleInv, WorkIsRunning, Working, CompleteInv, ProgressIsVisible
    <3>3. Lifecycle!Complete(d)
      BY <1>3, <2>0, <2>4, <3>2 DEF Lifecycle!Complete
    <3>4. QED
      BY <3>3 DEF Lifecycle!Next
  <2>5. QED
    BY <1>21, <2>0, <2>1, <2>2, <2>3, <2>4, DatabaseRows
<1>13. ASSUME DeleteProject PROVE Goal
  <2>1. Lifecycle!Remove
    BY <1>13 DEF DeleteProject, faultVars, Lifecycle!Remove
  <2>2. QED
    BY <2>1 DEF Lifecycle!Next
<1>14. ASSUME NEW d \in Docs, \/ EnqueueIngest(d) \/ GrowStale(d) \/ SweepOne(d) \/ TakeIngest(d)
                               \/ ForgetResult(d) \/ ReturnIngest(d)
       PROVE  Goal
  BY <1>1, <1>14 DEF EnqueueIngest, GrowStale, SweepOne, TakeIngest, ForgetResult, ReturnIngest,
                     rowVars, faultVars
<1>15. ASSUME SelectStale \/ RequestReindex \/ ListDocuments \/ NextDocument \/ UpsertNext
       PROVE  Goal
  BY <1>1, <1>15 DEF SelectStale, RequestReindex, ListDocuments, NextDocument, UpsertNext,
                     rowVars, faultVars
<1>16. ASSUME NEW a \in Actors, CheckDrop(a) \/ DropCollection(a) \/ CheckCollection(a)
       PROVE  Goal
  BY <1>1, <1>16 DEF CheckDrop, DropCollection, CheckCollection, rowVars, faultVars
<1>17. ASSUME NEW d \in Docs, LoseRequest(d) \/ IngestTimeout(d) \/ IngestCrash(d) PROVE Goal
  BY <1>2, <1>17 DEF LoseRequest, IngestTimeout, IngestCrash, rowVars
<1>18. ASSUME LoseSweep \/ ReindexFault \/ DeleteFault PROVE Goal
  BY <1>2, <1>18 DEF LoseSweep, ReindexFault, DeleteFault, rowVars
<1>19. CASE UNCHANGED vars
  BY <1>1, <1>19 DEF vars
<1>20. QED
  BY <1>5, <1>6, <1>7, <1>8, <1>9, <1>10, <1>11, <1>12, <1>13, <1>14, <1>15, <1>16, <1>17, <1>18,
     <1>19, <1>21, TasksDiffer DEF Next, IngestStep, ReindexStep, DeleteStep, Faulty, Writers

(* The inductive invariants hold of every behaviour. *)
LEMMA LifecycleInvariant ==
  ASSUME PipelineAssumption PROVE Spec => []WorkerIsKnown /\ []LifecycleInv
<1>1. Init => WorkerIsKnown /\ SettledInv /\ LifecycleInv
  BY TasksDiffer DEF Init, WorkerIsKnown, SettledInv, LifecycleInv, WorkIsRunning, StartedOnce,
                     RunningIsInHand, Working,
                     IngestLabels
<1>2. TypeOK /\ WorkerIsKnown /\ SettledInv /\ LifecycleInv /\ [Next]_vars
        => WorkerIsKnown' /\ SettledInv' /\ LifecycleInv'
  BY StepSettled, StepLifecycle
<1>3. QED
  BY <1>1, <1>2, TypeCorrect, PTL DEF Spec

(* A RUNNING job is queued or in the hands of a worker, or it was cut off:  *)
(* its last run ended by the timeout, by an error of the database or by the *)
(* last of its tries.                                                       *)
THEOREM StrandedMeansCutOff ==
  ASSUME PipelineAssumption PROVE Spec => []RunningIsInHand
<1>1. LifecycleInv => RunningIsInHand
  BY DEF LifecycleInv
<1>2. QED
  BY <1>1, LifecycleInvariant, PTL

(* Tries are used up by faults, and only a timeout, the database or too     *)
(* many crashes cut a job off.                                              *)
LEMMA StepCutOff ==
  ASSUME PipelineAssumption, TypeOK, FaultKinds \cap {"timeout", "database"} = {},
         MaxFaults < MaxTries, \A d \in Docs : retries[d] <= faults, cutOff = {}, [Next]_vars
  PROVE  (\A d \in Docs : retries'[d] <= faults') /\ cutOff' = {}
<1> DEFINE Goal == (\A d \in Docs : retries'[d] <= faults') /\ cutOff' = {}
<1> USE DEF rowVars, reindexVars, faultVars
<1>t. /\ retries \in [Docs -> Nat] /\ faults \in 0..MaxFaults
      /\ MaxFaults \in Nat /\ MaxTries \in Nat
  BY DEF TypeOK, PipelineAssumption
<1>1. ASSUME UNCHANGED <<retries, cutOff>>, UNCHANGED faults \/ faults' = faults + 1 PROVE Goal
  BY <1>t, <1>1
<1>2. ASSUME NEW d \in Docs, TakeIngest(d) PROVE Goal
  <2>1. retries[d] < MaxTries
    BY <1>t
  <2>2. UNCHANGED <<retries, faults>> /\ cutOff' = cutOff \ {d}
    BY <1>t, <1>2, <2>1 DEF TakeIngest
  <2>3. QED
    BY <2>2
<1>3. ASSUME NEW d \in Docs, ReturnIngest(d) PROVE Goal
  <2>1. retries' = [retries EXCEPT ![d] = 0] /\ UNCHANGED <<faults, cutOff>>
    BY <1>3 DEF ReturnIngest, ResetTries
  <2>2. QED
    BY <1>t, <2>1
<1>4. ASSUME NEW d \in Docs, IngestCrash(d) PROVE Goal
  <2>1. retries' = [retries EXCEPT ![d] = @ + 1] /\ faults' = faults + 1 /\ UNCHANGED cutOff
    BY <1>4 DEF IngestCrash, Fault, CountTry
  <2>2. QED
    BY <1>t, <2>1
<1>5. ASSUME NEW d \in Docs, IngestTimeout(d) \/ DatabaseError(d) PROVE FALSE
  BY <1>5 DEF IngestTimeout, DatabaseError, Fault
<1>6. ASSUME NEW d \in Docs, LoseRequest(d) \/ IngestError(d) PROVE Goal
  BY <1>1, <1>6 DEF LoseRequest, IngestError, Fault
<1>7. ASSUME LoseSweep \/ ReindexFault \/ DeleteFault PROVE Goal
  BY <1>1, <1>7 DEF LoseSweep, ReindexFault, DeleteFault, Fault
<1>8. ASSUME NEW d \in Docs, \/ StoreDocument(d) \/ EnqueueIngest(d) \/ GrowStale(d)
                              \/ SweepOne(d) \/ ForgetResult(d)
      PROVE  Goal
  BY <1>1, <1>8 DEF StoreDocument, EnqueueIngest, GrowStale, SweepOne, ForgetResult
<1>9. ASSUME NEW d \in Docs, \/ MarkRunning(d) \/ LoadDocument(d) \/ CommitSummary(d)
                              \/ MarkComplete(d) \/ UpsertDocument(d)
      PROVE  Goal
  BY <1>1, <1>9 DEF MarkRunning, LoadDocument, CommitSummary, MarkComplete, UpsertDocument
<1>10. ASSUME NEW w \in Writers, CheckCollection(w) \/ CreateCollection(w) PROVE Goal
  BY <1>1, <1>10 DEF CheckCollection, CreateCollection
<1>11. ASSUME \/ SelectStale \/ RequestReindex \/ ListDocuments \/ NextDocument \/ UpsertNext
              \/ DeleteProject
       PROVE  Goal
  BY <1>1, <1>11 DEF SelectStale, RequestReindex, ListDocuments, NextDocument, UpsertNext,
                     DeleteProject
<1>12. ASSUME NEW a \in {Reindexer, Deleter}, CheckDrop(a) \/ DropCollection(a) PROVE Goal
  BY <1>1, <1>12 DEF CheckDrop, DropCollection
<1>13. CASE UNCHANGED vars
  BY <1>1, <1>13 DEF vars
<1>14. QED
  BY <1>2, <1>3, <1>4, <1>5, <1>6, <1>7, <1>8, <1>9, <1>10, <1>11, <1>12, <1>13
     DEF Next, IngestStep, ReindexStep, DeleteStep, Faulty, Writers

(* With no timeout, no error of the database and fewer faults than tries,   *)
(* whatever else is lost, raises or crashes, no RUNNING job is out of       *)
(* everybody's hands.                                                       *)
THEOREM NoJobIsStranded ==
  ASSUME PipelineAssumption, FaultKinds \cap {"timeout", "database"} = {},
         MaxFaults < MaxTries
  PROVE  Spec => [](\A d \in Docs : status[d] = "running" => queue[d] \in {"queued", "running"})
<1> DEFINE Tried == \A d \in Docs : retries[d] <= faults
           Uncut == cutOff = {}
           InHand == \A d \in Docs : status[d] = "running" => queue[d] \in {"queued", "running"}
<1>1. Init => Tried /\ Uncut
  BY DEF Init
<1>2. TypeOK /\ Tried /\ Uncut /\ [Next]_vars => Tried' /\ Uncut'
  BY StepCutOff
<1>3. RunningIsInHand /\ Uncut => InHand
  BY DEF RunningIsInHand
<1> HIDE DEF Tried, Uncut, InHand
<1>4. Spec => []InHand
  BY <1>1, <1>2, <1>3, TypeCorrect, StrandedMeansCutOff, PTL DEF Spec
<1>5. QED
  BY <1>4 DEF InHand

(* For any documents, faults and reindexes the rows of jobs and summaries   *)
(* move as the abstract job table and event log do.                         *)
THEOREM LifecycleRefinement ==
  ASSUME PipelineAssumption PROVE Spec => ImplementsLifecycle
<1>1. Init => Lifecycle!Init
  BY DEF Init, Lifecycle!Init
<1>2. CompleteInv /\ WorkerIsKnown /\ LifecycleInv /\ [Next]_vars
        => [Lifecycle!Next]_<<status, summary, crashed, ~ project>>
  BY StepRefines
<1>3. QED
  BY <1>1, <1>2, CompleteInvariant, LifecycleInvariant, PTL
     DEF Spec, ImplementsLifecycle, Lifecycle!Spec

-----------------------------------------------------------------------------
(* Without a fault or a reindex, only a race costs a job. *)

(* Faults and reindexes are counted, and a deleted project stays deleted:   *)
(* which steps are left while there was none of them.                       *)
LEMMA QuietSteps ==
  ASSUME PipelineAssumption, CompleteInv, Next, faults' = 0, reindexes' = 0, project'
  PROVE  /\ faults = 0 /\ reindexes = 0 /\ project /\ UNCHANGED <<faults, crashed>>
         /\ \/ SelectStale
            \/ \E d \in Docs :
                  \/ StoreDocument(d) \/ EnqueueIngest(d) \/ GrowStale(d) \/ SweepOne(d)
                  \/ ForgetResult(d) \/ TakeIngest(d) \/ IngestStep(d)
<1> USE DEF rowVars, reindexVars, faultVars
<1>t. /\ faults \in Nat /\ reindexes \in Nat
      /\ pc[Reindexer] # "idle" => reindexes > 0
      /\ pc[Deleter] # "idle" => ~ project
  BY DEF CompleteInv, TypeOK, DropsAreDue
<1>0. ASSUME NEW kind, Fault(kind) PROVE FALSE
  BY <1>0, <1>t DEF Fault
<1>1. ~ Faulty
  BY <1>0 DEF Faulty, LoseRequest, IngestError, DatabaseError, IngestTimeout, IngestCrash, LoseSweep,
              ReindexFault, DeleteFault
<1>2. ~ RequestReindex
  <2>1. SUFFICES ASSUME RequestReindex PROVE FALSE
    OBVIOUS
  <2>2. reindexes' = reindexes + 1
    BY <2>1 DEF RequestReindex
  <2>3. QED
    BY <1>t, <2>2
<1>3. ~ DeleteProject
  BY DEF DeleteProject
<1>4. ~ ReindexStep
  <2>1. SUFFICES ASSUME ReindexStep PROVE FALSE
    OBVIOUS
  <2>2. reindexes' = reindexes /\ pc[Reindexer] # "idle"
    BY <2>1 DEF ReindexStep, ListDocuments, NextDocument, CheckDrop, DropCollection,
                CheckCollection, CreateCollection, UpsertNext
  <2>3. QED
    BY <1>t, <2>2
<1>5. ~ DeleteStep
  <2>1. SUFFICES ASSUME DeleteStep PROVE FALSE
    OBVIOUS
  <2>2. project' = project /\ pc[Deleter] # "idle"
    BY <2>1 DEF DeleteStep, CheckDrop, DropCollection
  <2>3. QED
    BY <1>t, <2>2
<1>6. ASSUME SelectStale
      PROVE  UNCHANGED <<project, reindexes, faults, crashed>>
  BY <1>6 DEF SelectStale
<1>7. ASSUME NEW d \in Docs, \/ StoreDocument(d) \/ EnqueueIngest(d) \/ GrowStale(d)
                              \/ SweepOne(d) \/ ForgetResult(d) \/ TakeIngest(d)
      PROVE  UNCHANGED <<project, reindexes, faults, crashed>>
  BY <1>7 DEF StoreDocument, EnqueueIngest, GrowStale, SweepOne, ForgetResult, TakeIngest
<1>8. ASSUME NEW d \in Docs, IngestStep(d)
      PROVE  UNCHANGED <<project, reindexes, faults, crashed>>
  BY <1>8 DEF IngestStep, MarkRunning, LoadDocument, CheckCollection, CreateCollection,
              UpsertDocument, CommitSummary, MarkComplete, ReturnIngest
<1>9. QED
  BY <1>1, <1>2, <1>3, <1>4, <1>5, <1>6, <1>7, <1>8 DEF Next

LEMMA StepCollision ==
  ASSUME PipelineAssumption, CompleteInv, CompleteInv', WorkerIsKnown, LifecycleInv,
         CollisionInv, [Next]_vars
  PROVE  CollisionInv'
<1> DEFINE Filled == \E e \in Docs : e \in points \/ pc[e] = "upserting"
           Before(d) == \/ status[d] \in {"absent", "pending"}
                        \/ pc[d] \in {"running", "ensuring", "creating"}
           Collided(d) == \E e \in Docs \ {d} : e \in points \/ pc[e] = "upserting"
           Core == /\ exists => Filled
                   /\ \A d \in Docs : /\ pc[d] = "upserting" => exists
                                      /\ Before(d) => d \notin points
                                      /\ status[d] = "failed" => Collided(d)
<1>1. SUFFICES ASSUME Next PROVE CollisionInv'
  BY DEF CollisionInv, FailuresAreCollisions, vars
<1>2. CASE faults' # 0
  BY <1>2 DEF CollisionInv, FailuresAreCollisions
<1>3. CASE faults' = 0
  <2>1. ~ crashed'
    <3>1. faults \in Nat
      BY DEF CompleteInv, TypeOK
    <3>2. ASSUME NEW kind, Fault(kind) PROVE FALSE
      BY <1>3, <3>1, <3>2 DEF Fault
    <3>3. ~ Faulty
      BY <3>2 DEF Faulty, LoseRequest, IngestError, DatabaseError, IngestTimeout, IngestCrash, LoseSweep,
                  ReindexFault, DeleteFault
    <3>4. UNCHANGED <<faults, crashed>>
      BY <1>1, <3>3 DEF Next, IngestStep, ReindexStep, DeleteStep, faultVars, StoreDocument,
         EnqueueIngest, GrowStale, SweepOne, TakeIngest, ForgetResult, MarkRunning, LoadDocument,
         CheckCollection, CreateCollection, UpsertDocument, CommitSummary, MarkComplete,
         ReturnIngest, SelectStale, RequestReindex, ListDocuments, NextDocument, CheckDrop,
         DropCollection, UpsertNext, DeleteProject
    <3>5. QED
      BY <1>3, <3>4 DEF CollisionInv
  <2>2. CASE ~ project' \/ reindexes' # 0
    <3>1. ~ project' => \A d \in Docs : status'[d] # "failed"
      BY DEF CompleteInv, TypeOK
    <3>2. QED
      BY <2>1, <2>2, <3>1 DEF CollisionInv, FailuresAreCollisions
  <2>3. CASE project' /\ reindexes' = 0
    <3>q. /\ faults = 0 /\ reindexes = 0 /\ project /\ UNCHANGED <<faults, crashed>>
          /\ \/ SelectStale
             \/ \E d \in Docs :
                   \/ StoreDocument(d) \/ EnqueueIngest(d) \/ GrowStale(d) \/ SweepOne(d)
                   \/ ForgetResult(d) \/ TakeIngest(d) \/ IngestStep(d)
      BY <1>1, <1>3, <2>3, QuietSteps
    <3>c. Core
      BY <3>q DEF CollisionInv, FailuresAreCollisions
    <3>t. /\ pc \in [Actors -> Labels] /\ Docs \subseteq Actors
          /\ status \in [Docs -> {"absent", "pending", "running", "complete", "failed"}]
      BY TasksDiffer DEF CompleteInv, TypeOK
    <3>1. SUFFICES Core'
      BY <1>3, <2>1, <2>3 DEF CollisionInv, FailuresAreCollisions
    <3>2. ASSUME UNCHANGED <<exists, points>>,
                 \A d \in Docs : /\ pc'[d] = "upserting" <=> pc[d] = "upserting"
                                 /\ Before(d)' => Before(d)
                                 /\ status'[d] = "failed" => status[d] = "failed"
          PROVE  Core'
      <4>1. Filled => Filled'
        <5>1. SUFFICES ASSUME NEW e \in Docs, e \in points \/ pc[e] = "upserting"
                       PROVE  e \in points' \/ pc'[e] = "upserting"
          OBVIOUS
        <5>2. QED
          BY <3>2, <5>1
      <4>2. ASSUME NEW d \in Docs, Collided(d) PROVE Collided(d)'
        <5>1. PICK e \in Docs \ {d} : e \in points \/ pc[e] = "upserting"
          BY <4>2
        <5>2. e \in points' \/ pc'[e] = "upserting"
          BY <3>2, <5>1
        <5>3. QED
          BY <5>2
      <4>3. ASSUME NEW d \in Docs
            PROVE  /\ (pc[d] = "upserting" => exists)'
                   /\ (Before(d) => d \notin points)'
                   /\ (status[d] = "failed" => Collided(d))'
        <5>1. /\ pc[d] = "upserting" => exists
              /\ Before(d) => d \notin points
              /\ status[d] = "failed" => Collided(d)
          BY <3>c
        <5>2. /\ UNCHANGED <<exists, points>>
              /\ pc'[d] = "upserting" => pc[d] = "upserting"
              /\ Before(d)' => Before(d)
              /\ status'[d] = "failed" => status[d] = "failed"
          BY <3>2
        <5> HIDE DEF Before, Collided
        <5>3. QED
          BY <4>2, <5>1, <5>2
      <4>4. exists' => Filled'
        BY <3>2, <3>c, <4>1
      <4> HIDE DEF Filled, Before, Collided
      <4>5. QED
        BY <4>3, <4>4
    <3>3. ASSUME SelectStale PROVE Core'
      BY <3>2, <3>3 DEF SelectStale, rowVars, storeVars
    <3>4. ASSUME NEW d \in Docs, \/ StoreDocument(d) \/ EnqueueIngest(d) \/ GrowStale(d)
                                  \/ SweepOne(d) \/ ForgetResult(d)
          PROVE  Core'
      <4>1. /\ UNCHANGED <<exists, points, pc>>
            /\ UNCHANGED status \/ (status[d] = "absent" /\ status' = [status EXCEPT ![d] = "pending"])
        BY <3>4 DEF StoreDocument, EnqueueIngest, GrowStale, SweepOne, ForgetResult, rowVars,
                    storeVars, WorkerIsKnown
      <4>2. QED
        BY <3>2, <3>t, <4>1
    <3>5. ASSUME NEW d \in Docs, TakeIngest(d) PROVE Core'
      <4>1. /\ UNCHANGED <<exists, points, status>>
            /\ pc' = [pc EXCEPT ![d] = "taken"] \/ UNCHANGED pc
            /\ pc[d] = "idle"
        BY <3>5 DEF TakeIngest, Goto, rowVars, storeVars, WorkerIsKnown
      <4>2. QED
        BY <3>2, <3>t, <4>1
    <3>6. ASSUME NEW d \in Docs, MarkRunning(d) PROVE Core'
      <4>1. UNCHANGED <<exists, points>> /\ pc[d] = "taken"
        BY <3>6 DEF MarkRunning, storeVars
      <4>2. status[d] \in {"absent", "pending"}
        BY <2>1, <3>q, <3>t, <4>1 DEF LifecycleInv, StartedOnce
      <4>3. \/ status' = [status EXCEPT ![d] = "running"] /\ pc' = [pc EXCEPT ![d] = "running"]
            \/ status' = status /\ pc' = [pc EXCEPT ![d] = "returned"]
        BY <3>6, <3>t, <4>2 DEF MarkRunning, Raise, Goto
      <4>4. QED
        BY <3>2, <3>t, <4>1, <4>2, <4>3
    <3>7. ASSUME NEW d \in Docs, LoadDocument(d) PROVE Core'
      <4>1. /\ UNCHANGED <<exists, points, status>> /\ pc[d] = "running"
            /\ pc' = [pc EXCEPT ![d] = "ensuring"]
        BY <3>7, <3>q DEF LoadDocument, Goto, storeVars
      <4>2. QED
        BY <3>2, <3>t, <4>1
    <3>8. ASSUME NEW d \in Docs, CheckCollection(d) PROVE Core'
      <4>1. /\ UNCHANGED <<exists, points, status>> /\ pc[d] = "ensuring"
            /\ pc' = [pc EXCEPT ![d] = IF exists THEN "upserting" ELSE "creating"]
        BY <3>8 DEF CheckCollection, Goto, rowVars, storeVars, LifecycleInv, WorkIsRunning,
                    IngestLabels
      <4>2. \A e \in Docs : e # d => pc'[e] = pc[e]
        BY <3>t, <4>1
      <4>3. pc'[d] = IF exists THEN "upserting" ELSE "creating"
        BY <3>t, <4>1
      <4>4. Before(d) /\ d \notin points
        BY <3>c, <4>1
      <4>5. (exists => Filled)'
        BY <3>c, <4>1, <4>2
      <4>6. ASSUME NEW e \in Docs
            PROVE  (pc[e] = "upserting" => exists)' /\ (Before(e) => e \notin points)'
        BY <3>c, <4>1, <4>2, <4>3, <4>4
      <4>7. ASSUME NEW e \in Docs, status'[e] = "failed" PROVE Collided(e)'
        BY <3>c, <4>1, <4>2, <4>7
      <4>8. QED
        BY <4>5, <4>6, <4>7
    <3>9. ASSUME NEW d \in Docs, CreateCollection(d) PROVE Core'
      <4>1. UNCHANGED points /\ pc[d] = "creating"
        BY <3>9 DEF CreateCollection, LifecycleInv, WorkIsRunning, IngestLabels
      <4>2. Before(d) /\ d \notin points
        BY <3>c, <4>1
      <4>3. CASE ~ exists
        <5>1. UNCHANGED status /\ pc' = [pc EXCEPT ![d] = "upserting"] /\ exists'
          BY <3>9, <4>1, <4>3 DEF CreateCollection, Goto
        <5>2. pc'[d] = "upserting" /\ \A e \in Docs : e # d => pc'[e] = pc[e]
          BY <3>t, <5>1
        <5>3. QED
          BY <3>c, <4>1, <4>2, <5>1, <5>2
      <4>4. CASE exists
        <5>1. /\ UNCHANGED exists /\ pc' = [pc EXCEPT ![d] = "returned"]
              /\ status' = [status EXCEPT ![d] = IF @ = "absent" THEN @ ELSE "failed"]
          BY <3>9, <4>4, TasksDiffer DEF CreateCollection, Fail, Raise, Goto
        <5>2. PICK e \in Docs : e \in points \/ pc[e] = "upserting"
          BY <3>c, <4>4
        <5>3. e # d
          BY <4>1, <4>2, <5>2
        <5>4. pc'[d] = "returned" /\ \A f \in Docs : f # d => pc'[f] = pc[f] /\ status'[f] = status[f]
          BY <3>t, <5>1
        <5>5. Collided(d)' /\ (exists => Filled)'
          BY <4>1, <5>2, <5>3, <5>4
        <5>6. ASSUME NEW f \in Docs, status'[f] = "failed" PROVE Collided(f)'
          <6>1. CASE f = d
            BY <5>5, <6>1
          <6>2. CASE f # d
            <7>1. status[f] = "failed"
              BY <5>4, <5>6, <6>2
            <7>2. PICK g \in Docs \ {f} : g \in points \/ pc[g] = "upserting"
              BY <3>c, <7>1
            <7>3. g # d
              BY <4>1, <4>2, <7>2
            <7>4. QED
              BY <4>1, <5>4, <7>2, <7>3
          <6>3. QED
            BY <6>1, <6>2
        <5>7. ASSUME NEW f \in Docs
              PROVE  (pc[f] = "upserting" => exists)' /\ (Before(f) => f \notin points)'
          BY <3>c, <4>1, <4>2, <5>1, <5>4
        <5>8. QED
          BY <5>5, <5>6, <5>7
      <4>5. QED
        BY <4>3, <4>4
    <3>10. ASSUME NEW d \in Docs, UpsertDocument(d) PROVE Core'
      <4>1. pc[d] = "upserting" /\ exists /\ status[d] = "running"
        BY <3>10, <3>c, <3>q DEF UpsertDocument, LifecycleInv, WorkIsRunning, Working
      <4>2. /\ UNCHANGED <<exists, status>> /\ points' = points \cup {d}
            /\ pc' = [pc EXCEPT ![d] = "indexed"]
        BY <3>10, <4>1 DEF UpsertDocument, Goto
      <4>3. pc'[d] = "indexed" /\ \A e \in Docs : e # d => pc'[e] = pc[e]
        BY <3>t, <4>2
      <4>4. \A e \in Docs : (e \in points \/ pc[e] = "upserting")
                             => (e \in points' \/ pc'[e] = "upserting")
        BY <4>2, <4>3
      <4>5. \A e \in Docs : /\ pc'[e] = "upserting" => exists'
                            /\ Before(e)' => e \notin points'
        BY <3>c, <4>1, <4>2, <4>3
      <4>6. QED
        BY <3>c, <4>2, <4>4, <4>5
    <3>11. ASSUME NEW d \in Docs, CommitSummary(d) PROVE Core'
      <4>1. /\ UNCHANGED <<exists, points, status>> /\ pc[d] = "indexed"
            /\ pc' = [pc EXCEPT ![d] = "summarized"]
        BY <3>11, <3>q DEF CommitSummary, Goto, storeVars
      <4>2. QED
        BY <3>2, <3>t, <4>1
    <3>12. ASSUME NEW d \in Docs, MarkComplete(d) PROVE Core'
      <4>1. /\ UNCHANGED <<exists, points>> /\ pc[d] = "summarized"
            /\ pc' = [pc EXCEPT ![d] = "returned"]
            /\ status' = [status EXCEPT ![d] = IF @ = "absent" THEN @ ELSE "complete"]
        BY <3>12 DEF MarkComplete, Goto, storeVars
      <4>2. QED
        BY <3>2, <3>t, <4>1
    <3>13. ASSUME NEW d \in Docs, ReturnIngest(d) PROVE Core'
      <4>1. /\ UNCHANGED <<exists, points, status>> /\ pc[d] = "returned"
            /\ pc' = [pc EXCEPT ![d] = "idle"]
        BY <3>13 DEF ReturnIngest, Goto, rowVars, storeVars
      <4>2. QED
        BY <3>2, <3>t, <4>1
    <3>14. QED
      BY <3>q, <3>3, <3>4, <3>5, <3>6, <3>7, <3>8, <3>9, <3>10, <3>11, <3>12, <3>13
         DEF IngestStep
  <2>4. QED
    BY <2>2, <2>3
<1>4. QED
  BY <1>2, <1>3

(* Without a fault or a reindex a job fails only by losing the race to      *)
(* create the collection to another one, which goes on with it.             *)
THEOREM OnlyCollisionsFail ==
  ASSUME PipelineAssumption PROVE Spec => []FailuresAreCollisions
<1>1. Init => CollisionInv
  BY TasksDiffer DEF Init, CollisionInv, FailuresAreCollisions
<1>2. CompleteInv /\ CompleteInv' /\ WorkerIsKnown /\ LifecycleInv /\ CollisionInv /\ [Next]_vars
        => CollisionInv'
  BY StepCollision
<1>3. CollisionInv => FailuresAreCollisions
  BY DEF CollisionInv
<1>4. QED
  BY <1>1, <1>2, <1>3, CompleteInvariant, LifecycleInvariant, PTL DEF Spec

(* In particular a project whose documents are ingested one at a time, one  *)
(* in all to take the extreme, never sees a job fail by itself.             *)
COROLLARY AloneNeverFails ==
  ASSUME PipelineAssumption, MaxReindexes = 0, \A d, e \in Docs : d = e
  PROVE  Spec => []OnlyFaultsFail
<1>1. TypeOK /\ FailuresAreCollisions => OnlyFaultsFail
  <2> SUFFICES ASSUME TypeOK, FailuresAreCollisions, NEW d \in Docs, status[d] = "failed",
                      ~ (faults > 0)
               PROVE  FALSE
    BY DEF OnlyFaultsFail
  <2>1. faults = 0 /\ reindexes = 0
    BY DEF TypeOK
  <2>2. QED
    BY <2>1 DEF FailuresAreCollisions
<1>2. QED
  BY <1>1, TypeCorrect, OnlyCollisionsFail, PTL
=============================================================================
