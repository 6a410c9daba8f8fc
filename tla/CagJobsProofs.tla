---------------------------- MODULE CagJobsProofs ----------------------------
(* Theorems about CagJobs, for all values of its constants. *)
EXTENDS CagJobs, TLAPS

-----------------------------------------------------------------------------
(* Lemmas about the operators. *)

LEMMA MinOfTwo ==
  ASSUME NEW a \in Nat, NEW b \in Nat
  PROVE  Min({a, b}) = IF a <= b THEN a ELSE b
<1>1. CASE a <= b
  <2>1. a \in {a, b} /\ \A y \in {a, b} : a <= y
    BY <1>1
  <2>2. \A x \in {a, b} : (\A y \in {a, b} : x <= y) => x = a
    BY <1>1
  <2>3. QED
    BY <1>1, <2>1, <2>2 DEF Min
<1>2. CASE ~ (a <= b)
  <2>1. b \in {a, b} /\ \A y \in {a, b} : b <= y
    BY <1>2
  <2>2. \A x \in {a, b} : (\A y \in {a, b} : x <= y) => x = b
    BY <1>2
  <2>3. QED
    BY <1>2, <2>1, <2>2 DEF Min
<1>3. QED
  BY <1>1, <1>2

(* A window starts at a version. *)
LEMMA WindowStartRange ==
  ASSUME TypeOK, NEW j \in Jobs
  PROVE  WindowStart(j) \in 0..covered
<1>1. covered \in Nat /\ fullUpTo \in 0..covered
  BY DEF TypeOK
<1>2. CASE j = "update"
  BY <1>1, <1>2 DEF WindowStart
<1>3. CASE j # "update"
  BY <1>1, <1>3 DEF WindowStart, Jobs
<1>4. QED
  BY <1>2, <1>3

(* A window that is not empty ends behind its start, and no job's ends      *)
(* before what is covered already.                                          *)
LEMMA WindowEndRange ==
  ASSUME TypeOK, JobsAssumption, NEW j \in Jobs, WindowStart(j) < usable
  PROVE  /\ WindowEnd(j) \in 1..usable
         /\ WindowEnd(j) >= covered
<1>1. usable \in Nat /\ covered \in 0..usable /\ BatchSize \in Nat \ {0}
  BY DEF TypeOK, JobsAssumption
<1>2. WindowStart(j) \in 0..covered
  BY WindowStartRange
<1>3. CASE j = "update"
  <2>1. WindowStart(j) = covered
    BY <1>3 DEF WindowStart
  <2>2. WindowEnd(j) = Min({usable, covered + BatchSize})
    BY <1>3, <2>1 DEF WindowEnd
  <2>3. WindowEnd(j) = IF usable <= covered + BatchSize THEN usable ELSE covered + BatchSize
    BY <1>1, <2>2, MinOfTwo
  <2>4. QED
    BY <1>1, <2>1, <2>3
<1>4. CASE j # "update"
  <2>1. WindowEnd(j) = usable
    BY <1>4 DEF WindowEnd
  <2>2. QED
    BY <1>1, <1>2, <2>1
<1>5. QED
  BY <1>3, <1>4

(* What arq knows of a job stays one of the four. *)
LEMMA QueueType ==
  ASSUME queue \in [Jobs -> JobStatus], NEW j \in Jobs
  PROVE  /\ Enqueue(queue, j) \in [Jobs -> JobStatus]
         /\ Take(queue, j) \in [Jobs -> JobStatus]
         /\ Finish(queue, j) \in [Jobs -> JobStatus]
         /\ Finish(Enqueue(queue, "update"), j) \in [Jobs -> JobStatus]
         /\ Interrupt(queue, j) \in [Jobs -> JobStatus]
         /\ Forget(queue, j) \in [Jobs -> JobStatus]
BY DEF JobStatus, Enqueue, Take, Finish, Interrupt, Forget, Jobs

(* Every try that is used up has cost a fault. *)
LEMMA RetriesType ==
  ASSUME NEW n \in Nat, retries \in [Jobs -> 0..n], NEW j \in Jobs
  PROVE  /\ ResetTries(retries, j) \in [Jobs -> 0..n]
         /\ ResetTries(retries, j) \in [Jobs -> 0..(n + 1)]
         /\ CountTry(retries, j) \in [Jobs -> 0..(n + 1)]
         /\ retries \in [Jobs -> 0..(n + 1)]
BY DEF ResetTries, CountTry

(* A request neither starts nor ends a job. *)
LEMMA EnqueueKeepsRunning ==
  ASSUME queue \in [Jobs -> JobStatus], NEW j \in Jobs, NEW k \in Jobs
  PROVE  Enqueue(queue, k)[j] = "running" <=> queue[j] = "running"
BY DEF Enqueue

-----------------------------------------------------------------------------
(* The coverage invariant. *)

LEMMA CoverageInit == JobsAssumption /\ Init => CoverageInv
BY DEF JobsAssumption, Init, CoverageInv, TypeOK, WorkerIsKnown, LockIsHeld, TargetsAhead, Jobs,
       Modes, NoJob, JobStatus

(* A step of an ingest, of a cron or of an admin touches neither the lock   *)
(* nor the versions, and no job starts or ends by it.                       *)
LEMMA CoverageElsewhere ==
  ASSUME CoverageInv, TypeOK', UNCHANGED <<run, target, lock, covered, fullUpTo>>,
         \A j \in Jobs : queue'[j] = "running" <=> queue[j] = "running"
  PROVE  CoverageInv' /\ covered' >= covered /\ fullUpTo' >= fullUpTo
BY DEF CoverageInv, WorkerIsKnown, LockIsHeld, TargetsAhead, TypeOK

LEMMA CoverageStep ==
  ASSUME JobsAssumption, CoverageInv, [Next]_vars
  PROVE  CoverageInv' /\ covered' >= covered /\ fullUpTo' >= fullUpTo
<1> USE DEF CoverageInv
<1>t. /\ usable \in Nat /\ covered \in 0..usable /\ fullUpTo \in 0..covered
      /\ left \in 0..usable /\ requests \in 0..MaxRequests /\ faults \in 0..MaxFaults
      /\ MaxRequests \in Nat /\ MaxFaults \in Nat
      /\ queue \in [Jobs -> JobStatus] /\ "update" \in Jobs /\ "rebuild" \in Jobs
      /\ retries \in [Jobs -> 0..faults] /\ faults \in Nat /\ MaxTries \in Nat
  BY DEF TypeOK, JobsAssumption, Jobs
<1>1. ASSUME NEW d \in Docs, CommitSummary(d) PROVE CoverageInv' /\ covered' >= covered /\ fullUpTo' >= fullUpTo
  <2>1. usable' \in Nat /\ usable' >= usable
    BY <1>1, <1>t DEF CommitSummary
  <2>2. TypeOK'
    BY <1>1, <1>t, <2>1 DEF CommitSummary, TypeOK, jobVars
  <2>3. QED
    BY <1>1, <2>2, CoverageElsewhere DEF CommitSummary, jobVars
<1>2. ASSUME NEW d \in Docs, ReadWatermark(d) PROVE CoverageInv' /\ covered' >= covered /\ fullUpTo' >= fullUpTo
  <2>1. TypeOK'
    BY <1>2, <1>t DEF ReadWatermark, TypeOK, jobVars
  <2>2. QED
    BY <1>2, <2>1, CoverageElsewhere DEF ReadWatermark, jobVars
<1>3. ASSUME NEW d \in Docs, CountPending(d) PROVE CoverageInv' /\ covered' >= covered /\ fullUpTo' >= fullUpTo
  <2>1. TypeOK'
    BY <1>3, <1>t DEF CountPending, TypeOK, jobVars
  <2>2. QED
    BY <1>3, <2>1, CoverageElsewhere DEF CountPending, jobVars
<1>4. ASSUME NEW d \in Docs, EnqueueUpdate(d) PROVE CoverageInv' /\ covered' >= covered /\ fullUpTo' >= fullUpTo
  <2>1. queue' \in [Jobs -> JobStatus]
    BY <1>4, <1>t, QueueType DEF EnqueueUpdate
  <2>2. TypeOK'
    BY <1>4, <2>1 DEF EnqueueUpdate, TypeOK, jobVars
  <2>3. \A j \in Jobs : queue'[j] = "running" <=> queue[j] = "running"
    BY <1>4, <1>t, EnqueueKeepsRunning DEF EnqueueUpdate
  <2>4. QED
    BY <1>4, <2>2, <2>3, CoverageElsewhere DEF EnqueueUpdate, jobVars
<1>5. ASSUME NEW d \in Docs, IngestFault(d) PROVE CoverageInv' /\ covered' >= covered /\ fullUpTo' >= fullUpTo
  <2>1. faults' \in 0..MaxFaults /\ retries' \in [Jobs -> 0..faults']
    <3>1. \A j \in Jobs : retries[j] \in 0..(faults + 1)
      BY <1>t
    <3>2. retries' = retries /\ faults' = faults + 1 /\ faults < MaxFaults
      BY <1>5 DEF IngestFault, jobVars
    <3>3. QED
      BY <1>t, <3>1, <3>2
  <2>2. TypeOK'
    BY <1>5, <1>t, <2>1 DEF IngestFault, TypeOK, jobVars
  <2>3. QED
    BY <1>5, <2>2, CoverageElsewhere DEF IngestFault, jobVars
<1>6. ASSUME NEW j \in Jobs, StartJob(j) PROVE CoverageInv' /\ covered' >= covered /\ fullUpTo' >= fullUpTo
  <2>1. /\ queue' \in [Jobs -> JobStatus]
        /\ \/ queue' = [queue EXCEPT ![j] = "running"] /\ run' = [run EXCEPT ![j] = "started"]
           \/ queue' = [queue EXCEPT ![j] = "kept"] /\ run' = run
    BY <1>6, <1>t, QueueType DEF StartJob, Take, Finish
  <2>2. TypeOK'
    <3>1. retries' = retries \/ retries' = ResetTries(retries, j)
      BY <1>6 DEF StartJob
    <3>2. retries' \in [Jobs -> 0..faults]
      BY <1>t, <3>1, RetriesType
    <3>3. QED
      BY <1>6, <2>1, <3>2 DEF StartJob, TypeOK, ingestVars
  <2>3. run[j] = "none"
    BY <1>6 DEF StartJob, WorkerIsKnown, TypeOK
  <2>4. WorkerIsKnown' /\ LockIsHeld' /\ TargetsAhead'
    BY <1>6, <2>1, <2>3 DEF StartJob, WorkerIsKnown, LockIsHeld, TargetsAhead, TypeOK
  <2>5. QED
    BY <1>6, <1>t, <2>2, <2>4 DEF StartJob
<1>7. ASSUME NEW j \in Jobs, ReadWindow(j) PROVE CoverageInv' /\ covered' >= covered /\ fullUpTo' >= fullUpTo
  <2>1. run[j] = "started" /\ lock = NoJob /\ UNCHANGED <<ingestVars, mode, covered, fullUpTo, requests, faults>>
    BY <1>7 DEF ReadWindow, LockFree
  <2>2. CASE /\ queue' = Finish(queue, j)
             /\ retries' = ResetTries(retries, j)
             /\ run' = [run EXCEPT ![j] = "none"]
             /\ UNCHANGED <<target, left, lock>>
    <3>1. /\ queue' \in [Jobs -> JobStatus] /\ queue' = [queue EXCEPT ![j] = "kept"]
          /\ retries' \in [Jobs -> 0..faults]
      BY <2>2, <1>t, QueueType, RetriesType DEF Finish
    <3>2. TypeOK'
      BY <2>1, <2>2, <3>1 DEF TypeOK, ingestVars
    <3>3. WorkerIsKnown' /\ LockIsHeld' /\ TargetsAhead'
      BY <2>1, <2>2, <3>1 DEF WorkerIsKnown, LockIsHeld, TargetsAhead, TypeOK
    <3>4. QED
      BY <1>t, <2>1, <3>2, <3>3
  <2>3. CASE /\ WindowStart(j) < usable
             /\ lock' = j
             /\ run' = [run EXCEPT ![j] = "synthesizing"]
             /\ target' = [target EXCEPT ![j] = WindowEnd(j)]
             /\ left' = IF j = "update" THEN usable - WindowEnd(j) ELSE left
             /\ UNCHANGED <<queue, retries>>
    <3>1. WindowEnd(j) \in 1..usable /\ WindowEnd(j) >= covered
      BY <2>3, WindowEndRange
    <3>2. left' \in 0..usable
      BY <2>3, <1>t, <3>1
    <3>3. TypeOK'
      BY <2>1, <2>3, <3>1, <3>2 DEF TypeOK, ingestVars
    <3>4. \A k \in Jobs : k # j => run[k] # "synthesizing"
      BY <2>1 DEF LockIsHeld, NoJob, Jobs
    <3>5. WorkerIsKnown' /\ LockIsHeld' /\ TargetsAhead'
      BY <1>t, <2>1, <2>3, <3>1, <3>4 DEF WorkerIsKnown, LockIsHeld, TargetsAhead, TypeOK
    <3>6. QED
      BY <1>t, <2>1, <3>3, <3>5
  <2>4. QED
    BY <1>7, <2>2, <2>3 DEF ReadWindow
<1>8. ASSUME NEW j \in Jobs, CommitVersion(j) PROVE CoverageInv' /\ covered' >= covered /\ fullUpTo' >= fullUpTo
  <2>1. target[j] \in 1..usable /\ target[j] >= covered /\ lock = j
    BY <1>8, <1>t DEF CommitVersion, LockIsHeld, TargetsAhead, TypeOK
  <2>2. covered' \in 0..usable /\ covered' >= covered /\ fullUpTo' \in 0..covered' /\ fullUpTo' >= fullUpTo
    BY <1>8, <1>t, <2>1 DEF CommitVersion
  <2>3. TypeOK'
    BY <1>8, <1>t, <2>2 DEF CommitVersion, TypeOK, ingestVars
  <2>4. \A k \in Jobs : run'[k] # "synthesizing"
    BY <1>8, <2>1 DEF CommitVersion, LockIsHeld, TypeOK
  <2>5. WorkerIsKnown' /\ LockIsHeld' /\ TargetsAhead'
    BY <1>8, <2>4 DEF CommitVersion, WorkerIsKnown, LockIsHeld, TargetsAhead, TypeOK, NoJob, Jobs
  <2>6. QED
    BY <2>2, <2>3, <2>5
<1>9. ASSUME NEW j \in Jobs, FinishJob(j) PROVE CoverageInv' /\ covered' >= covered /\ fullUpTo' >= fullUpTo
  <2>1. queue' \in [Jobs -> JobStatus] /\ retries' \in [Jobs -> 0..faults]
    BY <1>9, <1>t, QueueType, RetriesType DEF FinishJob
  <2>2. queue'[j] # "running" /\ \A k \in Jobs : k # j => (queue'[k] = "running" <=> queue[k] = "running")
    BY <1>9, <1>t DEF FinishJob, Finish, Enqueue
  <2>3. left' \in 0..usable
    BY <1>9, <1>t DEF FinishJob
  <2>4. TypeOK'
    BY <1>9, <2>1, <2>3 DEF FinishJob, TypeOK, ingestVars
  <2>5. WorkerIsKnown' /\ LockIsHeld' /\ TargetsAhead'
    BY <1>9, <2>2 DEF FinishJob, WorkerIsKnown, LockIsHeld, TargetsAhead, TypeOK
  <2>6. QED
    BY <1>9, <1>t, <2>4, <2>5 DEF FinishJob
<1>10. ASSUME NEW j \in Jobs, JobFault(j) PROVE CoverageInv' /\ covered' >= covered /\ fullUpTo' >= fullUpTo
  <2>1. queue' \in [Jobs -> JobStatus] /\ retries' \in [Jobs -> 0..faults']
    <3>1. faults' = faults + 1 /\ (retries' = ResetTries(retries, j) \/ retries' = CountTry(retries, j))
      BY <1>10 DEF JobFault
    <3>2. retries' \in [Jobs -> 0..(faults + 1)]
      BY <1>t, <3>1, RetriesType
    <3>3. QED
      BY <1>10, <1>t, <3>1, <3>2, QueueType DEF JobFault
  <2>2. queue'[j] # "running" /\ \A k \in Jobs : k # j => queue'[k] = queue[k]
    BY <1>10, <1>t DEF JobFault, Finish, Interrupt
  <2>3. left' \in 0..usable /\ faults' \in 0..MaxFaults
    BY <1>10, <1>t DEF JobFault
  <2>4. TypeOK'
    <3>1. run' \in [Jobs -> {"none", "started", "synthesizing", "committed"}]
      BY <1>10 DEF JobFault, TypeOK
    <3>2. target' \in [Jobs -> 0..usable]
      BY <1>10, <1>t DEF JobFault, TypeOK
    <3>3. lock' \in Jobs \cup {NoJob}
      BY <1>10 DEF JobFault, TypeOK
    <3>4. UNCHANGED <<ingest, usable, seen, mode, covered, fullUpTo, requests>>
      BY <1>10 DEF JobFault, ingestVars
    <3>5. QED
      BY <2>1, <2>3, <3>1, <3>2, <3>3, <3>4 DEF TypeOK
  <2>5. WorkerIsKnown'
    BY <1>10, <2>2 DEF JobFault, WorkerIsKnown, TypeOK
  <2>6. LockIsHeld'
    BY <1>10 DEF JobFault, LockIsHeld, TypeOK, NoJob, Jobs
  <2>7. TargetsAhead'
    BY <1>10 DEF JobFault, TargetsAhead, TypeOK
  <2>8. QED
    BY <1>10, <1>t, <2>4, <2>5, <2>6, <2>7 DEF JobFault
<1>11. ASSUME NEW j \in Jobs, ExpireResult(j) PROVE CoverageInv' /\ covered' >= covered /\ fullUpTo' >= fullUpTo
  <2>1. queue' \in [Jobs -> JobStatus]
    BY <1>11, <1>t, QueueType DEF ExpireResult
  <2>2. \A k \in Jobs : queue'[k] = "running" <=> queue[k] = "running"
    BY <1>11, <1>t DEF ExpireResult, Forget
  <2>3. TypeOK'
    BY <1>11, <2>1 DEF ExpireResult, TypeOK, ingestVars, jobVars
  <2>4. QED
    BY <1>11, <2>2, <2>3, CoverageElsewhere DEF ExpireResult, jobVars
<1>12. ASSUME NEW m \in Modes, EnqueueRebuild(m) PROVE
         /\ queue' \in [Jobs -> JobStatus]
         /\ mode' \in Modes
         /\ \A k \in Jobs : queue'[k] = "running" <=> queue[k] = "running"
  BY <1>12, <1>t, QueueType, EnqueueKeepsRunning DEF EnqueueRebuild, TypeOK
<1>13. ASSUME WeeklyRebuild PROVE CoverageInv' /\ covered' >= covered /\ fullUpTo' >= fullUpTo
  <2>1. "compaction" \in Modes /\ EnqueueRebuild("compaction")
    BY <1>13 DEF WeeklyRebuild, Modes
  <2>2. TypeOK'
    BY <1>12, <1>13, <2>1 DEF WeeklyRebuild, TypeOK, ingestVars, jobVars
  <2>3. QED
    BY <1>12, <1>13, <2>1, <2>2, CoverageElsewhere DEF WeeklyRebuild, jobVars
<1>14. ASSUME NEW m \in Modes, RequestRebuild(m) PROVE CoverageInv' /\ covered' >= covered /\ fullUpTo' >= fullUpTo
  <2>1. EnqueueRebuild(m) /\ requests' \in 0..MaxRequests
    BY <1>14, <1>t DEF RequestRebuild
  <2>2. TypeOK'
    BY <1>12, <1>14, <2>1 DEF RequestRebuild, TypeOK, ingestVars, jobVars
  <2>3. QED
    BY <1>12, <1>14, <2>1, <2>2, CoverageElsewhere DEF RequestRebuild, jobVars
<1>15. CASE UNCHANGED vars
  BY <1>15, <1>t DEF vars, TypeOK, WorkerIsKnown, LockIsHeld, TargetsAhead
<1>16. QED
  BY <1>1, <1>2, <1>3, <1>4, <1>5, <1>6, <1>7, <1>8, <1>9, <1>10, <1>11, <1>13, <1>14, <1>15
     DEF Next

LEMMA Coverage == ASSUME JobsAssumption PROVE Spec => []CoverageInv
<1>1. Init => CoverageInv
  BY CoverageInit
<1>2. CoverageInv /\ [Next]_vars => CoverageInv'
  BY CoverageStep
<1>3. QED
  BY <1>1, <1>2, PTL DEF Spec

(* Every variable keeps its type; in particular no full version is ahead of *)
(* the latest one and no version ahead of the log.                          *)
THEOREM TypeCorrect == ASSUME JobsAssumption PROVE Spec => []TypeOK
<1>1. CoverageInv => TypeOK
  BY DEF CoverageInv
<1>2. QED
  BY <1>1, Coverage, PTL

(* No committed version covers less than the one before it, whatever the    *)
(* batch size, the threshold and the faults.                                *)
THEOREM CoverageIsMonotone == ASSUME JobsAssumption PROVE Spec => CoverageNeverShrinks
<1>1. CoverageInv /\ [Next]_vars => [covered' >= covered /\ fullUpTo' >= fullUpTo]_vars
  BY CoverageStep
<1>2. QED
  BY <1>1, Coverage, PTL DEF Spec, CoverageNeverShrinks

-----------------------------------------------------------------------------
(* The trigger invariant. *)

LEMMA TriggerInit == JobsAssumption /\ Init => TriggerInv
BY DEF JobsAssumption, Init, TriggerInv, TriggersAreDue, UpdatesDeliver, FirstVersionIsComing, Jobs

(* A step that touches neither the ingests nor the updates. *)
LEMMA TriggerElsewhere ==
  ASSUME TriggerInv, UNCHANGED <<ingestVars, covered, faults>>,
         queue'["update"] = queue["update"],
         \A j \in Jobs : run'[j] = "committed" => run[j] = "committed"
  PROVE  TriggerInv'
BY DEF TriggerInv, TriggersAreDue, UpdatesDeliver, FirstVersionIsComing, ingestVars

LEMMA TriggerStep ==
  ASSUME JobsAssumption, CoverageInv, TriggerInv, [Next]_vars
  PROVE  TriggerInv'
<1> USE DEF TriggerInv
<1>t. /\ TypeOK /\ WorkerIsKnown /\ LockIsHeld /\ TargetsAhead
      /\ usable \in Nat /\ covered \in 0..usable /\ faults \in Nat /\ MaxFaults \in Nat
      /\ queue \in [Jobs -> JobStatus] /\ run \in [Jobs -> {"none", "started", "synthesizing", "committed"}]
      /\ ingest \in [Docs -> {"indexing", "committed", "counting", "triggering", "done"}]
      /\ seen \in [Docs -> 0..usable]
      /\ "update" \in Jobs /\ "rebuild" \in Jobs
  BY DEF CoverageInv, TypeOK, JobsAssumption, Jobs
<1>1. ASSUME NEW d \in Docs, CommitSummary(d) PROVE TriggerInv'
  <2>1. /\ usable' \in Nat /\ usable' >= usable /\ UNCHANGED <<seen, queue, run, covered, faults>>
        /\ ingest'[d] = "committed" /\ \A e \in Docs : e # d => ingest'[e] = ingest[e]
    BY <1>1, <1>t DEF CommitSummary, jobVars
  <2>2. TriggersAreDue'
    BY <1>t, <2>1 DEF TriggersAreDue
  <2>3. UpdatesDeliver' /\ FirstVersionIsComing'
    BY <2>1 DEF UpdatesDeliver, FirstVersionIsComing
  <2>4. QED
    BY <2>2, <2>3
<1>2. ASSUME NEW d \in Docs, ReadWatermark(d) PROVE TriggerInv'
  <2>1. /\ UNCHANGED <<usable, queue, run, covered, faults>>
        /\ ingest'[d] = "counting" /\ \A e \in Docs : e # d => ingest'[e] = ingest[e]
        /\ seen'[d] = covered /\ \A e \in Docs : e # d => seen'[e] = seen[e]
    BY <1>2, <1>t DEF ReadWatermark, jobVars
  <2>2. TriggersAreDue'
    BY <1>t, <2>1 DEF TriggersAreDue
  <2>3. UpdatesDeliver' /\ FirstVersionIsComing'
    BY <2>1 DEF UpdatesDeliver, FirstVersionIsComing
  <2>4. QED
    BY <2>2, <2>3
<1>3. ASSUME NEW d \in Docs, CountPending(d) PROVE TriggerInv'
  <2>1. /\ UNCHANGED <<usable, queue, run, covered, faults>>
        /\ ingest'[d] = IF ShouldEnqueue(seen[d], usable - seen[d]) THEN "triggering" ELSE "done"
        /\ \A e \in Docs : e # d => ingest'[e] = ingest[e]
        /\ seen'[d] = 0 /\ \A e \in Docs : e # d => seen'[e] = seen[e]
    BY <1>3, <1>t DEF CountPending, jobVars
  <2>2. ShouldEnqueue(seen[d], usable - seen[d]) => usable > 0
    BY <1>t DEF ShouldEnqueue, JobsAssumption
  <2>3. TriggersAreDue'
    BY <1>t, <2>1, <2>2 DEF TriggersAreDue
  <2>4. UpdatesDeliver'
    BY <2>1 DEF UpdatesDeliver
  <2>5. covered = 0 /\ usable > 0 => ShouldEnqueue(seen[d], usable - seen[d])
    BY <1>t DEF TriggersAreDue, ShouldEnqueue
  <2>6. FirstVersionIsComing'
    BY <2>1, <2>5 DEF FirstVersionIsComing
  <2>7. QED
    BY <2>3, <2>4, <2>6
<1>4. ASSUME NEW d \in Docs, EnqueueUpdate(d) PROVE TriggerInv'
  <2>1. /\ UNCHANGED <<usable, seen, run, covered, faults>>
        /\ ingest[d] = "triggering"
        /\ ingest'[d] = "done" /\ \A e \in Docs : e # d => ingest'[e] = ingest[e]
        /\ queue'["update"] = IF queue["update"] = "absent" THEN "queued" ELSE queue["update"]
    BY <1>4, <1>t DEF EnqueueUpdate, Enqueue, jobVars
  <2>2. TriggersAreDue'
    BY <1>t, <2>1 DEF TriggersAreDue
  <2>3. UpdatesDeliver'
    BY <2>1 DEF UpdatesDeliver
  <2>4. FirstVersionIsComing'
    BY <1>t, <2>1 DEF FirstVersionIsComing, UpdatesDeliver, JobStatus
  <2>5. QED
    BY <2>2, <2>3, <2>4
<1>5. ASSUME NEW d \in Docs, IngestFault(d) PROVE TriggerInv'
  <2>1. /\ UNCHANGED <<usable, queue, run, covered>> /\ faults' = faults + 1
        /\ ingest'[d] # "triggering" /\ \A e \in Docs : e # d => ingest'[e] = ingest[e]
        /\ seen'[d] = 0 /\ \A e \in Docs : e # d => seen'[e] = seen[e]
    BY <1>5, <1>t DEF IngestFault, jobVars
  <2>2. TriggersAreDue'
    BY <1>t, <2>1 DEF TriggersAreDue
  <2>3. UpdatesDeliver' /\ FirstVersionIsComing'
    BY <1>t, <2>1 DEF UpdatesDeliver, FirstVersionIsComing
  <2>4. QED
    BY <2>2, <2>3
<1>6. ASSUME NEW j \in Jobs, StartJob(j) PROVE TriggerInv'
  <2>1. /\ UNCHANGED <<ingest, usable, seen, covered, faults>>
        /\ queue[j] = "queued"
        /\ \A k \in Jobs : k # j => queue'[k] = queue[k]
        /\ \A k \in Jobs : run'[k] = "committed" => run[k] = "committed"
        /\ queue'[j] = "running" \/ (queue'[j] = "kept" /\ faults > 0)
    <3>1. retries[j] \in 0..faults /\ MaxTries \in Nat \ {0}
      BY <1>t DEF TypeOK, JobsAssumption
    <3>2. CASE retries[j] < MaxTries /\ queue' = Take(queue, j) /\ run' = [run EXCEPT ![j] = "started"]
      <4>1. queue' = [queue EXCEPT ![j] = "running"] /\ run' = [run EXCEPT ![j] = "started"]
        BY <3>2 DEF Take
      <4>2. /\ queue'[j] = "running" /\ \A k \in Jobs : k # j => queue'[k] = queue[k]
            /\ \A k \in Jobs : run'[k] = "committed" => run[k] = "committed"
        BY <1>t, <4>1
      <4>3. queue[j] = "queued" /\ UNCHANGED <<ingest, usable, seen, covered, faults>>
        BY <1>6 DEF StartJob, ingestVars
      <4>4. QED
        BY <4>2, <4>3
    <3>3. CASE retries[j] >= MaxTries /\ queue' = Finish(queue, j) /\ UNCHANGED run
      <4>1. faults > 0
        BY <1>t, <3>1, <3>3
      <4>2. queue'[j] = "kept" /\ \A k \in Jobs : k # j => queue'[k] = queue[k]
        BY <1>t, <3>3 DEF Finish
      <4>3. run' = run /\ queue[j] = "queued" /\ UNCHANGED <<ingest, usable, seen, covered, faults>>
        BY <1>6, <3>3 DEF StartJob, ingestVars
      <4>4. QED
        BY <4>1, <4>2, <4>3
    <3>4. QED
      BY <1>6, <3>2, <3>3 DEF StartJob
  <2>2. TriggersAreDue' /\ UpdatesDeliver' /\ FirstVersionIsComing'
    BY <1>t, <2>1 DEF TriggersAreDue, UpdatesDeliver, FirstVersionIsComing
  <2>3. QED
    BY <2>2
<1>7. ASSUME NEW j \in Jobs, ReadWindow(j) PROVE TriggerInv'
  <2>1. /\ UNCHANGED <<ingest, usable, seen, covered, faults>> /\ UNCHANGED ingestVars
        /\ run[j] = "started" /\ run'[j] # "committed"
        /\ \A k \in Jobs : k # j => run'[k] = run[k]
    BY <1>7, <1>t DEF ReadWindow, ingestVars
  <2>2. CASE j = "update" /\ WindowStart(j) = usable /\ queue' = Finish(queue, j)
    <3>1. covered = usable /\ queue'["update"] = "kept" /\ queue["update"] = "running"
      BY <1>t, <2>1, <2>2 DEF WindowStart, Finish, WorkerIsKnown
    <3>2. TriggersAreDue' /\ UpdatesDeliver' /\ FirstVersionIsComing'
      BY <1>t, <2>1, <3>1 DEF TriggersAreDue, UpdatesDeliver, FirstVersionIsComing
    <3>3. QED
      BY <3>2
  <2>3. CASE ~ (j = "update" /\ WindowStart(j) = usable /\ queue' = Finish(queue, j))
    <3>1. queue'["update"] = queue["update"]
      BY <1>7, <1>t, <2>3 DEF ReadWindow, Finish
    <3>2. QED
      BY <2>1, <3>1, TriggerElsewhere
  <2>4. QED
    BY <2>2, <2>3
<1>8. ASSUME NEW j \in Jobs, CommitVersion(j) PROVE TriggerInv'
  <2>1. target[j] \in 1..usable /\ target[j] >= covered
    BY <1>8, <1>t DEF CommitVersion, TargetsAhead, TypeOK
  <2>2. UNCHANGED <<ingest, usable, seen, queue, faults>> /\ covered' = target[j]
    BY <1>8 DEF CommitVersion, ingestVars
  <2>3. TriggersAreDue' /\ UpdatesDeliver' /\ FirstVersionIsComing'
    BY <1>t, <2>1, <2>2 DEF TriggersAreDue, UpdatesDeliver, FirstVersionIsComing
  <2>4. QED
    BY <2>3
<1>9. ASSUME NEW j \in Jobs, FinishJob(j) PROVE TriggerInv'
  <2>1. /\ UNCHANGED <<ingest, usable, seen, covered, faults>> /\ run[j] = "committed"
        /\ run'[j] = "none" /\ \A k \in Jobs : k # j => run'[k] = run[k]
    BY <1>9, <1>t DEF FinishJob, ingestVars
  <2>2. covered > 0
    BY <2>1 DEF UpdatesDeliver
  <2>3. TriggersAreDue' /\ UpdatesDeliver' /\ FirstVersionIsComing'
    BY <1>t, <2>1, <2>2 DEF TriggersAreDue, UpdatesDeliver, FirstVersionIsComing
  <2>4. QED
    BY <2>3
<1>10. ASSUME NEW j \in Jobs, JobFault(j) PROVE TriggerInv'
  <2>1. /\ UNCHANGED <<ingest, usable, seen, covered>> /\ faults' = faults + 1
        /\ run[j] # "none" /\ run'[j] = "none" /\ \A k \in Jobs : k # j => run'[k] = run[k]
    BY <1>10, <1>t DEF JobFault, ingestVars
  <2>2. queue[j] = "running" /\ \A k \in Jobs : k # j => queue'[k] = queue[k]
    BY <1>10, <1>t DEF JobFault, Finish, Interrupt, WorkerIsKnown
  <2>3. TriggersAreDue' /\ UpdatesDeliver' /\ FirstVersionIsComing'
    BY <1>t, <2>1, <2>2 DEF TriggersAreDue, UpdatesDeliver, FirstVersionIsComing
  <2>4. QED
    BY <2>3
<1>11. ASSUME NEW j \in Jobs, ExpireResult(j) PROVE TriggerInv'
  <2>1. /\ UNCHANGED <<ingest, usable, seen, run, covered, faults>>
        /\ queue[j] = "kept" /\ queue'[j] = "absent"
        /\ \A k \in Jobs : k # j => queue'[k] = queue[k]
    BY <1>11, <1>t DEF ExpireResult, Forget, ingestVars, jobVars
  <2>2. TriggersAreDue' /\ UpdatesDeliver' /\ FirstVersionIsComing'
    BY <1>t, <2>1 DEF TriggersAreDue, UpdatesDeliver, FirstVersionIsComing
  <2>3. QED
    BY <2>2
<1>12. ASSUME NEW m \in Modes, EnqueueRebuild(m), UNCHANGED <<ingestVars, jobVars, faults>>
       PROVE  TriggerInv'
  <2>1. queue'["update"] = queue["update"]
    BY <1>12, <1>t DEF EnqueueRebuild, Enqueue
  <2>2. QED
    BY <1>12, <2>1, TriggerElsewhere DEF jobVars
<1>13. ASSUME WeeklyRebuild PROVE TriggerInv'
  BY <1>12, <1>13 DEF WeeklyRebuild, Modes
<1>14. ASSUME NEW m \in Modes, RequestRebuild(m) PROVE TriggerInv'
  BY <1>12, <1>14 DEF RequestRebuild
<1>15. CASE UNCHANGED vars
  BY <1>15, TriggerElsewhere DEF vars, ingestVars
<1>16. QED
  BY <1>1, <1>2, <1>3, <1>4, <1>5, <1>6, <1>7, <1>8, <1>9, <1>10, <1>11, <1>13, <1>14, <1>15
     DEF Next

(* The wake-up of the first version is not lost, for any number of ingests: *)
(* while a project has a usable summary and no version, an ingest is on its *)
(* way to the threshold check or an update is queued or running, unless a   *)
(* fault took it away.                                                      *)
THEOREM FirstVersionComes == ASSUME JobsAssumption PROVE Spec => []FirstVersionIsComing
<1>1. Init => TriggerInv
  BY TriggerInit
<1>2. CoverageInv /\ TriggerInv /\ [Next]_vars => TriggerInv'
  BY TriggerStep
<1>3. TriggerInv => FirstVersionIsComing
  BY DEF TriggerInv
<1>4. QED
  BY <1>1, <1>2, <1>3, Coverage, PTL DEF Spec

-----------------------------------------------------------------------------
(* The counters behave as those of Coverage. *)

(* The window of an update that has something to do is a batch at most. *)
LEMMA UpdateWindow ==
  ASSUME JobsAssumption, TypeOK, WindowStart("update") < usable
  PROVE  covered < WindowEnd("update") /\ WindowEnd("update") <= covered + BatchSize
<1>1. usable \in Nat /\ covered \in Nat /\ BatchSize \in Nat \ {0}
  BY DEF TypeOK, JobsAssumption
<1>2. WindowStart("update") = covered
  BY DEF WindowStart
<1>3. WindowEnd("update") = Min({usable, covered + BatchSize})
  BY <1>2 DEF WindowEnd
<1>4. WindowEnd("update") = IF usable <= covered + BatchSize THEN usable
                                                             ELSE covered + BatchSize
  BY <1>1, <1>3, MinOfTwo
<1>5. QED
  BY <1>1, <1>2, <1>4

LEMMA BatchInit == Init => UpdateIsABatch
BY DEF Init, UpdateIsABatch, Jobs

LEMMA BatchStep ==
  ASSUME JobsAssumption, CoverageInv, UpdateIsABatch, [Next]_vars
  PROVE  UpdateIsABatch'
<1> USE DEF CoverageInv
<1>1. ASSUME UNCHANGED <<target, covered>>,
             run'["update"] = "synthesizing" => run["update"] = "synthesizing"
      PROVE  UpdateIsABatch'
  BY <1>1 DEF UpdateIsABatch
<1>2. ASSUME run'["update"] # "synthesizing" PROVE UpdateIsABatch'
  BY <1>2 DEF UpdateIsABatch
<1>3. ASSUME UNCHANGED jobVars PROVE UpdateIsABatch'
  BY <1>1, <1>3 DEF jobVars
<1>4. ASSUME NEW j \in Jobs, StartJob(j) \/ FinishJob(j) PROVE UpdateIsABatch'
  <2>1. UNCHANGED <<target, covered>>
    BY <1>4 DEF StartJob, FinishJob
  <2>2. run'["update"] = "synthesizing" => run["update"] = "synthesizing"
    BY <1>4 DEF StartJob, FinishJob, TypeOK, Jobs
  <2>3. QED
    BY <1>1, <2>1, <2>2
<1>5. ASSUME NEW j \in Jobs, ReadWindow(j) PROVE UpdateIsABatch'
  <2>1. UNCHANGED covered
    BY <1>5 DEF ReadWindow
  <2>2. CASE run' = [run EXCEPT ![j] = "none"] /\ UNCHANGED target
    BY <1>1, <2>1, <2>2 DEF TypeOK
  <2>3. CASE /\ WindowStart(j) < usable
             /\ run' = [run EXCEPT ![j] = "synthesizing"]
             /\ target' = [target EXCEPT ![j] = WindowEnd(j)]
    <3>1. CASE j = "update"
      <4>1. target'["update"] = WindowEnd("update")
        BY <2>3, <3>1 DEF TypeOK
      <4>2. QED
        BY <2>1, <2>3, <3>1, <4>1, UpdateWindow DEF UpdateIsABatch
    <3>2. CASE j # "update"
      BY <2>1, <2>3, <3>2 DEF UpdateIsABatch, TypeOK
    <3>3. QED
      BY <3>1, <3>2
  <2>4. QED
    BY <1>5, <2>2, <2>3 DEF ReadWindow
<1>6. ASSUME NEW j \in Jobs, CommitVersion(j) PROVE UpdateIsABatch'
  <2>1. run'["update"] # "synthesizing"
    BY <1>6 DEF CommitVersion, LockIsHeld, TypeOK, Jobs
  <2>2. QED
    BY <1>2, <2>1
<1>7. ASSUME NEW j \in Jobs, JobFault(j) PROVE UpdateIsABatch'
  <2>1. covered' = covered /\ run' = [run EXCEPT ![j] = "none"]
        /\ target' = [target EXCEPT ![j] = 0]
    BY <1>7 DEF JobFault
  <2>2. QED
    BY <2>1 DEF UpdateIsABatch, TypeOK
<1>8. UNCHANGED jobVars \/ \E j \in Jobs : \/ StartJob(j) \/ FinishJob(j) \/ ReadWindow(j)
                                            \/ CommitVersion(j) \/ JobFault(j)
  BY DEF Next, vars, jobVars, CommitSummary, ReadWatermark, CountPending, EnqueueUpdate,
         IngestFault, ExpireResult, WeeklyRebuild, RequestRebuild
<1>9. QED
  BY <1>3, <1>4, <1>5, <1>6, <1>7, <1>8

(* A version adds to the counters what was pending. *)
LEMMA CommitFolds ==
  ASSUME JobsAssumption, CoverageInv, UpdateIsABatch, NEW j \in Jobs, CommitVersion(j)
  PROVE  Covers!Update \/ Covers!Rebuild
<1> DEFINE k == target[j] - covered
<1>1. /\ usable \in Nat /\ covered \in 0..usable /\ BatchSize \in Nat
      /\ target[j] \in 1..usable /\ target[j] >= covered
  BY DEF CommitVersion, CoverageInv, TargetsAhead, TypeOK, JobsAssumption
<1>2. covered' = target[j] /\ usable' = usable
      /\ fullUpTo' = IF j = "rebuild" THEN target[j] ELSE fullUpTo
  BY DEF CommitVersion, ingestVars
<1>3. Covers!Fold(k) /\ k \in 0..(usable - covered)
  BY <1>1, <1>2 DEF Covers!Fold
<1>4. CASE j = "update"
  <2>1. k \in 1..(usable - covered) /\ k <= BatchSize
    BY <1>1, <1>4 DEF CommitVersion, UpdateIsABatch
  <2>2. QED
    BY <1>2, <1>3, <1>4, <2>1 DEF Covers!Update
<1>5. CASE j = "rebuild"
  BY <1>1, <1>2, <1>3, <1>5 DEF Covers!Rebuild
<1>6. QED
  BY <1>4, <1>5 DEF Jobs

(* The jobs, their triggers and their faults move the counters as the       *)
(* versions of CAGService do (CoverageRefinement of CAGServiceProofs), for  *)
(* every batch size and threshold.                                          *)
THEOREM CoverageRefinement == ASSUME JobsAssumption PROVE Spec => ImplementsCoverage
<1> DEFINE counters == <<usable - covered, covered, fullUpTo>>
           CoverageNext == Covers!Append \/ Covers!Update \/ Covers!Rebuild
<1>1. Init => Covers!Init
  BY DEF Init, Covers!Init
<1>2. CoverageInv /\ UpdateIsABatch /\ [Next]_vars => [CoverageNext]_counters
  <2> SUFFICES ASSUME CoverageInv, UpdateIsABatch, [Next]_vars
               PROVE  CoverageNext \/ UNCHANGED counters
    OBVIOUS
  <2>1. ASSUME UNCHANGED <<usable, covered, fullUpTo>> PROVE UNCHANGED counters
    BY <2>1
  <2>2. ASSUME NEW d \in Docs, CommitSummary(d) PROVE CoverageNext \/ UNCHANGED counters
    <3>1. usable \in Nat /\ covered \in Nat
      BY DEF CoverageInv, TypeOK
    <3>2. UNCHANGED <<covered, fullUpTo>> /\ (usable' = usable \/ usable' = usable + 1)
      BY <2>2 DEF CommitSummary, jobVars
    <3>3. QED
      BY <3>1, <3>2 DEF Covers!Append
  <2>3. ASSUME NEW j \in Jobs, CommitVersion(j) PROVE CoverageNext
    BY <2>3, CommitFolds
  <2>4. \/ UNCHANGED <<usable, covered, fullUpTo>>
        \/ \E d \in Docs : CommitSummary(d)
        \/ \E j \in Jobs : CommitVersion(j)
    BY DEF Next, vars, ingestVars, jobVars, ReadWatermark, CountPending, EnqueueUpdate,
           IngestFault, StartJob, ReadWindow, FinishJob, JobFault, ExpireResult,
           WeeklyRebuild, RequestRebuild
  <2>5. QED
    BY <2>1, <2>2, <2>3, <2>4
<1>3. Spec => []UpdateIsABatch
  <2>1. CoverageInv /\ UpdateIsABatch /\ [Next]_vars => UpdateIsABatch'
    BY BatchStep
  <2>2. QED
    BY <2>1, BatchInit, Coverage, PTL DEF Spec
<1>4. QED
  BY <1>1, <1>2, <1>3, Coverage, PTL DEF Spec, ImplementsCoverage, Covers!Spec
=============================================================================
