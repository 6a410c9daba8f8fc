---------------------------- MODULE EvalRunProofs ----------------------------
(* Theorems about EvalRun, for every corpus, every number of questions, any *)
(* scores and any chunking: what a run leaves behind, what it compares, and *)
(* who gets which score.                                                    *)
EXTENDS EvalRun, ChunkerProofs, MapReduceProofs, FiniteSetTheorems, WellFoundedInduction

-----------------------------------------------------------------------------
(* The inductive invariant. *)

Early == {"setup", "ingest", "chunk", "upsert", "summarize", "rebuild", "rebuilding"}
Answering == {"cag", "rag", "judge", "write"}
Leaving == {"drop collection", "drop rows", "report"}

(* Who holds the lock, and what its holder reduces: the run all that is     *)
(* usable, from nothing.                                                    *)
LockInv ==
  /\ lock = "run" <=> phase = "rebuilding"
  /\ lock = "cron" <=> cron = "holding"
  /\ lock # "free" => Len(window) = summaries
  /\ lock = "run" => ~accumulated /\ window \in InOrder(Usable)

(* The run and the cron write a version each. *)
VersionInv ==
  /\ phase \in Early /\ cron # "over" => belief.version = 0
  /\ phase \in Early \/ cron # "over" => belief.version <= 1
  /\ belief.version = 0 => belief = NoVersion

RowsLeft == rows \/ belief # NoVersion \/ (\E d \in Documents : summed[d] # "none")
PointsLeft == collection \/ indexed # {}

(* A run that does not know its project has left nothing but rows; one that *)
(* knows it does not end but by the teardown.                               *)
KnownInv ==
  /\ phase \in (Early \ {"setup"}) \cup Answering \cup Leaving => known
  /\ phase = "setup" => ~known /\ ~rows
  /\ ~known =>
        /\ ~PointsLeft
        /\ belief = NoVersion
        /\ \A d \in Documents : summed[d] = "none"
        /\ rows => "setup" \in leaks
        /\ cron # "holding"

LeftInv ==
  /\ phase \in {"report", "raised", "finished"} => (RowsLeft => leaks \cap {"setup", "rows"} # {})
  /\ phase \in {"drop rows", "report", "raised", "finished"} =>
        (PointsLeft => "collection" \in leaks)

(* Once the questions are asked the cron finds nothing new. *)
BeliefInv ==
  /\ phase \in Early => results = <<>>
  /\ phase \in Answering => cron # "holding"
  /\ phase \in {"rag", "judge"} => cag.version = belief.version
  /\ OneBeliefState

ArmsInv ==
  /\ phase \in {"cag", "rag", "judge"} => Len(results) < Questions
  /\ phase = "rag" => cache[Question] = {cag.chunks}
  /\ phase = "judge" => cag.chunks = rag.chunks /\ rag.version = 0

(* A whole file, and a report, are of all questions. *)
FileInv ==
  /\ phase = "write" => Len(results) = Questions
  /\ phase \in {"report", "finished"} => file = "whole"
  /\ file = "whole" /\ phase # "killed" =>
        phase \in {"drop collection", "drop rows", "report", "finished"} /\ Len(results) = Questions
  /\ report # NoReport => phase = "finished"

(* What the mock's judge gives where there is a belief state. *)
MockGave(scores) ==
  IF Axis = "conflict_handling" THEN scores.cag = 3 /\ scores.rag = 3
                                ELSE scores.cag = 4 /\ scores.rag = 2

(* The report and the calibration both find out which score is whose. *)
ScoresInv ==
  /\ Len(given) = Len(results)
  /\ \A i \in 1..Len(results) :
        /\ given[i] = Unblinded(results[i]) /\ given[i] = JudgeGrades(results[i])
        /\ mock /\ results[i].version # 0 => MockGave(given[i])
  /\ ScoresReachTheirArm

EvalInv ==
  /\ EvalTypeOK
  /\ ChunkerInv /\ ReduceInv
  /\ LockInv /\ VersionInv
  /\ KnownInv /\ LeftInv
  /\ BeliefInv /\ ArmsInv
  /\ FileInv /\ ScoresInv

-----------------------------------------------------------------------------
(* Lemmas about windows, watermarks and what a version covers. *)

LEMMA CorpusBounds ==
  /\ Corpus \in Nat /\ Corpus >= 1 /\ Corpus <= MaxSummaries /\ MaxSummaries \in Nat
  /\ Questions \in Nat /\ Questions >= 1
BY EvalAssumption, ReduceAssumption DEF EvalAssumption, ReduceAssumption

(* A window is a sequence of exactly the documents it was made of. *)
LEMMA WindowOfDocs ==
  ASSUME NEW docs \in SUBSET Documents, NEW w \in InOrder(docs)
  PROVE  /\ Cardinality(docs) \in 0..MaxSummaries
         /\ w \in Seq(Documents) /\ Len(w) = Cardinality(docs)
         /\ {w[i] : i \in 1..Cardinality(docs)} = docs
<1> DEFINE n == Cardinality(docs)
<1>1. IsFiniteSet(docs) /\ n \in Nat /\ n <= Corpus
  <2>1. IsFiniteSet(1..Corpus) /\ Cardinality(1..Corpus) = Corpus
    BY CorpusBounds, FS_Interval
  <2>2. IsFiniteSet(docs) /\ n <= Corpus
    BY <2>1, FS_Subset DEF Documents
  <2>3. QED
    BY <2>2, FS_CardinalityType
<1>2. w \in [1..n -> docs] /\ \A i, j \in 1..n : i < j => w[i] # w[j]
  BY DEF InOrder
<1>3. IsFiniteSet(1..n) /\ Cardinality(1..n) = n
  BY <1>1, FS_Interval
<1> HIDE DEF n
<1>4. w \in Injection(1..n, docs)
  <2>1. \A i, j \in 1..n : w[i] = w[j] => i = j
    BY <1>1, <1>2
  <2>2. QED
    BY <1>2, <2>1 DEF Injection, IsInjective
<1>5. w \in Surjection(1..n, docs)
  BY <1>1, <1>3, <1>4, FS_Injection DEF n
<1>6. {w[i] : i \in 1..n} = docs
  BY <1>2, <1>5 DEF Surjection
<1>7. w \in Seq(Documents) /\ Len(w) = n
  BY <1>1, <1>2
<1>8. QED
  BY <1>1, <1>6, <1>7, CorpusBounds DEF n

LEMMA GreatestOf ==
  ASSUME NEW S \in SUBSET Nat, S # {}, NEW u \in Nat, \A x \in S : x <= u
  PROVE  Max(S) \in S /\ \A x \in S : x <= Max(S)
<1> DEFINE T == {k \in Nat : \A x \in S : x <= k}
<1>1. PICK k \in T : \A j \in T : ~ (<<j, k>> \in OpToRel(<, Nat))
  <2>1. T \subseteq Nat /\ T # {}
    OBVIOUS
  <2>2. QED
    BY <2>1, WFMin, NatLessThanWellFounded
<1>2. \A j \in T : ~ (j < k)
  BY <1>1 DEF OpToRel
<1>3. k \in S
  <2>1. SUFFICES ASSUME k \notin S PROVE FALSE
    OBVIOUS
  <2>2. \A x \in S : x <= k - 1
    BY <2>1
  <2>3. k - 1 \in Nat
    <3>1. PICK x \in S : x <= k - 1
      BY <2>2
    <3>2. QED
      BY <3>1
  <2>4. QED
    BY <1>2, <2>2, <2>3
<1>4. \A x \in S : k >= x
  OBVIOUS
<1>5. QED
  BY <1>3, <1>4 DEF Max

LEMMA CreatedAtType == \A d \in Documents : CreatedAt(d) \in 0..Corpus
BY CorpusBounds DEF CreatedAt, Documents

(* A version that covers all that is usable leaves the cron nothing. *)
LEMMA NothingNew ==
  ASSUME Usable \subseteq belief.covers, belief.covers \in SUBSET Documents,
         belief.version = 0 => belief = NoVersion
  PROVE  SinceWatermark = {}
<1>1. CASE belief.version = 0
  <2>1. belief.covers = {}
    BY <1>1 DEF NoVersion
  <2>2. QED
    BY <1>1, <2>1 DEF SinceWatermark
<1>2. CASE belief.version # 0
  <2> DEFINE S == {CreatedAt(d) : d \in belief.covers}
  <2>1. SUFFICES ASSUME NEW d \in Usable, CreatedAt(d) > Watermark
                 PROVE  FALSE
    BY <1>2 DEF SinceWatermark
  <2>2. S \in SUBSET Nat /\ \A x \in S : x <= Corpus
    BY CreatedAtType, CorpusBounds
  <2>3. CreatedAt(d) \in S
    BY <2>1
  <2>4. Max(S) \in S /\ CreatedAt(d) <= Max(S)
    <3> HIDE DEF S
    <3>1. QED
      BY <2>2, <2>3, CorpusBounds, GreatestOf
  <2>5. CreatedAt(d) \in Nat /\ Max(S) \in Nat
    BY <2>2, <2>3, <2>4
  <2>6. QED
    BY <2>1, <2>4, <2>5 DEF Watermark
<1>3. QED
  BY <1>1, <1>2

LEMMA UsableType == Usable \in SUBSET Documents /\ SinceWatermark \in SUBSET Usable
BY DEF Usable, SinceWatermark

LEMMA CoveredType ==
  ASSUME EvalTypeOK, ReduceInv, LockInv, lock # "free", reducing = "reduced"
  PROVE  Covered \in SUBSET Documents
<1>1. level = <<GoneInto>> /\ summaries \in Nat /\ Len(window) = summaries
  BY ReduceAssumption DEF ReduceInv, ReduceTypeOK, LockInv, ReduceAssumption
<1>2. level[1] = GoneInto
  BY <1>1
<1>3. \A i \in level[1] \ {0} : i \in 1..Len(window)
  BY <1>1, <1>2 DEF GoneInto
<1>4. window \in Seq(Documents) /\ belief.covers \in SUBSET Documents
  BY DEF EvalTypeOK
<1>5. \A i \in 1..Len(window) : window[i] \in Documents
  BY <1>4
<1>6. QED
  BY <1>3, <1>4, <1>5 DEF Covered

(* What the run's own version covers. *)
LEMMA CoveredByRun ==
  ASSUME EvalTypeOK, ReduceInv, LockInv, lock = "run", reducing = "reduced"
  PROVE  Covered = Usable
<1>1. /\ level = <<GoneInto>> /\ summaries \in Nat /\ Len(window) = summaries
      /\ ~accumulated /\ window \in InOrder(Usable)
  BY ReduceAssumption DEF ReduceInv, ReduceTypeOK, LockInv, ReduceAssumption
<1>2. level[1] = 1..summaries
  BY <1>1 DEF GoneInto
<1>3. Cardinality(Usable) = summaries /\ {window[i] : i \in 1..Cardinality(Usable)} = Usable
  BY <1>1, UsableType, WindowOfDocs
<1>4. level[1] \ {0} = 1..summaries /\ 0 \notin level[1]
  BY <1>1, <1>2
<1>5. QED
  BY <1>3, <1>4 DEF Covered

-----------------------------------------------------------------------------
(* The loops of the chunker and of the reduction keep their invariants in   *)
(* the steps of the evaluation, too.                                        *)

LEMMA ChunkerKept ==
  ASSUME ChunkerInv, [EvalNext]_evalVars
  PROVE  ChunkerInv'
<1>1. CASE ChunkDocument
  <2>1. ChunkSize \in Sizes /\ ChunkOverlap \in Overlaps /\ "naive" \in Strategies
    BY EvalAssumption DEF EvalAssumption, Strategies
  <2>2. PICK n \in Lengths : CallChunker(n, ChunkSize, ChunkOverlap, "naive")
    BY <1>1 DEF ChunkDocument
  <2>3. QED
    BY <2>1, <2>2, ChunkerAssumption, CallChunkerKeepsInv
<1>2. CASE ChunkLoop
  <2>1. ChunkerStep \/ UNCHANGED chunkerVars
    BY <1>2 DEF ChunkLoop
  <2>2. QED
    BY <2>1, ChunkerAssumption, ChunkerInvStep DEF ChunkerNext
<1>3. CASE UpsertDocument
  BY <1>3, ChunkingGoneGivesInv DEF UpsertDocument, TakeChunks
<1>4. CASE Killed
  BY <1>4, ChunkingGoneGivesInv DEF Killed
<1>5. CASE SetupProject
  BY <1>5, ChunkerAssumption, ChunkerInvStep DEF SetupProject, evalVars
<1>6. CASE SummarizeDocument
  BY <1>6, ChunkerAssumption, ChunkerInvStep DEF SummarizeDocument, evalVars
<1>7. CASE StartRebuild
  BY <1>7, ChunkerAssumption, ChunkerInvStep DEF StartRebuild, evalVars
<1>8. CASE FinishRebuild
  BY <1>8, ChunkerAssumption, ChunkerInvStep DEF FinishRebuild, evalVars
<1>9. CASE CagArm
  BY <1>9, ChunkerAssumption, ChunkerInvStep DEF CagArm, evalVars
<1>10. CASE RagArm
  BY <1>10, ChunkerAssumption, ChunkerInvStep DEF RagArm, evalVars
<1>11. CASE JudgeValid
  BY <1>11, ChunkerAssumption, ChunkerInvStep DEF JudgeValid, evalVars
<1>12. CASE JudgeFails
  BY <1>12, ChunkerAssumption, ChunkerInvStep DEF JudgeFails, evalVars
<1>13. CASE WriteResults
  BY <1>13, ChunkerAssumption, ChunkerInvStep DEF WriteResults, evalVars
<1>14. CASE DropCollection
  BY <1>14, ChunkerAssumption, ChunkerInvStep DEF DropCollection, evalVars
<1>15. CASE DropRows
  BY <1>15, ChunkerAssumption, ChunkerInvStep DEF DropRows, evalVars
<1>16. CASE WriteReport
  BY <1>16, ChunkerAssumption, ChunkerInvStep DEF WriteReport, evalVars
<1>17. CASE Reducing
  BY <1>17, ChunkerAssumption, ChunkerInvStep DEF Reducing, evalVars
<1>18. CASE CronStarts
  BY <1>18, ChunkerAssumption, ChunkerInvStep DEF CronStarts, evalVars
<1>19. CASE CronFinishes
  BY <1>19, ChunkerAssumption, ChunkerInvStep DEF CronFinishes, evalVars
<1>20. CASE UNCHANGED evalVars
  BY <1>20, ChunkerAssumption, ChunkerInvStep DEF evalVars
<1>21. QED
  BY <1>1, <1>2, <1>3, <1>4, <1>5, <1>6, <1>7, <1>8, <1>9, <1>10, <1>11, <1>12, <1>13, <1>14,
     <1>15, <1>16, <1>17, <1>18, <1>19, <1>20 DEF EvalNext, Run

(* The steps of the evaluation are steps of the reduction, of which a kill  *)
(* may make an end at any time.                                            *)
LEMMA ReductionMoves ==
  ASSUME [EvalNext]_evalVars
  PROVE  [ReduceNext]_reduceVars \/ ReductionGone
<1>1. CASE StartRebuild
  <2>1. CASE Reduce("run", RunsWindow, FALSE)
    <3>1. PICK w \in InOrder(RunsWindow) : TRUE
      BY <2>1 DEF Reduce
    <3>2. Cardinality(RunsWindow) \in 0..MaxSummaries
      BY <3>1, UsableType, WindowOfDocs DEF RunsWindow, WholeLog
    <3>3. QED
      BY <2>1, <3>2 DEF Reduce, ReduceNext
  <2>2. QED
    BY <1>1, <2>1 DEF StartRebuild
<1>2. CASE CronStarts
  <2>1. CASE Reduce("cron", SinceWatermark, belief.version # 0)
    <3>1. PICK w \in InOrder(SinceWatermark) : TRUE
      BY <2>1 DEF Reduce
    <3>2. Cardinality(SinceWatermark) \in 0..MaxSummaries
      BY <3>1, UsableType, WindowOfDocs
    <3>3. (belief.version # 0) \in BOOLEAN
      OBVIOUS
    <3>4. QED
      BY <2>1, <3>2, <3>3 DEF Reduce, ReduceNext
  <2>2. QED
    BY <1>2, <2>1 DEF CronStarts
<1>3. CASE FinishRebuild \/ CronFinishes
  BY <1>3 DEF FinishRebuild, CronFinishes, Release, ReduceNext
<1>4. CASE Reducing
  BY <1>4 DEF Reducing, ReduceStep, ReduceNext
<1>5. CASE Killed
  BY <1>5 DEF Killed
<1>6. CASE UNCHANGED evalVars
  BY <1>6 DEF evalVars, rebuildVars
<1>7. CASE SetupProject \/ ChunkDocument \/ ChunkLoop \/ UpsertDocument \/ SummarizeDocument
  BY <1>7 DEF SetupProject, ChunkDocument, ChunkLoop, UpsertDocument, SummarizeDocument,
              rebuildVars
<1>8. CASE CagArm \/ RagArm \/ JudgeValid \/ JudgeFails
  BY <1>8 DEF CagArm, RagArm, JudgeValid, JudgeFails, rebuildVars
<1>9. CASE WriteResults \/ DropCollection \/ DropRows \/ WriteReport
  BY <1>9 DEF WriteResults, DropCollection, DropRows, WriteReport, rebuildVars
<1>10. QED
  BY <1>1, <1>2, <1>3, <1>4, <1>5, <1>6, <1>7, <1>8, <1>9 DEF EvalNext, Run

LEMMA ReduceKept ==
  ASSUME ReduceInv, [EvalNext]_evalVars
  PROVE  ReduceInv'
BY ReductionMoves, ReduceAssumption, ReduceInvStep, ReductionGoneGivesInv

-----------------------------------------------------------------------------
(* Type correctness, by groups of variables. *)

ControlTypes ==
  /\ mock \in BOOLEAN /\ known \in BOOLEAN /\ rows \in BOOLEAN
  /\ phase \in Phases /\ doc \in Documents /\ parses \in 0..1
  /\ file \in {"none", "earlier", "partial", "whole"}
  /\ report.judged \in {0, Questions}
  /\ leaks \in SUBSET {"setup", "collection", "rows"}

ProjectTypes ==
  /\ summed \in [Documents -> {"none", "fallback", "usable"}]
  /\ belief \in [version : 0..2, covers : SUBSET Documents]
  /\ collection \in BOOLEAN
  /\ indexed \in SUBSET Documents

RebuildTypes ==
  /\ lock \in {"free", "run", "cron"}
  /\ window \in Seq(Documents)
  /\ cron \in {"due", "holding", "over"}

Answers == [chunks : SUBSET Documents, version : 0..2, tokens : {"none", "cag", "rag"}]

ArmTypes ==
  /\ cache \in [1..Questions -> SUBSET SUBSET Documents]
  /\ spy \in {"none", "cag", "rag"}
  /\ cag \in Answers /\ rag \in Answers

ResultTypes ==
  /\ results \in Seq([first : {"cag", "rag"}, scores : Scores \X Scores, version : 0..2])
  /\ given \in Seq([{"cag", "rag"} -> Scores])

LEMMA TypesByGroup ==
  ChunkerTypeOK /\ ReduceTypeOK =>
    (EvalTypeOK <=> ControlTypes /\ ProjectTypes /\ RebuildTypes /\ ArmTypes /\ ResultTypes)
BY DEF EvalTypeOK, ControlTypes, ProjectTypes, RebuildTypes, ArmTypes, ResultTypes, Answers

LEMMA NoVersionType == NoVersion \in [version : 0..2, covers : SUBSET Documents]
BY DEF NoVersion

LEMMA AggregateJudged ==
  \A human, scores, grades : Aggregate(human, scores, grades).judged = Questions
BY DEF Aggregate

LEMMA ControlTypesKept ==
  ASSUME ControlTypes, [EvalNext]_evalVars
  PROVE  ControlTypes'
<1>1. CASE SummarizeDocument
  <2>1. doc' \in Documents
    BY <1>1, CorpusBounds DEF SummarizeDocument, ControlTypes, Documents
  <2>2. QED
    BY <1>1, <2>1 DEF SummarizeDocument, ControlTypes, Phases, Go, Raise, outVars, armVars
<1>2. CASE WriteReport
  <2>1. report'.judged \in {0, Questions}
    BY <1>2, AggregateJudged DEF WriteReport, ControlTypes
  <2>2. QED
    BY <1>2, <2>1 DEF WriteReport, ControlTypes, Phases, Go, armVars, projectVars
<1>3. CASE JudgeFails
  <2>1. parses' \in 0..1
    BY <1>3 DEF JudgeFails, ControlTypes
  <2>2. phase' \in Phases
    BY <1>3 DEF JudgeFails, ControlTypes, Phases, Go, Raise
  <2>3. QED
    BY <1>3, <2>1, <2>2 DEF JudgeFails, ControlTypes, projectVars, outVars
<1>4. CASE DropCollection
  <2>1. phase' = "drop rows"
    BY <1>4 DEF DropCollection, Go
  <2>2. leaks' \in SUBSET {"setup", "collection", "rows"}
    BY <1>4 DEF DropCollection, ControlTypes
  <2>3. parses' \in 0..1
    <3>1. 0 \in 0..1
      OBVIOUS
    <3>2. QED
      BY <1>4, <3>1 DEF DropCollection, LocalsGone
  <2>31. phase' \in Phases
    BY <2>1 DEF Phases
  <2>4. UNCHANGED <<mock, known, rows, doc, file, report>>
    BY <1>4 DEF DropCollection, outVars
  <2>5. QED
    BY <2>2, <2>3, <2>31, <2>4 DEF ControlTypes
<1>5. CASE Killed
  <2>1. parses' \in 0..1 /\ phase' \in Phases
    BY <1>5 DEF Killed, LocalsGone, Phases, Go
  <2>2. QED
    BY <1>5, <2>1 DEF Killed, ControlTypes, projectVars, outVars
<1>6. CASE SetupProject
  BY <1>6 DEF SetupProject, ControlTypes, Phases, Go, Raise, LocalsGone, evalVars, projectVars,
     rebuildVars, armVars, outVars
<1>7. CASE ChunkDocument
  BY <1>7 DEF ChunkDocument, ControlTypes, Phases, Go, Raise, LocalsGone, evalVars,
     projectVars, rebuildVars, armVars, outVars
<1>8. CASE ChunkLoop
  BY <1>8 DEF ChunkLoop, ControlTypes, Phases, Go, Raise, LocalsGone, evalVars, projectVars,
     rebuildVars, armVars, outVars
<1>9. CASE UpsertDocument
  BY <1>9 DEF UpsertDocument, ControlTypes, Phases, Go, Raise, LocalsGone, evalVars,
     projectVars, rebuildVars, armVars, outVars
<1>10. CASE StartRebuild
  BY <1>10 DEF StartRebuild, ControlTypes, Phases, Go, Raise, LocalsGone, evalVars,
     projectVars, rebuildVars, armVars, outVars
<1>11. CASE FinishRebuild
  BY <1>11 DEF FinishRebuild, ControlTypes, Phases, Go, Raise, LocalsGone, evalVars,
     projectVars, rebuildVars, armVars, outVars
<1>12. CASE CagArm
  BY <1>12 DEF CagArm, ControlTypes, Phases, Go, Raise, LocalsGone, evalVars, projectVars,
     rebuildVars, armVars, outVars
<1>13. CASE RagArm
  BY <1>13 DEF RagArm, ControlTypes, Phases, Go, Raise, LocalsGone, evalVars, projectVars,
     rebuildVars, armVars, outVars
<1>14. CASE JudgeValid
  BY <1>14 DEF JudgeValid, ControlTypes, Phases, Go, Raise, LocalsGone, evalVars, projectVars,
     rebuildVars, armVars, outVars
<1>15. CASE WriteResults
  BY <1>15 DEF WriteResults, ControlTypes, Phases, Go, Raise, LocalsGone, evalVars,
     projectVars, rebuildVars, armVars, outVars
<1>16. CASE DropRows
  BY <1>16 DEF DropRows, ControlTypes, Phases, Go, Raise, LocalsGone, evalVars, projectVars,
     rebuildVars, armVars, outVars
<1>17. CASE Reducing
  BY <1>17 DEF Reducing, ControlTypes, Phases, Go, Raise, LocalsGone, evalVars, projectVars,
     rebuildVars, armVars, outVars
<1>18. CASE CronStarts
  BY <1>18 DEF CronStarts, ControlTypes, Phases, Go, Raise, LocalsGone, evalVars, projectVars,
     rebuildVars, armVars, outVars
<1>19. CASE CronFinishes
  BY <1>19 DEF CronFinishes, ControlTypes, Phases, Go, Raise, LocalsGone, evalVars,
     projectVars, rebuildVars, armVars, outVars
<1>20. CASE UNCHANGED evalVars
  BY <1>20 DEF ControlTypes, Phases, Go, Raise, LocalsGone, evalVars, projectVars, rebuildVars,
     armVars, outVars
<1>21. QED
  BY <1>1, <1>2, <1>3, <1>4, <1>5, <1>6, <1>7, <1>8, <1>9, <1>10, <1>11, <1>12, <1>13, <1>14,
     <1>15, <1>16, <1>17, <1>18, <1>19, <1>20 DEF EvalNext, Run

LEMMA ProjectTypesKept ==
  ASSUME EvalInv, [EvalNext]_evalVars
  PROVE  ProjectTypes'
<1>0. ProjectTypes /\ ControlTypes
  BY TypesByGroup DEF EvalInv, EvalTypeOK
<1> USE <1>0
<1>1. CASE UpsertDocument
  BY <1>1 DEF UpsertDocument, ControlTypes, ProjectTypes
<1>2. CASE SummarizeDocument
  BY <1>2 DEF SummarizeDocument, ControlTypes, ProjectTypes
<1>3. CASE FinishRebuild
  <2>1. CASE UNCHANGED belief
    BY <1>3, <2>1 DEF FinishRebuild, ProjectTypes
  <2>2. CASE reducing = "reduced" /\ InsertVersion
    <3>1. belief.version <= 1 /\ belief.version \in Nat
      BY <1>3 DEF FinishRebuild, EvalInv, VersionInv, Early, ProjectTypes
    <3>2. Covered \in SUBSET Documents
      BY <1>3, <2>2, CoveredType DEF FinishRebuild, EvalInv, LockInv
    <3>3. QED
      BY <1>3, <2>2, <3>1, <3>2 DEF FinishRebuild, InsertVersion, ProjectTypes
  <2>3. QED
    BY <1>3, <2>1, <2>2 DEF FinishRebuild
<1>4. CASE CronFinishes
  <2>1. CASE UNCHANGED belief
    BY <1>4, <2>1 DEF CronFinishes, ProjectTypes
  <2>2. CASE reducing = "reduced" /\ InsertVersion
    <3>1. belief.version <= 1 /\ belief.version \in Nat
      BY <1>4 DEF CronFinishes, EvalInv, VersionInv, ProjectTypes
    <3>2. Covered \in SUBSET Documents
      BY <1>4, <2>2, CoveredType DEF CronFinishes, EvalInv, LockInv
    <3>3. QED
      BY <1>4, <2>2, <3>1, <3>2 DEF CronFinishes, InsertVersion, ProjectTypes
  <2>3. QED
    BY <1>4, <2>1, <2>2 DEF CronFinishes
<1>5. CASE DropCollection
  BY <1>5 DEF DropCollection, ProjectTypes
<1>6. CASE DropRows
  <2>1. summed' \in [Documents -> {"none", "fallback", "usable"}]
    BY <1>6 DEF DropRows, ProjectTypes
  <2>2. belief' \in [version : 0..2, covers : SUBSET Documents]
    BY <1>6, NoVersionType DEF DropRows, ProjectTypes
  <2>3. QED
    BY <1>6, <2>1, <2>2 DEF DropRows, ProjectTypes
<1>7. CASE SetupProject
  BY <1>7 DEF SetupProject, ProjectTypes, evalVars, projectVars
<1>8. CASE ChunkDocument
  BY <1>8 DEF ChunkDocument, ProjectTypes, evalVars, projectVars
<1>9. CASE ChunkLoop
  BY <1>9 DEF ChunkLoop, ProjectTypes, evalVars, projectVars
<1>10. CASE StartRebuild
  BY <1>10 DEF StartRebuild, ProjectTypes, evalVars, projectVars
<1>11. CASE CagArm
  BY <1>11 DEF CagArm, ProjectTypes, evalVars, projectVars
<1>12. CASE RagArm
  BY <1>12 DEF RagArm, ProjectTypes, evalVars, projectVars
<1>13. CASE JudgeValid
  BY <1>13 DEF JudgeValid, ProjectTypes, evalVars, projectVars
<1>14. CASE JudgeFails
  BY <1>14 DEF JudgeFails, ProjectTypes, evalVars, projectVars
<1>15. CASE WriteResults
  BY <1>15 DEF WriteResults, ProjectTypes, evalVars, projectVars
<1>16. CASE WriteReport
  BY <1>16 DEF WriteReport, ProjectTypes, evalVars, projectVars
<1>17. CASE Reducing
  BY <1>17 DEF Reducing, ProjectTypes, evalVars, projectVars
<1>18. CASE CronStarts
  BY <1>18 DEF CronStarts, ProjectTypes, evalVars, projectVars
<1>19. CASE Killed
  BY <1>19 DEF Killed, ProjectTypes, evalVars, projectVars
<1>20. CASE UNCHANGED evalVars
  BY <1>20 DEF ProjectTypes, evalVars, projectVars
<1>21. QED
  BY <1>1, <1>2, <1>3, <1>4, <1>5, <1>6, <1>7, <1>8, <1>9, <1>10, <1>11, <1>12, <1>13, <1>14,
     <1>15, <1>16, <1>17, <1>18, <1>19, <1>20 DEF EvalNext, Run

LEMMA RebuildTypesKept ==
  ASSUME RebuildTypes, [EvalNext]_evalVars
  PROVE  RebuildTypes'
<1>1. CASE StartRebuild
  <2>1. CASE UNCHANGED window
    BY <1>1, <2>1 DEF StartRebuild, Reduce, RebuildTypes
  <2>2. CASE window' \in InOrder(RunsWindow) /\ lock' = "run"
    <3>1. window' \in Seq(Documents)
      BY <2>2, UsableType, WindowOfDocs DEF RunsWindow, WholeLog
    <3>2. QED
      BY <1>1, <2>2, <3>1 DEF StartRebuild, RebuildTypes
  <2>3. QED
    BY <1>1, <2>1, <2>2 DEF StartRebuild, Reduce
<1>2. CASE CronStarts
  <2>1. CASE UNCHANGED <<lock, window>> /\ cron' = "over"
    BY <1>2, <2>1 DEF RebuildTypes
  <2>2. CASE window' \in InOrder(SinceWatermark) /\ lock' = "cron" /\ cron' = "holding"
    <3>1. window' \in Seq(Documents)
      BY <2>2, UsableType, WindowOfDocs
    <3>2. QED
      BY <2>2, <3>1 DEF RebuildTypes
  <2>3. QED
    BY <1>2, <2>1, <2>2 DEF CronStarts, Reduce
<1>3. CASE FinishRebuild
  BY <1>3, EmptySeq DEF FinishRebuild, Release, RebuildTypes
<1>4. CASE CronFinishes
  BY <1>4, EmptySeq DEF CronFinishes, Release, RebuildTypes
<1>5. CASE Reducing
  BY <1>5 DEF Reducing, RebuildTypes
<1>6. CASE Killed
  BY <1>6, EmptySeq DEF Killed, RebuildTypes
<1>7. CASE SetupProject
  BY <1>7 DEF SetupProject, RebuildTypes, evalVars, rebuildVars
<1>8. CASE ChunkDocument
  BY <1>8 DEF ChunkDocument, RebuildTypes, evalVars, rebuildVars
<1>9. CASE ChunkLoop
  BY <1>9 DEF ChunkLoop, RebuildTypes, evalVars, rebuildVars
<1>10. CASE UpsertDocument
  BY <1>10 DEF UpsertDocument, RebuildTypes, evalVars, rebuildVars
<1>11. CASE SummarizeDocument
  BY <1>11 DEF SummarizeDocument, RebuildTypes, evalVars, rebuildVars
<1>12. CASE CagArm
  BY <1>12 DEF CagArm, RebuildTypes, evalVars, rebuildVars
<1>13. CASE RagArm
  BY <1>13 DEF RagArm, RebuildTypes, evalVars, rebuildVars
<1>14. CASE JudgeValid
  BY <1>14 DEF JudgeValid, RebuildTypes, evalVars, rebuildVars
<1>15. CASE JudgeFails
  BY <1>15 DEF JudgeFails, RebuildTypes, evalVars, rebuildVars
<1>16. CASE WriteResults
  BY <1>16 DEF WriteResults, RebuildTypes, evalVars, rebuildVars
<1>17. CASE DropCollection
  BY <1>17 DEF DropCollection, RebuildTypes, evalVars, rebuildVars
<1>18. CASE DropRows
  BY <1>18 DEF DropRows, RebuildTypes, evalVars, rebuildVars
<1>19. CASE WriteReport
  BY <1>19 DEF WriteReport, RebuildTypes, evalVars, rebuildVars
<1>20. CASE UNCHANGED evalVars
  BY <1>20 DEF RebuildTypes, evalVars, rebuildVars
<1>21. QED
  BY <1>1, <1>2, <1>3, <1>4, <1>5, <1>6, <1>7, <1>8, <1>9, <1>10, <1>11, <1>12, <1>13, <1>14,
     <1>15, <1>16, <1>17, <1>18, <1>19, <1>20 DEF EvalNext, Run

LEMMA RetrievedType ==
  ASSUME ArmTypes, ProjectTypes, NEW q \in 1..Questions
  PROVE  Retrieved(q) \in SUBSET SUBSET Documents
<1>1. Nearest \in SUBSET SUBSET Documents
  BY DEF Nearest, ProjectTypes
<1>2. cache[q] \in SUBSET SUBSET Documents
  BY DEF ArmTypes
<1>3. QED
  BY <1>1, <1>2 DEF Retrieved

LEMMA NoArmType == NoArm \in Answers
BY DEF NoArm, Answers

LEMMA EmptyCacheType == [q \in 1..Questions |-> {}] \in [1..Questions -> SUBSET SUBSET Documents]
OBVIOUS

(* An answer of an arm, as run_two_arms keeps it. *)
LEMMA ArmAnswerTypes ==
  ASSUME ArmTypes, ProjectTypes, NEW q \in 1..Questions, NEW who \in {"cag", "rag"},
         NEW version \in 0..2, NEW found \in Retrieved(q), ArmAnswer(q, who, version, found)
  PROVE  /\ cache' \in [1..Questions -> SUBSET SUBSET Documents]
         /\ spy' \in {"none", "cag", "rag"}
         /\ [chunks |-> found, version |-> version, tokens |-> spy'] \in Answers
<1>1. found \in SUBSET Documents
  BY RetrievedType
<1>2. {found} \in SUBSET SUBSET Documents
  BY <1>1
<1>3. cache' \in [1..Questions -> SUBSET SUBSET Documents]
  BY <1>2 DEF ArmAnswer, ArmTypes
<1>4. spy' \in {"none", "cag", "rag"}
  BY DEF ArmAnswer, ArmTypes
<1>5. QED
  BY <1>1, <1>3, <1>4 DEF Answers

LEMMA NextQuestion ==
  ASSUME EvalInv, phase \in {"cag", "rag", "judge"}
  PROVE  Question \in 1..Questions /\ Len(results) \in Nat /\ belief.version \in 0..2
<1>1. Len(results) \in Nat /\ Len(results) < Questions
  BY DEF EvalInv, EvalTypeOK, ArmsInv
<1>2. belief.version \in 0..2
  BY DEF EvalInv, EvalTypeOK
<1>3. QED
  BY <1>1, <1>2, CorpusBounds DEF Question

LEMMA ArmTypesKept ==
  ASSUME EvalInv, [EvalNext]_evalVars
  PROVE  ArmTypes'
<1>0. ArmTypes /\ ProjectTypes /\ RebuildTypes /\ ControlTypes /\ ResultTypes
  BY TypesByGroup DEF EvalInv, EvalTypeOK
<1>1. CASE CagArm
  <2>1. CASE UNCHANGED <<cache, spy, cag>>
    BY <1>1, <1>0, <2>1 DEF CagArm, ArmTypes
  <2>2. CASE ~ UNCHANGED <<cache, spy, cag>>
    <3>1. Question \in 1..Questions /\ belief.version \in 0..2
      BY <1>1, NextQuestion DEF CagArm
    <3>2. PICK found \in Retrieved(Question) :
             /\ ArmAnswer(Question, "cag", belief.version, found)
             /\ cag' = [chunks |-> found, version |-> belief.version, tokens |-> spy']
      BY <1>1, <2>2 DEF CagArm
    <3>3. QED
      BY <1>1, <1>0, <3>1, <3>2, ArmAnswerTypes DEF CagArm, ArmTypes
  <2>3. QED
    BY <2>1, <2>2
<1>2. CASE RagArm
  <2>1. CASE UNCHANGED <<cache, spy, rag>>
    BY <1>2, <1>0, <2>1 DEF RagArm, ArmTypes
  <2>2. CASE ~ UNCHANGED <<cache, spy, rag>>
    <3>1. Question \in 1..Questions
      BY <1>2, NextQuestion DEF RagArm
    <3>2. PICK found \in Retrieved(Question) :
             /\ ArmAnswer(Question, "rag", 0, found)
             /\ rag' = [chunks |-> found, version |-> 0, tokens |-> spy']
      BY <1>2, <2>2 DEF RagArm
    <3>3. 0 \in 0..2
      OBVIOUS
    <3>4. QED
      BY <1>2, <1>0, <3>1, <3>2, <3>3, ArmAnswerTypes DEF RagArm, ArmTypes
  <2>3. QED
    BY <2>1, <2>2
<1>3. CASE JudgeValid
  BY <1>3, <1>0, NoArmType DEF JudgeValid, ArmTypes
<1>4. CASE JudgeFails
  BY <1>4, <1>0 DEF JudgeFails, ArmTypes
<1>5. CASE DropCollection
  BY <1>5, NoArmType, EmptyCacheType DEF DropCollection, LocalsGone, ArmTypes
<1>6. CASE Killed
  BY <1>6, NoArmType, EmptyCacheType DEF Killed, LocalsGone, ArmTypes
<1>7. CASE SetupProject
  BY <1>7, <1>0 DEF SetupProject, ArmTypes, evalVars, armVars
<1>8. CASE ChunkDocument
  BY <1>8, <1>0 DEF ChunkDocument, ArmTypes, evalVars, armVars
<1>9. CASE ChunkLoop
  BY <1>9, <1>0 DEF ChunkLoop, ArmTypes, evalVars, armVars
<1>10. CASE UpsertDocument
  BY <1>10, <1>0 DEF UpsertDocument, ArmTypes, evalVars, armVars
<1>11. CASE SummarizeDocument
  BY <1>11, <1>0 DEF SummarizeDocument, ArmTypes, evalVars, armVars
<1>12. CASE StartRebuild
  BY <1>12, <1>0 DEF StartRebuild, ArmTypes, evalVars, armVars
<1>13. CASE FinishRebuild
  BY <1>13, <1>0 DEF FinishRebuild, ArmTypes, evalVars, armVars
<1>14. CASE WriteResults
  BY <1>14, <1>0 DEF WriteResults, ArmTypes, evalVars, armVars
<1>15. CASE DropRows
  BY <1>15, <1>0 DEF DropRows, ArmTypes, evalVars, armVars
<1>16. CASE WriteReport
  BY <1>16, <1>0 DEF WriteReport, ArmTypes, evalVars, armVars
<1>17. CASE Reducing
  BY <1>17, <1>0 DEF Reducing, ArmTypes, evalVars, armVars
<1>18. CASE CronStarts
  BY <1>18, <1>0 DEF CronStarts, ArmTypes, evalVars, armVars
<1>19. CASE CronFinishes
  BY <1>19, <1>0 DEF CronFinishes, ArmTypes, evalVars, armVars
<1>20. CASE UNCHANGED evalVars
  BY <1>20, <1>0 DEF ArmTypes, evalVars, armVars
<1>21. QED
  BY <1>1, <1>2, <1>3, <1>4, <1>5, <1>6, <1>7, <1>8, <1>9, <1>10, <1>11, <1>12, <1>13, <1>14,
     <1>15, <1>16, <1>17, <1>18, <1>19, <1>20 DEF EvalNext, Run

(* What one valid judgement adds to the results. *)
LEMMA JudgementTypes ==
  ASSUME EvalInv, JudgeValid
  PROVE  \E first \in {"cag", "rag"}, scores \in Scores \X Scores :
            /\ scores \in Verdicts(first)
            /\ results' = Append(results, [first |-> first, scores |-> scores,
                                           version |-> cag.version])
            /\ given' = Append(given, [arm \in {"cag", "rag"} |->
                                          IF arm = first THEN scores[1] ELSE scores[2]])
<1>1. PICK first \in {"cag", "rag"} : \E scores \in Verdicts(first) :
            /\ results' = Append(results, [first |-> first, scores |-> scores,
                                           version |-> cag.version])
            /\ given' = Append(given, [arm \in {"cag", "rag"} |->
                                          IF arm = first THEN scores[1] ELSE scores[2]])
  BY DEF JudgeValid
<1>2. Verdicts(first) \in SUBSET (Scores \X Scores)
  <2>1. ASSUME Axis = "conflict_handling" PROVE MockScores(first) \in Scores \X Scores
    <3>1. MockScores(first) = <<3, 3>>
      BY <2>1 DEF MockScores
    <3>2. 3 \in Scores
      BY <2>1, EvalAssumption DEF EvalAssumption
    <3>3. <<3, 3>> \in Scores \X Scores
      BY <3>2
    <3>4. QED
      BY <3>1, <3>3
  <2>2. ASSUME Axis # "conflict_handling" PROVE MockScores(first) \in Scores \X Scores
    <3>1. MockScores(first) = <<2, 4>> \/ MockScores(first) = <<4, 2>>
      BY <2>2 DEF MockScores
    <3>2. 2 \in Scores /\ 4 \in Scores
      BY <2>2, EvalAssumption DEF EvalAssumption
    <3>3. <<2, 4>> \in Scores \X Scores /\ <<4, 2>> \in Scores \X Scores
      BY <3>2
    <3>4. QED
      BY <3>1, <3>3
  <2>3. MockScores(first) \in Scores \X Scores
    BY <2>1, <2>2
  <2>4. QED
    BY <2>3 DEF Verdicts
<1>3. QED
  BY <1>1, <1>2

LEMMA ResultTypesKept ==
  ASSUME EvalInv, [EvalNext]_evalVars
  PROVE  ResultTypes'
<1>0. ArmTypes /\ ProjectTypes /\ RebuildTypes /\ ControlTypes /\ ResultTypes
  BY TypesByGroup DEF EvalInv, EvalTypeOK
<1>1. CASE JudgeValid
  <2>1. PICK first \in {"cag", "rag"}, scores \in Scores \X Scores :
            /\ results' = Append(results, [first |-> first, scores |-> scores,
                                           version |-> cag.version])
            /\ given' = Append(given, [arm \in {"cag", "rag"} |->
                                          IF arm = first THEN scores[1] ELSE scores[2]])
    BY <1>1, JudgementTypes
  <2>2. cag.version \in 0..2
    BY <1>0 DEF ArmTypes, Answers
  <2>3. [first |-> first, scores |-> scores, version |-> cag.version]
            \in [first : {"cag", "rag"}, scores : Scores \X Scores, version : 0..2]
    BY <2>2
  <2>4. results' \in Seq([first : {"cag", "rag"}, scores : Scores \X Scores, version : 0..2])
    BY <1>0, <2>1, <2>3, AppendProperties DEF ResultTypes
  <2>5. scores[1] \in Scores /\ scores[2] \in Scores
    OBVIOUS
  <2>6. [arm \in {"cag", "rag"} |-> IF arm = first THEN scores[1] ELSE scores[2]]
            \in [{"cag", "rag"} -> Scores]
    BY <2>5
  <2>7. given' \in Seq([{"cag", "rag"} -> Scores])
    BY <1>0, <2>1, <2>6, AppendProperties DEF ResultTypes
  <2>8. QED
    BY <2>4, <2>7 DEF ResultTypes
<1>2. CASE DropCollection
  BY <1>2, <1>0, EmptySeq DEF DropCollection, ResultTypes
<1>3. CASE Killed
  BY <1>3, EmptySeq DEF Killed, ResultTypes
<1>4. CASE SetupProject
  BY <1>4, <1>0 DEF SetupProject, ResultTypes, evalVars, armVars
<1>5. CASE ChunkDocument
  BY <1>5, <1>0 DEF ChunkDocument, ResultTypes, evalVars, armVars
<1>6. CASE ChunkLoop
  BY <1>6, <1>0 DEF ChunkLoop, ResultTypes, evalVars, armVars
<1>7. CASE UpsertDocument
  BY <1>7, <1>0 DEF UpsertDocument, ResultTypes, evalVars, armVars
<1>8. CASE SummarizeDocument
  BY <1>8, <1>0 DEF SummarizeDocument, ResultTypes, evalVars, armVars
<1>9. CASE StartRebuild
  BY <1>9, <1>0 DEF StartRebuild, ResultTypes, evalVars, armVars
<1>10. CASE FinishRebuild
  BY <1>10, <1>0 DEF FinishRebuild, ResultTypes, evalVars, armVars
<1>11. CASE CagArm
  BY <1>11, <1>0 DEF CagArm, ResultTypes, evalVars, armVars
<1>12. CASE RagArm
  BY <1>12, <1>0 DEF RagArm, ResultTypes, evalVars, armVars
<1>13. CASE JudgeFails
  BY <1>13, <1>0 DEF JudgeFails, ResultTypes, evalVars, armVars
<1>14. CASE WriteResults
  BY <1>14, <1>0 DEF WriteResults, ResultTypes, evalVars, armVars
<1>15. CASE DropRows
  BY <1>15, <1>0 DEF DropRows, ResultTypes, evalVars, armVars
<1>16. CASE WriteReport
  BY <1>16, <1>0 DEF WriteReport, ResultTypes, evalVars, armVars
<1>17. CASE Reducing
  BY <1>17, <1>0 DEF Reducing, ResultTypes, evalVars, armVars
<1>18. CASE CronStarts
  BY <1>18, <1>0 DEF CronStarts, ResultTypes, evalVars, armVars
<1>19. CASE CronFinishes
  BY <1>19, <1>0 DEF CronFinishes, ResultTypes, evalVars, armVars
<1>20. CASE UNCHANGED evalVars
  BY <1>20, <1>0 DEF ResultTypes, evalVars, armVars
<1>21. QED
  BY <1>1, <1>2, <1>3, <1>4, <1>5, <1>6, <1>7, <1>8, <1>9, <1>10, <1>11, <1>12, <1>13, <1>14,
     <1>15, <1>16, <1>17, <1>18, <1>19, <1>20 DEF EvalNext, Run

-----------------------------------------------------------------------------
(* Who holds the lock and how many versions there are. *)

LEMMA LockKept ==
  ASSUME EvalInv, [EvalNext]_evalVars
  PROVE  LockInv'
<1>0. /\ LockInv /\ lock \in {"free", "run", "cron"} /\ cron \in {"due", "holding", "over"}
      /\ phase \in Phases
  BY DEF EvalInv, EvalTypeOK
<1>1. CASE SummarizeDocument
  <2>1. lock # "run" /\ phase' # "rebuilding"
    BY <1>1, <1>0 DEF SummarizeDocument, LockInv, Go, Raise
  <2>2. QED
    BY <1>1, <1>0, <2>1 DEF SummarizeDocument, LockInv, rebuildVars, reduceVars
<1>2. CASE DropRows
  <2>1. lock # "run" /\ phase' # "rebuilding"
    BY <1>2, <1>0 DEF DropRows, LockInv, Go
  <2>2. QED
    BY <1>2, <1>0, <2>1 DEF DropRows, LockInv, rebuildVars, reduceVars
<1>3. CASE StartRebuild
  <2>1. CASE Reduce("run", RunsWindow, FALSE) /\ Go("rebuilding")
    <3>1. window' \in InOrder(Usable) /\ lock' = "run"
      BY <2>1 DEF Reduce, RunsWindow, WholeLog
    <3>2. Len(window') = Cardinality(Usable)
      BY <3>1, UsableType, WindowOfDocs
    <3>3. summaries' = Cardinality(Usable) /\ accumulated' = FALSE
      BY <2>1 DEF Reduce, CallReduce, RunsWindow, WholeLog
    <3>4. Usable' = Usable /\ cron' = cron /\ phase' = "rebuilding"
      BY <1>3, <2>1 DEF StartRebuild, projectVars, Usable, Go
    <3>5. lock = "free"
      BY <1>3 DEF StartRebuild
    <3>6. window' \in InOrder(Usable')
      BY <3>1, <3>4
    <3>7. window' \in InOrder(Usable)'
      BY <3>6 DEF InOrder, CreatedAt
    <3>8. QED
      BY <1>0, <3>1, <3>2, <3>3, <3>4, <3>5, <3>7 DEF LockInv
  <2>2. CASE RunsWindow = {} /\ Go("cag") /\ UNCHANGED <<lock, window, reduceVars>>
    BY <1>3, <1>0, <2>2 DEF StartRebuild, LockInv, Go
  <2>3. QED
    BY <1>3, <2>1, <2>2 DEF StartRebuild
<1>4. CASE FinishRebuild
  <2>1. lock' = "free" /\ cron' = cron /\ phase' # "rebuilding"
    BY <1>4 DEF FinishRebuild, Release, Go, Raise
  <2>2. cron # "holding"
    BY <1>4, <1>0 DEF FinishRebuild, LockInv
  <2>3. QED
    BY <2>1, <2>2 DEF LockInv
<1>5. CASE CronStarts
  <2>1. CASE Reduce("cron", SinceWatermark, belief.version # 0) /\ cron' = "holding"
    <3>1. window' \in InOrder(SinceWatermark) /\ lock' = "cron"
      BY <2>1 DEF Reduce
    <3>2. Len(window') = Cardinality(SinceWatermark)
      BY <3>1, UsableType, WindowOfDocs
    <3>3. summaries' = Cardinality(SinceWatermark)
      BY <2>1 DEF Reduce, CallReduce
    <3>4. lock = "free" /\ phase' = phase
      BY <1>5 DEF CronStarts
    <3>5. QED
      BY <1>0, <2>1, <3>1, <3>2, <3>3, <3>4 DEF LockInv
  <2>2. CASE cron' = "over" /\ UNCHANGED <<lock, window, reduceVars>>
    BY <1>5, <1>0, <2>2 DEF CronStarts, LockInv
  <2>3. QED
    BY <1>5, <2>1, <2>2 DEF CronStarts
<1>6. CASE CronFinishes
  <2>1. lock' = "free" /\ cron' = "over" /\ phase' = phase
    BY <1>6 DEF CronFinishes, Release
  <2>2. phase # "rebuilding"
    BY <1>6, <1>0 DEF CronFinishes, LockInv
  <2>3. QED
    BY <2>1, <2>2 DEF LockInv
<1>7. CASE Reducing
  <2>1. summaries' = summaries /\ accumulated' = accumulated
    BY <1>7 DEF Reducing, ValidAnswer, EndLevel, InvalidAnswer, SynthesisFails
  <2>2. phase' = phase /\ cron' = cron /\ lock' = lock /\ window' = window /\ summed' = summed
    BY <1>7 DEF Reducing, projectVars
  <2>3. QED
    BY <1>0, <2>1, <2>2 DEF LockInv, Usable, InOrder, CreatedAt
<1>8. CASE Killed
  <2>1. CASE lock = "run"
    <3>1. lock' = "free" /\ phase' = "killed" /\ cron' = cron
      BY <1>8, <2>1 DEF Killed, Go
    <3>2. QED
      BY <1>0, <2>1, <3>1 DEF LockInv
  <2>2. CASE lock # "run"
    <3>1. UNCHANGED <<lock, window, reduceVars>> /\ phase' = "killed" /\ cron' = cron
      BY <1>8, <2>2 DEF Killed, Go
    <3>2. QED
      BY <1>0, <2>2, <3>1 DEF LockInv, reduceVars
  <2>3. QED
    BY <2>1, <2>2
<1>9. CASE SetupProject
  BY <1>9, <1>0 DEF SetupProject, LockInv, Usable, InOrder, CreatedAt, Go, Raise, evalVars,
     rebuildVars, reduceVars, projectVars
<1>10. CASE ChunkDocument
  BY <1>10, <1>0 DEF ChunkDocument, LockInv, Usable, InOrder, CreatedAt, Go, Raise, evalVars,
     rebuildVars, reduceVars, projectVars
<1>11. CASE ChunkLoop
  BY <1>11, <1>0 DEF ChunkLoop, LockInv, Usable, InOrder, CreatedAt, Go, Raise, evalVars,
     rebuildVars, reduceVars, projectVars
<1>12. CASE UpsertDocument
  BY <1>12, <1>0 DEF UpsertDocument, LockInv, Usable, InOrder, CreatedAt, Go, Raise, evalVars,
     rebuildVars, reduceVars, projectVars
<1>13. CASE CagArm
  BY <1>13, <1>0 DEF CagArm, LockInv, Usable, InOrder, CreatedAt, Go, Raise, evalVars,
     rebuildVars, reduceVars, projectVars
<1>14. CASE RagArm
  BY <1>14, <1>0 DEF RagArm, LockInv, Usable, InOrder, CreatedAt, Go, Raise, evalVars,
     rebuildVars, reduceVars, projectVars
<1>15. CASE JudgeValid
  BY <1>15, <1>0 DEF JudgeValid, LockInv, Usable, InOrder, CreatedAt, Go, Raise, evalVars,
     rebuildVars, reduceVars, projectVars
<1>16. CASE JudgeFails
  BY <1>16, <1>0 DEF JudgeFails, LockInv, Usable, InOrder, CreatedAt, Go, Raise, evalVars,
     rebuildVars, reduceVars, projectVars
<1>17. CASE WriteResults
  BY <1>17, <1>0 DEF WriteResults, LockInv, Usable, InOrder, CreatedAt, Go, Raise, evalVars,
     rebuildVars, reduceVars, projectVars
<1>18. CASE DropCollection
  BY <1>18, <1>0 DEF DropCollection, LockInv, Usable, InOrder, CreatedAt, Go, Raise, evalVars,
     rebuildVars, reduceVars, projectVars
<1>19. CASE WriteReport
  BY <1>19, <1>0 DEF WriteReport, LockInv, Usable, InOrder, CreatedAt, Go, Raise, evalVars,
     rebuildVars, reduceVars, projectVars
<1>20. CASE UNCHANGED evalVars
  BY <1>20, <1>0 DEF LockInv, Usable, InOrder, CreatedAt, Go, Raise, evalVars, rebuildVars,
     reduceVars, projectVars
<1>21. QED
  BY <1>1, <1>2, <1>3, <1>4, <1>5, <1>6, <1>7, <1>8, <1>9, <1>10, <1>11, <1>12, <1>13, <1>14,
     <1>15, <1>16, <1>17, <1>18, <1>19, <1>20 DEF EvalNext, Run

LEMMA VersionKept ==
  ASSUME EvalInv, [EvalNext]_evalVars
  PROVE  VersionInv'
<1>0. /\ VersionInv /\ LockInv /\ belief.version \in 0..2 /\ cron \in {"due", "holding", "over"}
      /\ phase \in Phases
  BY DEF EvalInv, EvalTypeOK
<1>1. CASE FinishRebuild
  <2>1. /\ phase = "rebuilding" /\ phase' \in {"cag", "drop collection", "raised"}
        /\ cron' = cron
    BY <1>1 DEF FinishRebuild, Go, Raise
  <2>2. belief.version <= 1 /\ (cron # "over" => belief.version = 0)
    BY <1>0, <2>1 DEF VersionInv, Early
  <2>3. CASE UNCHANGED belief
    BY <1>0, <2>1, <2>2, <2>3 DEF VersionInv, Early
  <2>4. CASE InsertVersion
    <3>1. belief'.version = belief.version + 1
      BY <2>4 DEF InsertVersion
    <3>2. phase' \notin Early
      BY <2>1 DEF Early
    <3>3. belief'.version # 0
      BY <1>0, <3>1
    <3>4. cron # "over" => belief'.version <= 1
      BY <2>2, <3>1
    <3>5. QED
      BY <2>1, <3>2, <3>3, <3>4 DEF VersionInv
  <2>5. QED
    BY <1>1, <2>3, <2>4 DEF FinishRebuild
<1>2. CASE CronFinishes
  <2>1. /\ cron = "holding" /\ cron' = "over" /\ phase' = phase
        /\ (UNCHANGED belief \/ InsertVersion)
    BY <1>2 DEF CronFinishes
  <2>2. CASE UNCHANGED belief
    BY <1>0, <2>1, <2>2 DEF VersionInv
  <2>3. CASE InsertVersion
    <3>1. belief'.version = belief.version + 1
      BY <2>3 DEF InsertVersion
    <3>2. QED
      BY <1>0, <2>1, <3>1 DEF VersionInv
  <2>4. QED
    BY <2>1, <2>2, <2>3
<1>3. CASE DropRows
  <2>1. /\ phase' \in {"report", "raised"} /\ phase = "drop rows" /\ cron' = cron
        /\ (UNCHANGED belief \/ belief' = NoVersion)
    BY <1>3 DEF DropRows, Go, rebuildVars
  <2>2. CASE UNCHANGED belief
    BY <1>0, <2>1, <2>2 DEF VersionInv, Early
  <2>3. CASE belief' = NoVersion
    <3>1. belief'.version = 0
      BY <2>3 DEF NoVersion
    <3>2. QED
      BY <2>3, <3>1 DEF VersionInv
  <2>4. QED
    BY <2>1, <2>2, <2>3
<1>4. CASE CronStarts
  BY <1>4, <1>0 DEF CronStarts, VersionInv, projectVars
<1>5. CASE SetupProject
  BY <1>5, <1>0 DEF SetupProject, VersionInv, Early, Go, Raise, evalVars, rebuildVars,
     projectVars
<1>6. CASE ChunkDocument
  BY <1>6, <1>0 DEF ChunkDocument, VersionInv, Early, Go, Raise, evalVars, rebuildVars,
     projectVars
<1>7. CASE ChunkLoop
  BY <1>7, <1>0 DEF ChunkLoop, VersionInv, Early, Go, Raise, evalVars, rebuildVars, projectVars
<1>8. CASE UpsertDocument
  BY <1>8, <1>0 DEF UpsertDocument, VersionInv, Early, Go, Raise, evalVars, rebuildVars,
     projectVars
<1>9. CASE SummarizeDocument
  BY <1>9, <1>0 DEF SummarizeDocument, VersionInv, Early, Go, Raise, evalVars, rebuildVars,
     projectVars
<1>10. CASE StartRebuild
  BY <1>10, <1>0 DEF StartRebuild, VersionInv, Early, Go, Raise, evalVars, rebuildVars,
     projectVars
<1>11. CASE CagArm
  BY <1>11, <1>0 DEF CagArm, VersionInv, Early, Go, Raise, evalVars, rebuildVars, projectVars
<1>12. CASE RagArm
  BY <1>12, <1>0 DEF RagArm, VersionInv, Early, Go, Raise, evalVars, rebuildVars, projectVars
<1>13. CASE JudgeValid
  BY <1>13, <1>0 DEF JudgeValid, VersionInv, Early, Go, Raise, evalVars, rebuildVars,
     projectVars
<1>14. CASE JudgeFails
  BY <1>14, <1>0 DEF JudgeFails, VersionInv, Early, Go, Raise, evalVars, rebuildVars,
     projectVars
<1>15. CASE WriteResults
  BY <1>15, <1>0 DEF WriteResults, VersionInv, Early, Go, Raise, evalVars, rebuildVars,
     projectVars
<1>16. CASE DropCollection
  BY <1>16, <1>0 DEF DropCollection, VersionInv, Early, Go, Raise, evalVars, rebuildVars,
     projectVars
<1>17. CASE WriteReport
  BY <1>17, <1>0 DEF WriteReport, VersionInv, Early, Go, Raise, evalVars, rebuildVars,
     projectVars
<1>18. CASE Reducing
  BY <1>18, <1>0 DEF Reducing, VersionInv, Early, Go, Raise, evalVars, rebuildVars, projectVars
<1>19. CASE Killed
  BY <1>19, <1>0 DEF Killed, VersionInv, Early, Go, Raise, evalVars, rebuildVars, projectVars
<1>20. CASE UNCHANGED evalVars
  BY <1>20, <1>0 DEF VersionInv, Early, Go, Raise, evalVars, rebuildVars, projectVars
<1>21. QED
  BY <1>1, <1>2, <1>3, <1>4, <1>5, <1>6, <1>7, <1>8, <1>9, <1>10, <1>11, <1>12, <1>13, <1>14,
     <1>15, <1>16, <1>17, <1>18, <1>19, <1>20 DEF EvalNext, Run

-----------------------------------------------------------------------------
(* What is left behind. *)

(* The steps between setup and teardown. *)
Working ==
  \/ ChunkDocument \/ ChunkLoop \/ UpsertDocument \/ SummarizeDocument
  \/ StartRebuild \/ FinishRebuild
  \/ CagArm \/ RagArm \/ JudgeValid \/ JudgeFails
  \/ WriteResults

LEMMA WorkingSteps ==
  ASSUME EvalInv, Working
  PROVE  known /\ known' = known
         /\ phase' \notin {"setup", "drop rows", "report", "raised", "finished", "killed"}
<1>0. KnownInv /\ phase \in Phases
  BY DEF EvalInv, EvalTypeOK
<1> USE DEF KnownInv, Early, Answering, Leaving, Go, Raise
<1>1. CASE ChunkDocument
  BY <1>0, <1>1 DEF ChunkDocument
<1>2. CASE ChunkLoop
  BY <1>0, <1>2 DEF ChunkLoop
<1>3. CASE UpsertDocument
  BY <1>0, <1>3 DEF UpsertDocument
<1>4. CASE SummarizeDocument
  BY <1>0, <1>4 DEF SummarizeDocument
<1>5. CASE StartRebuild
  BY <1>0, <1>5 DEF StartRebuild
<1>6. CASE FinishRebuild
  BY <1>0, <1>6 DEF FinishRebuild
<1>7. CASE CagArm
  BY <1>0, <1>7 DEF CagArm
<1>8. CASE RagArm
  BY <1>0, <1>8 DEF RagArm
<1>9. CASE JudgeValid
  BY <1>0, <1>9 DEF JudgeValid
<1>10. CASE JudgeFails
  BY <1>0, <1>10 DEF JudgeFails
<1>11. CASE WriteResults
  BY <1>0, <1>11 DEF WriteResults
<1>12. QED
  BY <1>1, <1>2, <1>3, <1>4, <1>5, <1>6, <1>7, <1>8, <1>9, <1>10, <1>11
     DEF Working

LEMMA KnownKept ==
  ASSUME EvalInv, [EvalNext]_evalVars
  PROVE  KnownInv'
<1>0. /\ KnownInv /\ phase \in Phases /\ known \in BOOLEAN /\ rows \in BOOLEAN
      /\ cron \in {"due", "holding", "over"}
  BY DEF EvalInv, EvalTypeOK
<1>1. CASE SetupProject
  <2>1. /\ ~known /\ ~rows /\ UNCHANGED <<summed, belief, collection, indexed, cron>>
    BY <1>1, <1>0 DEF SetupProject, KnownInv, rebuildVars
  <2>2. CASE known' = TRUE
    BY <1>1, <2>2 DEF SetupProject, KnownInv, Go, Raise
  <2>3. CASE known' = known
    <3>1. phase' = "raised" /\ (rows' = rows \/ leaks' = {"setup"})
      BY <1>1, <2>1, <2>3 DEF SetupProject, Go, Raise
    <3>2. QED
      BY <1>0, <2>1, <2>3, <3>1, <1>1 DEF SetupProject, KnownInv, PointsLeft, Early, Answering, Leaving
  <2>4. QED
    BY <1>1, <2>2, <2>3 DEF SetupProject
<1>2. CASE CronStarts
  <2>1. known
    BY <1>2, <1>0 DEF CronStarts, KnownInv
  <2>2. QED
    BY <1>2, <1>0, <2>1 DEF CronStarts, KnownInv, projectVars
<1>3. CASE CronFinishes
  <2>1. known
    BY <1>3, <1>0 DEF CronFinishes, KnownInv
  <2>2. QED
    BY <1>3, <1>0, <2>1 DEF CronFinishes, KnownInv
<1>4. CASE Killed
  <2>1. /\ phase' = "killed" /\ known' = known /\ cron' = cron
        /\ UNCHANGED <<rows, summed, belief, collection, indexed, leaks>>
    BY <1>4 DEF Killed, Go, projectVars
  <2>2. QED
    BY <1>0, <2>1 DEF KnownInv, PointsLeft, Early, Answering, Leaving
<1>5. CASE WriteReport
  <2>1. known /\ known' = known /\ phase' = "finished"
    BY <1>5, <1>0 DEF WriteReport, KnownInv, Go, Leaving
  <2>2. QED
    BY <2>1 DEF KnownInv, Early, Answering, Leaving
<1>6. CASE Reducing
  <2>1. UNCHANGED <<phase, known, rows, summed, belief, collection, indexed, leaks, cron>>
    BY <1>6 DEF Reducing, projectVars
  <2>2. QED
    BY <1>0, <2>1 DEF KnownInv, PointsLeft
<1>7. CASE DropCollection \/ DropRows
  <2>1. known /\ known' = known /\ phase' # "setup"
    BY <1>7, <1>0 DEF DropCollection, DropRows, KnownInv, Leaving, Go
  <2>2. QED
    BY <2>1 DEF KnownInv
<1>8. CASE Working
  <2>1. known /\ known' = known /\ phase' # "setup"
    BY <1>8, WorkingSteps
  <2>2. QED
    BY <2>1 DEF KnownInv
<1>9. CASE UNCHANGED evalVars
  BY <1>9, <1>0 DEF KnownInv, PointsLeft, evalVars, projectVars, rebuildVars
<1>10. QED
  BY <1>1, <1>2, <1>3, <1>4, <1>5, <1>6, <1>7, <1>8, <1>9 DEF EvalNext, Run, Working

LEMMA LeftKept ==
  ASSUME EvalInv, [EvalNext]_evalVars
  PROVE  LeftInv'
<1>0. /\ KnownInv /\ LeftInv /\ phase \in Phases /\ known \in BOOLEAN /\ rows \in BOOLEAN
      /\ cron \in {"due", "holding", "over"}
  BY DEF EvalInv, EvalTypeOK
<1>1. CASE SetupProject
  <2>1. ~known /\ ~rows /\ UNCHANGED <<summed, belief, collection, indexed>>
    BY <1>1, <1>0 DEF SetupProject, KnownInv
  <2>2. /\ ~PointsLeft /\ belief = NoVersion
        /\ \A d \in Documents : summed[d] = "none"
    BY <1>0, <2>1 DEF KnownInv
  <2>3. ~PointsLeft'
    BY <2>1, <2>2 DEF PointsLeft
  <2>4. CASE rows' = rows
    BY <2>1, <2>2, <2>3, <2>4 DEF LeftInv, RowsLeft
  <2>5. CASE phase' = "ingest"
    BY <2>5 DEF LeftInv
  <2>6. CASE leaks' = {"setup"}
    BY <2>3, <2>6 DEF LeftInv
  <2>7. QED
    BY <1>1, <2>4, <2>5, <2>6 DEF SetupProject, Go
<1>2. CASE DropCollection
  <2>1. phase' = "drop rows"
    BY <1>2 DEF DropCollection, Go
  <2>2. PointsLeft' => "collection" \in leaks'
    BY <1>2 DEF DropCollection, PointsLeft
  <2>3. QED
    BY <2>1, <2>2 DEF LeftInv
<1>3. CASE DropRows
  <2>1. RowsLeft' => "rows" \in leaks'
    BY <1>3 DEF DropRows, RowsLeft
  <2>2. PointsLeft => "collection" \in leaks
    BY <1>3, <1>0 DEF DropRows, LeftInv
  <2>3. PointsLeft' => "collection" \in leaks'
    BY <1>3, <2>2 DEF DropRows, PointsLeft
  <2>4. QED
    BY <2>1, <2>3 DEF LeftInv
<1>4. CASE WriteReport
  <2>1. /\ phase = "report" /\ phase' = "finished"
        /\ UNCHANGED <<rows, summed, belief, collection, indexed, leaks>>
    BY <1>4 DEF WriteReport, Go, projectVars
  <2>2. QED
    BY <1>0, <2>1 DEF LeftInv, RowsLeft, PointsLeft
<1>5. CASE Killed
  <2>1. phase' = "killed"
    BY <1>5 DEF Killed, Go
  <2>2. QED
    BY <2>1 DEF LeftInv
<1>6. CASE CronStarts \/ Reducing
  <2>1. UNCHANGED <<phase, rows, summed, belief, collection, indexed, leaks>>
    BY <1>6 DEF CronStarts, Reducing, projectVars
  <2>2. QED
    BY <1>0, <2>1 DEF LeftInv, RowsLeft, PointsLeft
<1>7. CASE CronFinishes
  <2>1. UNCHANGED <<phase, rows, summed, collection, indexed, leaks>>
    BY <1>7 DEF CronFinishes
  <2>2. rows \/ UNCHANGED belief
    BY <1>7 DEF CronFinishes
  <2>3. RowsLeft' => RowsLeft
    BY <2>1, <2>2 DEF RowsLeft
  <2>4. QED
    BY <1>0, <2>1, <2>3 DEF LeftInv, PointsLeft
<1>8. CASE Working
  BY <1>8, WorkingSteps DEF LeftInv
<1>9. CASE UNCHANGED evalVars
  BY <1>9, <1>0 DEF LeftInv, RowsLeft, PointsLeft, evalVars, projectVars
<1>10. QED
  BY <1>1, <1>2, <1>3, <1>4, <1>5, <1>6, <1>7, <1>8, <1>9 DEF EvalNext, Run, Working

-----------------------------------------------------------------------------
(* One version of the belief state answers all questions. *)

LEMMA BeliefKept ==
  ASSUME EvalInv, [EvalNext]_evalVars
  PROVE  BeliefInv'
<1>0. /\ BeliefInv /\ LockInv /\ VersionInv /\ KnownInv
      /\ phase \in Phases /\ cron \in {"due", "holding", "over"}
      /\ belief.covers \in SUBSET Documents
      /\ results \in Seq([first : {"cag", "rag"}, scores : Scores \X Scores, version : 0..2])
  BY DEF EvalInv, EvalTypeOK
<1>a. ASSUME phase' \notin Early \cup Answering PROVE BeliefInv'
  BY <1>a DEF BeliefInv, OneBeliefState, Answering
<1>b. ASSUME UNCHANGED <<phase, results, cag, belief, summed>>, phase \in Answering => cron' # "holding"
      PROVE  BeliefInv'
  BY <1>0, <1>b DEF BeliefInv, OneBeliefState, Usable
<1>1. CASE SetupProject \/ ChunkDocument \/ ChunkLoop \/ UpsertDocument \/ SummarizeDocument
  <2>1. phase \in Early /\ results' = results
    BY <1>1 DEF SetupProject, ChunkDocument, ChunkLoop, UpsertDocument, SummarizeDocument, Early,
             armVars
  <2>2. phase' \notin Answering
    BY <1>1, <2>1 DEF SetupProject, ChunkDocument, ChunkLoop, UpsertDocument, SummarizeDocument,
                   Answering, Early, Go, Raise
  <2>3. QED
    BY <1>0, <2>1, <2>2 DEF BeliefInv, OneBeliefState, Answering
<1>2. CASE StartRebuild
  <2>1. /\ phase = "rebuild" /\ lock = "free" /\ phase' \in {"rebuilding", "cag"}
        /\ UNCHANGED <<results, summed, belief, cron>>
    BY <1>2 DEF StartRebuild, Go, armVars, projectVars
  <2>2. results = <<>> /\ cron # "holding"
    BY <1>0, <2>1 DEF BeliefInv, Early, LockInv
  <2>3. phase' = "cag" => Usable = {}
    BY <1>2 DEF StartRebuild, Go, RunsWindow, WholeLog
  <2>4. Usable' = Usable
    BY <2>1 DEF Usable
  <2>5. QED
    BY <2>1, <2>2, <2>3, <2>4 DEF BeliefInv, OneBeliefState, Answering
<1>3. CASE FinishRebuild
  <2>1. /\ phase = "rebuilding" /\ UNCHANGED <<results, summed, cron>>
        /\ phase' \notin Early
    BY <1>3 DEF FinishRebuild, Go, Raise, armVars, Early
  <2>2. results = <<>> /\ lock = "run" /\ cron # "holding"
    BY <1>0, <2>1 DEF BeliefInv, Early, LockInv
  <2>3. CASE reducing = "reduced" /\ InsertVersion /\ Go("cag")
    <3>1. Covered = Usable
      BY <2>2, <2>3, CoveredByRun DEF EvalInv
    <3>2. belief'.covers = Usable
      BY <2>3, <3>1 DEF InsertVersion
    <3>3. Usable' = Usable
      BY <2>1 DEF Usable
    <3>4. phase' = "cag"
      BY <2>3 DEF Go
    <3>5. QED
      BY <2>1, <2>2, <3>2, <3>3, <3>4 DEF BeliefInv, OneBeliefState, Early
  <2>4. CASE Raise
    BY <1>a, <2>1, <2>4 DEF Raise, Go, Early, Answering
  <2>5. QED
    BY <1>3, <2>3, <2>4 DEF FinishRebuild
<1>4. CASE CagArm \/ RagArm
  <2>1. CASE Raise
    BY <1>a, <2>1 DEF Raise, Go, Early, Answering
  <2>2. CASE ~Raise
    <3>1. /\ phase \in {"cag", "rag"} /\ phase' \in {"rag", "judge"}
          /\ UNCHANGED <<results, summed, belief, cron>>
      BY <1>4, <2>2 DEF CagArm, RagArm, Go, armVars, projectVars, rebuildVars
    <3>2. cag'.version = belief.version
      BY <1>4, <2>2, <1>0 DEF CagArm, RagArm, BeliefInv
    <3>3. QED
      BY <1>0, <3>1, <3>2 DEF BeliefInv, OneBeliefState, Usable, Answering, Early
  <2>3. QED
    BY <2>1, <2>2
<1>5. CASE JudgeValid
  <2>1. PICK first \in {"cag", "rag"}, scores \in Scores \X Scores :
            results' = Append(results, [first |-> first, scores |-> scores,
                                        version |-> cag.version])
    BY <1>5, JudgementTypes
  <2>2. /\ phase = "judge" /\ phase' \in {"write", "cag"}
        /\ UNCHANGED <<summed, belief, cron>>
    BY <1>5 DEF JudgeValid, Go, projectVars, rebuildVars
  <2>3. /\ cag.version = belief.version /\ cron # "holding" /\ Usable \subseteq belief.covers
        /\ \A i \in 1..Len(results) : results[i].version = belief.version
    BY <1>0, <2>2 DEF BeliefInv, OneBeliefState, Answering
  <2>4. \A i \in 1..Len(results') : results'[i].version = belief.version
    <3> DEFINE new == [first |-> first, scores |-> scores, version |-> cag.version]
    <3>1. new.version = belief.version
      BY <2>3
    <3> HIDE DEF new
    <3>2. /\ Len(results') = Len(results) + 1 /\ Len(results) \in Nat
          /\ results'[Len(results) + 1] = new
          /\ \A i \in 1..Len(results) : results'[i] = results[i]
      BY <1>0, <2>1 DEF new
    <3>3. QED
      BY <2>3, <3>1, <3>2
  <2>5. Usable' = Usable
    BY <2>2 DEF Usable
  <2>6. QED
    BY <2>2, <2>3, <2>4, <2>5 DEF BeliefInv, OneBeliefState, Early
<1>6. CASE JudgeFails
  <2>1. CASE Raise
    BY <1>a, <2>1 DEF Raise, Go, Early, Answering
  <2>2. CASE ~Raise
    BY <1>6, <1>0, <1>b, <2>2 DEF JudgeFails, BeliefInv, Answering, projectVars, rebuildVars
  <2>3. QED
    BY <2>1, <2>2
<1>7. CASE WriteResults \/ DropCollection \/ DropRows \/ WriteReport \/ Killed
  <2>1. phase' \notin Early \cup Answering
    BY <1>7 DEF WriteResults, DropCollection, DropRows, WriteReport, Killed, Go, Raise, Early, Answering
  <2>2. QED
    BY <1>a, <2>1
<1>8. CASE Reducing
  BY <1>8, <1>0, <1>b DEF Reducing, BeliefInv, armVars, projectVars
<1>9. CASE CronStarts
  <2>1. UNCHANGED <<phase, results, cag, belief, summed>>
    BY <1>9 DEF CronStarts, armVars, projectVars
  <2>2. ASSUME phase \in Answering PROVE cron' # "holding"
    <3>1. Usable \subseteq belief.covers
      BY <1>0, <2>2 DEF BeliefInv, OneBeliefState, Answering
    <3>2. SinceWatermark = {}
      BY <1>0, <3>1, NothingNew DEF VersionInv
    <3>3. QED
      BY <1>9, <3>2 DEF CronStarts, Reduce
  <2>3. QED
    BY <1>b, <2>1, <2>2
<1>10. CASE CronFinishes
  <2>1. phase \notin Answering /\ phase' = phase /\ results' = results
    BY <1>10, <1>0 DEF CronFinishes, BeliefInv, armVars
  <2>2. QED
    BY <1>0, <2>1 DEF BeliefInv, OneBeliefState, Answering
<1>11. CASE UNCHANGED evalVars
  BY <1>11, <1>0 DEF BeliefInv, OneBeliefState, Usable, evalVars, projectVars, rebuildVars,
     armVars
<1>12. QED
  BY <1>1, <1>2, <1>3, <1>4, <1>5, <1>6, <1>7, <1>8, <1>9, <1>10, <1>11 DEF EvalNext, Run

(* What a found set of chunks does to the cache and to the next search. *)
LEMMA CachedAnswer ==
  ASSUME EvalInv, phase = "cag", NEW found, ArmAnswer(Question, "cag", belief.version, found)
  PROVE  cache'[Question] = {found}
<1>1. Question \in 1..Questions /\ cache \in [1..Questions -> SUBSET SUBSET Documents]
  BY NextQuestion DEF EvalInv, EvalTypeOK
<1>2. QED
  BY <1>1 DEF ArmAnswer

LEMMA ArmsKept ==
  ASSUME EvalInv, [EvalNext]_evalVars
  PROVE  ArmsInv'
<1>0. /\ ArmsInv /\ phase \in Phases /\ Len(results) \in Nat
  BY DEF EvalInv, EvalTypeOK
<1>a. ASSUME phase' \notin {"cag", "rag", "judge"} PROVE ArmsInv'
  BY <1>a DEF ArmsInv
<1>1. CASE SetupProject \/ ChunkDocument \/ ChunkLoop \/ UpsertDocument \/ SummarizeDocument
  <2>1. phase' \notin {"cag", "rag", "judge"}
    BY <1>1 DEF SetupProject, ChunkDocument, ChunkLoop, UpsertDocument, SummarizeDocument, Go, Raise
  <2>2. QED
    BY <1>a, <2>1
<1>2. CASE StartRebuild \/ FinishRebuild
  <2>1. phase' \notin {"rag", "judge"} /\ results' = results /\ phase \in Early
    BY <1>2 DEF StartRebuild, FinishRebuild, Go, Raise, armVars, Early
  <2>2. results = <<>>
    BY <2>1 DEF EvalInv, BeliefInv
  <2>3. Len(results') = 0
    BY <2>1, <2>2
  <2>4. Len(results') < Questions
    BY <2>3, CorpusBounds
  <2>5. QED
    BY <2>1, <2>4 DEF ArmsInv
<1>3. CASE CagArm
  <2>1. CASE Raise
    BY <1>a, <2>1 DEF Raise, Go
  <2>2. CASE ~Raise
    <3>1. PICK found \in Retrieved(Question) :
             /\ ArmAnswer(Question, "cag", belief.version, found)
             /\ cag' = [chunks |-> found, version |-> belief.version, tokens |-> spy']
             /\ Go("rag")
      BY <1>3, <2>2 DEF CagArm
    <3>2. phase = "cag" /\ results' = results
      BY <1>3 DEF CagArm
    <3>3. cache'[Question] = {found} /\ Question' = Question
      BY <3>1, <3>2, CachedAnswer DEF Question
    <3>4. cag'.chunks = found /\ phase' = "rag"
      BY <3>1 DEF Go
    <3>5. QED
      BY <1>0, <3>2, <3>3, <3>4 DEF ArmsInv
  <2>3. QED
    BY <2>1, <2>2
<1>4. CASE RagArm
  <2>1. CASE Raise
    BY <1>a, <2>1 DEF Raise, Go
  <2>2. CASE ~Raise
    <3>1. PICK found \in Retrieved(Question) :
             /\ rag' = [chunks |-> found, version |-> 0, tokens |-> spy']
             /\ found = cag.chunks /\ Go("judge")
      BY <1>4, <2>2 DEF RagArm
    <3>2. phase = "rag" /\ results' = results /\ cag' = cag
      BY <1>4 DEF RagArm
    <3>3. rag'.chunks = found /\ rag'.version = 0 /\ phase' = "judge"
      BY <3>1 DEF Go
    <3>4. QED
      BY <1>0, <3>1, <3>2, <3>3 DEF ArmsInv
  <2>3. QED
    BY <2>1, <2>2
<1>5. CASE JudgeValid
  <2>1. phase = "judge" /\ phase' = (IF Question = Questions THEN "write" ELSE "cag")
    BY <1>5 DEF JudgeValid, Go
  <2>2. PICK one : results' = Append(results, one)
    BY <1>5 DEF JudgeValid
  <2>3. Len(results') = Len(results) + 1
    BY <2>2 DEF EvalInv, EvalTypeOK
  <2>4. CASE Len(results) + 1 = Questions
    BY <1>a, <2>1, <2>4 DEF Question
  <2>5. CASE Len(results) + 1 # Questions
    <3>1. Len(results') < Questions
      BY <1>0, <2>1, <2>3, <2>5, CorpusBounds DEF ArmsInv
    <3>2. phase' = "cag"
      BY <2>1, <2>5 DEF Question
    <3>3. QED
      BY <3>1, <3>2 DEF ArmsInv
  <2>6. QED
    BY <2>4, <2>5
<1>6. CASE JudgeFails
  <2>1. CASE Raise
    BY <1>a, <2>1 DEF Raise, Go
  <2>2. CASE ~Raise
    BY <1>6, <1>0, <2>2 DEF JudgeFails, ArmsInv
  <2>3. QED
    BY <2>1, <2>2
<1>7. CASE WriteResults \/ DropCollection \/ DropRows \/ WriteReport \/ Killed
  <2>1. phase' \notin {"cag", "rag", "judge"}
    BY <1>7 DEF WriteResults, DropCollection, DropRows, WriteReport, Killed, Go, Raise
  <2>2. QED
    BY <1>a, <2>1
<1>8. CASE Reducing \/ CronStarts \/ CronFinishes
  <2>1. UNCHANGED <<phase, results, cache, cag, rag>>
    BY <1>8 DEF Reducing, CronStarts, CronFinishes, armVars
  <2>2. QED
    BY <1>0, <2>1 DEF ArmsInv, Question
<1>9. CASE UNCHANGED evalVars
  BY <1>9, <1>0 DEF ArmsInv, Question, evalVars, armVars
<1>10. QED
  BY <1>1, <1>2, <1>3, <1>4, <1>5, <1>6, <1>7, <1>8, <1>9 DEF EvalNext, Run

-----------------------------------------------------------------------------
(* The results file, and the scores in it. *)

LEMMA FileKept ==
  ASSUME EvalInv, [EvalNext]_evalVars
  PROVE  FileInv'
<1>0. FileInv /\ ArmsInv /\ phase \in Phases /\ Len(results) \in Nat
  BY DEF EvalInv, EvalTypeOK
<1>1. CASE JudgeValid
  <2>1. /\ phase = "judge" /\ phase' = (IF Question = Questions THEN "write" ELSE "cag")
        /\ UNCHANGED <<file, report>>
    BY <1>1 DEF JudgeValid, Go, outVars
  <2>2. PICK one : results' = Append(results, one)
    BY <1>1 DEF JudgeValid
  <2>3. Len(results') = Question
    BY <2>2 DEF EvalInv, EvalTypeOK, Question
  <2>4. file # "whole" /\ report = NoReport
    BY <1>0, <2>1 DEF FileInv
  <2>5. phase' = "write" => Len(results') = Questions
    BY <2>1, <2>3
  <2>6. phase' \in {"write", "cag"}
    BY <2>1
  <2>7. QED
    BY <2>1, <2>4, <2>5, <2>6 DEF FileInv
<1>2. CASE WriteResults
  <2>1. phase = "write" /\ results' = results /\ report' = report
    BY <1>2 DEF WriteResults, armVars
  <2>2. Len(results) = Questions /\ report = NoReport
    BY <1>0, <2>1 DEF FileInv
  <2>3. phase' = "drop collection" \/ (phase' = "raised" /\ file' # "whole")
    BY <1>2 DEF WriteResults, Go, Raise
  <2>4. QED
    BY <2>1, <2>2, <2>3 DEF FileInv
<1>3. CASE DropCollection
  <2>1. phase = "drop collection" /\ phase' = "drop rows" /\ UNCHANGED <<file, report>>
    BY <1>3 DEF DropCollection, Go, outVars
  <2>2. file = "whole" => results' = results
    BY <1>3 DEF DropCollection
  <2>3. QED
    BY <1>0, <2>1, <2>2 DEF FileInv
<1>4. CASE DropRows
  <2>1. /\ phase = "drop rows" /\ phase' = (IF file = "whole" THEN "report" ELSE "raised")
        /\ UNCHANGED <<file, report, results>>
    BY <1>4 DEF DropRows, Go, outVars, armVars
  <2>2. QED
    BY <1>0, <2>1 DEF FileInv
<1>5. CASE WriteReport
  <2>1. phase = "report" /\ phase' = "finished" /\ UNCHANGED <<file, results>>
    BY <1>5 DEF WriteReport, Go, armVars
  <2>2. QED
    BY <1>0, <2>1 DEF FileInv
<1>6. CASE Killed
  <2>1. phase \notin Ended /\ phase' = "killed" /\ report' = report
    BY <1>6 DEF Killed, Go, outVars
  <2>2. QED
    BY <1>0, <2>1 DEF FileInv, Ended
<1>7. CASE Reducing \/ CronStarts \/ CronFinishes
  <2>1. UNCHANGED <<phase, results, file, report>>
    BY <1>7 DEF Reducing, CronStarts, CronFinishes, armVars, outVars
  <2>2. QED
    BY <1>0, <2>1 DEF FileInv
<1>8. CASE SetupProject \/ ChunkDocument \/ ChunkLoop \/ UpsertDocument \/ SummarizeDocument
  <2>1. /\ phase \notin {"drop collection", "drop rows", "report", "finished", "killed"}
        /\ phase' \notin {"write", "report", "finished"}
        /\ UNCHANGED <<file, report>>
    BY <1>8 DEF SetupProject, ChunkDocument, ChunkLoop, UpsertDocument, SummarizeDocument, Go, Raise, outVars
  <2>2. QED
    BY <1>0, <2>1 DEF FileInv
<1>9. CASE StartRebuild \/ FinishRebuild \/ CagArm \/ RagArm \/ JudgeFails
  <2>1. /\ phase \notin {"drop collection", "drop rows", "report", "finished", "killed"}
        /\ phase' \notin {"write", "report", "finished"}
        /\ UNCHANGED <<file, report>>
    BY <1>9 DEF StartRebuild, FinishRebuild, CagArm, RagArm, JudgeFails, Go, Raise, outVars
  <2>2. QED
    BY <1>0, <2>1 DEF FileInv
<1>10. CASE UNCHANGED evalVars
  BY <1>10, <1>0 DEF FileInv, evalVars, armVars, outVars
<1>11. QED
  BY <1>1, <1>2, <1>3, <1>4, <1>5, <1>6, <1>7, <1>8, <1>9, <1>10 DEF EvalNext, Run

(* The scores by answer, as a function, as the report unblinds them and as  *)
(* the calibration does.                                                    *)
LEMMA UnblindedScores ==
  ASSUME NEW first \in {"cag", "rag"}, NEW scores \in Scores \X Scores, NEW version
  PROVE  LET shown == [arm \in {"cag", "rag"} |-> IF arm = first THEN scores[1] ELSE scores[2]]
             result == [first |-> first, scores |-> scores, version |-> version]
         IN  shown = Unblinded(result) /\ shown = JudgeGrades(result)
<1> DEFINE shown == [arm \in {"cag", "rag"} |-> IF arm = first THEN scores[1] ELSE scores[2]]
           result == [first |-> first, scores |-> scores, version |-> version]
<1>1. shown = Unblinded(result)
  BY DEF Unblinded
<1>2. shown = JudgeGrades(result)
  BY DEF JudgeGrades
<1>3. QED
  BY <1>1, <1>2

(* Why the mock's judge lets the CAG arm win where there is a belief state, *)
(* on the axes on which it prefers an answer.                               *)
LEMMA MockPrefersCag ==
  ASSUME mock, NEW first \in {"cag", "rag"}, NEW scores \in Verdicts(first), cag.version # 0
  PROVE  MockGave([arm \in {"cag", "rag"} |-> IF arm = first THEN scores[1] ELSE scores[2]])
<1>1. scores = MockScores(first)
  BY DEF Verdicts
<1>2. CASE Axis = "conflict_handling"
  <2>1. scores = <<3, 3>>
    BY <1>1, <1>2 DEF MockScores
  <2>2. QED
    BY <1>2, <2>1 DEF MockGave
<1>3. CASE Axis # "conflict_handling" /\ first = "cag"
  <2>1. scores = <<4, 2>>
    BY <1>1, <1>3 DEF MockScores, Detailed, Other
  <2>2. QED
    BY <1>3, <2>1 DEF MockGave
<1>4. CASE Axis # "conflict_handling" /\ first = "rag"
  <2>1. scores = <<2, 4>>
    BY <1>1, <1>4 DEF MockScores, Detailed, Other
  <2>2. QED
    BY <1>4, <2>1 DEF MockGave
<1>5. QED
  BY <1>2, <1>3, <1>4

(* A report of scores that all prefer one arm, and one of even scores. *)
LEMMA AllAlike ==
  ASSUME NEW human, NEW scores, NEW grades, \A q \in 1..Questions : MockGave(scores[q])
  PROVE  LET all == Aggregate(human, scores, grades)
         IN  (IF Axis = "conflict_handling" THEN all.tie ELSE all.better) = Questions
<1> DEFINE delta == [q \in 1..Questions |-> scores[q].cag - scores[q].rag]
           judged == Aggregate(human, scores, grades)
<1>1. Cardinality(1..Questions) = Questions
  BY CorpusBounds, FS_Interval
<1>2. /\ judged.better = Cardinality({q \in 1..Questions : delta[q] > 0})
      /\ judged.tie = Cardinality({q \in 1..Questions : delta[q] = 0})
  BY DEF Aggregate
<1>3. CASE Axis = "conflict_handling"
  <2>1. \A q \in 1..Questions : delta[q] = 0
    BY <1>3 DEF MockGave
  <2>2. {q \in 1..Questions : delta[q] = 0} = 1..Questions
    BY <2>1
  <2>3. QED
    BY <1>1, <1>2, <1>3, <2>2
<1>4. CASE Axis # "conflict_handling"
  <2>1. \A q \in 1..Questions : delta[q] > 0
    BY <1>4 DEF MockGave
  <2>2. {q \in 1..Questions : delta[q] > 0} = 1..Questions
    BY <2>1
  <2>3. QED
    BY <1>1, <1>2, <1>4, <2>2
<1>5. QED
  BY <1>3, <1>4

LEMMA ScoresKept ==
  ASSUME EvalInv, [EvalNext]_evalVars
  PROVE  ScoresInv'
<1>0. /\ ScoresInv /\ FileInv /\ phase \in Phases /\ Len(results) \in Nat
      /\ results \in Seq([first : {"cag", "rag"}, scores : Scores \X Scores, version : 0..2])
      /\ given \in Seq([{"cag", "rag"} -> Scores])
  BY DEF EvalInv, EvalTypeOK
<1>a. ASSUME UNCHANGED <<mock, results, given, report>> PROVE ScoresInv'
  BY <1>0, <1>a DEF ScoresInv, ScoresReachTheirArm
<1>b. ASSUME results' = <<>>, given' = <<>>, report' = NoReport PROVE ScoresInv'
  <2>1. Len(results') = 0 /\ Len(given') = 0
    BY <1>b
  <2>2. QED
    BY <1>b, <2>1 DEF ScoresInv, ScoresReachTheirArm
<1>1. CASE JudgeValid
  <2>1. PICK first \in {"cag", "rag"}, scores \in Scores \X Scores :
            /\ scores \in Verdicts(first)
            /\ results' = Append(results, [first |-> first, scores |-> scores,
                                           version |-> cag.version])
            /\ given' = Append(given, [arm \in {"cag", "rag"} |->
                                          IF arm = first THEN scores[1] ELSE scores[2]])
    BY <1>1, JudgementTypes
  <2> DEFINE result == [first |-> first, scores |-> scores, version |-> cag.version]
             shown == [arm \in {"cag", "rag"} |-> IF arm = first THEN scores[1] ELSE scores[2]]
  <2>2. shown = Unblinded(result) /\ shown = JudgeGrades(result) /\ result.version = cag.version
    BY UnblindedScores
  <2>3. mock /\ cag.version # 0 => MockGave(shown)
    BY <2>1, MockPrefersCag
  <2>4. results' = Append(results, result) /\ given' = Append(given, shown)
    BY <2>1
  <2> HIDE DEF result, shown
  <2>5. /\ Len(results') = Len(results) + 1 /\ results'[Len(results) + 1] = result
        /\ \A i \in 1..Len(results) : results'[i] = results[i]
    BY <1>0, <2>4
  <2>6. /\ Len(given') = Len(given) + 1 /\ given'[Len(given) + 1] = shown
        /\ \A i \in 1..Len(given) : given'[i] = given[i]
    BY <1>0, <2>4
  <2>7. Len(given) = Len(results)
    BY <1>0 DEF ScoresInv
  <2>8. mock' = mock /\ report' = report /\ report = NoReport
    BY <1>1, <1>0 DEF JudgeValid, outVars, FileInv
  <2>9. \A i \in 1..Len(results') : i \in 1..Len(results) \/ i = Len(results) + 1
    BY <1>0, <2>5
  <2>10. ASSUME NEW i \in 1..Len(results')
         PROVE  /\ given'[i] = Unblinded(results'[i]) /\ given'[i] = JudgeGrades(results'[i])
                /\ mock' /\ results'[i].version # 0 => MockGave(given'[i])
    <3>1. CASE i \in 1..Len(results)
      <4>1. given'[i] = given[i] /\ results'[i] = results[i]
        BY <2>5, <2>6, <2>7, <3>1
      <4>2. QED
        BY <1>0, <2>8, <3>1, <4>1 DEF ScoresInv
    <3>2. CASE i = Len(results) + 1
      <4>1. given'[i] = shown /\ results'[i] = result
        BY <2>5, <2>6, <2>7, <3>2
      <4>2. QED
        BY <2>2, <2>3, <2>8, <4>1
    <3>3. QED
      BY <2>9, <3>1, <3>2
  <2>11. Len(given') = Len(results')
    BY <2>5, <2>6, <2>7
  <2>12. ScoresReachTheirArm'
    BY <2>8 DEF ScoresReachTheirArm
  <2>13. QED
    BY <2>10, <2>11, <2>12 DEF ScoresInv, Unblinded, JudgeGrades, MockGave
<1>2. CASE DropCollection
  <2>1. /\ UNCHANGED <<mock, report>> /\ report = NoReport
        /\ UNCHANGED <<results, given>> \/ (results' = <<>> /\ given' = <<>>)
    BY <1>2, <1>0 DEF DropCollection, outVars, FileInv
  <2>2. QED
    BY <1>a, <1>b, <2>1
<1>3. CASE Killed
  <2>1. results' = <<>> /\ given' = <<>> /\ report' = report /\ phase \notin Ended
    BY <1>3 DEF Killed, outVars
  <2>2. report = NoReport
    BY <1>0, <2>1 DEF FileInv, Ended
  <2>3. QED
    BY <1>b, <2>1, <2>2
<1>4. CASE WriteReport
  <2>1. UNCHANGED <<mock, results, given>> /\ phase = "report"
    BY <1>4 DEF WriteReport, armVars
  <2>2. Len(results) = Questions /\ Len(given) = Questions
    BY <1>0, <2>1 DEF FileInv, ScoresInv
  <2>3. /\ [q \in 1..Questions |-> Unblinded(results[q])] = given
        /\ [q \in 1..Questions |-> JudgeGrades(results[q])] = given
    <3>1. \A q \in 1..Questions : given[q] = Unblinded(results[q])
      BY <1>0, <2>2 DEF ScoresInv
    <3>2. \A q \in 1..Questions : given[q] = JudgeGrades(results[q])
      BY <1>0, <2>2 DEF ScoresInv
    <3>3. given = [q \in 1..Questions |-> given[q]]
      BY <1>0, <2>2
    <3>4. QED
      BY <3>1, <3>2, <3>3
  <2>4. CASE UNCHANGED report
    BY <1>a, <2>1, <2>4
  <2>5. ASSUME NEW human \in HumanGrades, report' = Aggregate(human, given, given)
        PROVE  ScoresInv'
    <3>1. ASSUME mock, \A i \in 1..Questions : results[i].version # 0
          PROVE  (IF Axis = "conflict_handling" THEN report'.tie ELSE report'.better) = Questions
      <4>1. \A q \in 1..Questions : MockGave(given[q])
        BY <1>0, <2>2, <3>1 DEF ScoresInv
      <4>2. QED
        BY <2>5, <4>1, AllAlike
    <3>2. ScoresReachTheirArm'
      <4>1. \E h \in HumanGrades : report' = Aggregate(h, given', given')
        BY <2>1, <2>5
      <4>2. mock' /\ (\A i \in 1..Questions : results'[i].version # 0) =>
              (IF Axis = "conflict_handling" THEN report'.tie ELSE report'.better) = Questions
        BY <2>1, <3>1
      <4>3. QED
        BY <4>1, <4>2 DEF ScoresReachTheirArm
    <3>3. QED
      BY <1>0, <2>1, <3>2 DEF ScoresInv
  <2>6. QED
    BY <1>4, <2>3, <2>4, <2>5 DEF WriteReport
<1>5. CASE SetupProject
  BY <1>5, <1>a DEF SetupProject, evalVars, armVars, outVars
<1>6. CASE ChunkDocument
  BY <1>6, <1>a DEF ChunkDocument, evalVars, armVars, outVars
<1>7. CASE ChunkLoop
  BY <1>7, <1>a DEF ChunkLoop, evalVars, armVars, outVars
<1>8. CASE UpsertDocument
  BY <1>8, <1>a DEF UpsertDocument, evalVars, armVars, outVars
<1>9. CASE SummarizeDocument
  BY <1>9, <1>a DEF SummarizeDocument, evalVars, armVars, outVars
<1>10. CASE StartRebuild
  BY <1>10, <1>a DEF StartRebuild, evalVars, armVars, outVars
<1>11. CASE FinishRebuild
  BY <1>11, <1>a DEF FinishRebuild, evalVars, armVars, outVars
<1>12. CASE CagArm
  BY <1>12, <1>a DEF CagArm, evalVars, armVars, outVars
<1>13. CASE RagArm
  BY <1>13, <1>a DEF RagArm, evalVars, armVars, outVars
<1>14. CASE JudgeFails
  BY <1>14, <1>a DEF JudgeFails, evalVars, armVars, outVars
<1>15. CASE WriteResults
  BY <1>15, <1>a DEF WriteResults, evalVars, armVars, outVars
<1>16. CASE DropRows
  BY <1>16, <1>a DEF DropRows, evalVars, armVars, outVars
<1>17. CASE Reducing
  BY <1>17, <1>a DEF Reducing, evalVars, armVars, outVars
<1>18. CASE CronStarts
  BY <1>18, <1>a DEF CronStarts, evalVars, armVars, outVars
<1>19. CASE CronFinishes
  BY <1>19, <1>a DEF CronFinishes, evalVars, armVars, outVars
<1>20. CASE UNCHANGED evalVars
  BY <1>20, <1>a DEF evalVars, armVars, outVars
<1>21. QED
  BY <1>1, <1>2, <1>3, <1>4, <1>5, <1>6, <1>7, <1>8, <1>9, <1>10, <1>11, <1>12, <1>13, <1>14,
     <1>15, <1>16, <1>17, <1>18, <1>19, <1>20 DEF EvalNext, Run

-----------------------------------------------------------------------------
LEMMA EvalInvInit == EvalInit => EvalInv
<1> SUFFICES ASSUME EvalInit PROVE EvalInv
  OBVIOUS
<1>1. /\ phase \in {"setup", "raised"} /\ lock = "free" /\ cron = "due"
      /\ belief = NoVersion /\ ~known /\ ~rows /\ leaks = {}
      /\ summed = [d \in Documents |-> "none"] /\ ~collection /\ indexed = {}
      /\ results = <<>> /\ given = <<>> /\ window = <<>>
      /\ file \in {"none", "earlier"} /\ report = NoReport
  BY DEF EvalInit, Loaded
<1>2. ChunkerInv /\ ReduceInv
  BY ReduceAssumption, ChunkerInvInit, ReduceInvInit DEF EvalInit
<1>3. EvalTypeOK
  <2>1. ControlTypes
    <3>1. doc \in Documents
      BY CorpusBounds DEF EvalInit, Documents
    <3>2. parses \in 0..1
      <4>1. 0 \in 0..1
        OBVIOUS
      <4>2. QED
        BY <4>1 DEF EvalInit
    <3>3. report.judged = 0
      BY <1>1 DEF NoReport
    <3>4. QED
      BY <1>1, <3>1, <3>2, <3>3 DEF EvalInit, ControlTypes, Phases
  <2>2. ProjectTypes
    <3>1. summed \in [Documents -> {"none", "fallback", "usable"}]
      BY <1>1
    <3>2. collection \in BOOLEAN /\ indexed \in SUBSET Documents
      BY DEF EvalInit
    <3>3. QED
      BY <1>1, <3>1, <3>2, NoVersionType DEF ProjectTypes
  <2>3. RebuildTypes
    BY <1>1, EmptySeq DEF RebuildTypes
  <2>4. ArmTypes
    BY NoArmType, EmptyCacheType DEF EvalInit, ArmTypes
  <2>5. ResultTypes
    BY <1>1, EmptySeq DEF ResultTypes
  <2>6. QED
    BY <1>2, <2>1, <2>2, <2>3, <2>4, <2>5, TypesByGroup DEF ChunkerInv, ReduceInv
<1>4. LockInv
  BY <1>1 DEF LockInv
<1>5. VersionInv
  <2>1. belief.version = 0
    BY <1>1 DEF NoVersion
  <2>2. QED
    BY <1>1, <2>1 DEF VersionInv
<1>6. KnownInv
  BY <1>1 DEF KnownInv, PointsLeft, Early, Answering, Leaving
<1>7. LeftInv
  BY <1>1 DEF LeftInv, RowsLeft, PointsLeft
<1>8. BeliefInv
  BY <1>1 DEF BeliefInv, OneBeliefState, Answering
<1>9. ArmsInv
  BY <1>1 DEF ArmsInv
<1>10. FileInv
  BY <1>1 DEF FileInv
<1>11. ScoresInv
  <2>1. Len(results) = 0 /\ Len(given) = 0
    BY <1>1
  <2>2. QED
    BY <1>1, <2>1 DEF ScoresInv, ScoresReachTheirArm
<1>12. QED
  BY <1>2, <1>3, <1>4, <1>5, <1>6, <1>7, <1>8, <1>9, <1>10, <1>11 DEF EvalInv

LEMMA EvalInvStep == EvalInv /\ [EvalNext]_evalVars => EvalInv'
<1> SUFFICES ASSUME EvalInv, [EvalNext]_evalVars PROVE EvalInv'
  OBVIOUS
<1>1. ChunkerInv' /\ ReduceInv'
  BY ChunkerKept, ReduceKept DEF EvalInv
<1>2. ControlTypes /\ ProjectTypes /\ RebuildTypes /\ ArmTypes /\ ResultTypes
  BY TypesByGroup DEF EvalInv, EvalTypeOK
<1>3. ControlTypes' /\ ProjectTypes' /\ RebuildTypes' /\ ArmTypes' /\ ResultTypes'
  BY <1>2, ControlTypesKept, ProjectTypesKept, RebuildTypesKept, ArmTypesKept, ResultTypesKept
<1>4. EvalTypeOK'
  <2>1. ChunkerTypeOK' /\ ReduceTypeOK'
    BY <1>1 DEF ChunkerInv, ReduceInv
  <2>2. QED
    BY <1>3, <2>1 DEF EvalTypeOK, ControlTypes, ProjectTypes, RebuildTypes, ArmTypes, ResultTypes,
                      Answers
<1>5. LockInv' /\ VersionInv' /\ KnownInv' /\ LeftInv'
  BY LockKept, VersionKept, KnownKept, LeftKept
<1>6. BeliefInv' /\ ArmsInv' /\ FileInv' /\ ScoresInv'
  BY BeliefKept, ArmsKept, FileKept, ScoresKept
<1>7. QED
  BY <1>1, <1>4, <1>5, <1>6 DEF EvalInv

LEMMA EvalIsInv == EvalSpec => []EvalInv
<1>1. QED
  BY EvalInvInit, EvalInvStep, PTL DEF EvalSpec

-----------------------------------------------------------------------------
(* The state of an evaluation keeps its types; with the cron's there are    *)
(* never more than two versions, and a judge is asked at most twice.        *)
THEOREM EvalTypeCorrect == EvalSpec => []EvalTypeOK
<1>1. EvalInv => EvalTypeOK
  BY DEF EvalInv
<1>2. QED
  BY <1>1, EvalIsInv, PTL

(* For every corpus and wherever a run fails: what it leaves behind when it *)
(* has ended is explained by a lost answer to its first commit or by a      *)
(* teardown that failed (run_eval.py:421-422, 494-504).                     *)
THEOREM TeardownHolds == EvalSpec => []NothingLeftBehind
<1>1. EvalInv => NothingLeftBehind
  BY DEF EvalInv, LeftInv, NothingLeftBehind, RowsLeft, PointsLeft
<1>2. QED
  BY <1>1, EvalIsInv, PTL

(* For every corpus, every set of documents dated in the past and whatever  *)
(* the weekly cron does: the questions are answered from one version, of    *)
(* everything usable (run_eval.py:307-309).                                 *)
THEOREM OneBeliefStateHolds == EvalSpec => []OneBeliefState
<1>1. EvalInv => OneBeliefState
  BY DEF EvalInv, BeliefInv
<1>2. QED
  BY <1>1, EvalIsInv, PTL

(* However Qdrant breaks ties, the judge compares answers from the same     *)
(* chunks (run_eval.py:161-190, 195-196).                                   *)
THEOREM FairComparison == EvalSpec => []OnlyTheBeliefStateDiffers
<1>1. ASSUME EvalInv PROVE OnlyTheBeliefStateDiffers
  <2>1. ArmsInv
    BY <1>1 DEF EvalInv
  <2>2. phase = "rag" => Retrieved(Question) = {cag.chunks}
    BY <2>1 DEF ArmsInv, Retrieved
  <2>3. QED
    BY <2>1, <2>2 DEF ArmsInv, OnlyTheBeliefStateDiffers
<1>2. QED
  BY <1>1, EvalIsInv, PTL

(* For any scores, any order of the answers and any human grades: a report  *)
(* is of the scores each arm was given (report.py:61-70), and so are the    *)
(* grades it is calibrated by (calibrate.py:97-123).                        *)
THEOREM ScoresHold == EvalSpec => []ScoresReachTheirArm
<1>1. EvalInv => ScoresReachTheirArm
  BY DEF EvalInv, ScoresInv
<1>2. QED
  BY <1>1, EvalIsInv, PTL

(* Beside the run, too, and whoever is killed: an answer of the LLM brings  *)
(* a reduction that goes on nearer to its end (workers/cag.py:217-244).     *)
THEOREM EvalReductionsDescend == EvalSpec => ReductionDescends
<1>1. ASSUME ReductionGone PROVE reducing' \notin {"digest", "merge"}
  BY <1>1 DEF ReductionGone
<1>2. EvalInv /\ [EvalNext]_evalVars => [Descends]_reduceVars
  BY <1>1, ReductionMoves, ReduceAssumption, StepDescends DEF EvalInv, Descends
<1>3. QED
  BY <1>2, EvalIsInv, PTL DEF EvalSpec, ReductionDescends, Descends
=============================================================================
