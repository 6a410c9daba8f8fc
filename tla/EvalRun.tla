------------------------------- MODULE EvalRun -------------------------------
(***************************************************************************)
(* eval/run_eval.py: one run of the evaluation, a process of its own that  *)
(* makes a throwaway project in the deployment's database and Qdrant,      *)
(* ingests a corpus into it, rebuilds its belief state, has every question *)
(* answered with and without it, has a judge score the two answers blindly *)
(* and tears the project down.  Meanwhile the deployment's weekly cron may *)
(* compact the same project.  Chunker and MapReduce are the loops both     *)
(* use; the advisory lock lets one of them reduce at a time.               *)
(***************************************************************************)
EXTENDS Chunker, MapReduce, FiniteSets, FiniteSetsExt

CONSTANTS
    Corpus,         \* how many documents the corpus has
    Pinned,         \* _CONTRADICTION_PAIR_IDS: documents dated in the past
    Questions,      \* how many questions there are
    Axis,           \* the axis of the rubric whose scores are followed
    Scores,         \* the scores of the judge on it
    HumanGrades,    \* the possible contents of human_grades.yaml
    Threshold,      \* warn_threshold
    ChunkSize, ChunkOverlap

ASSUME EvalAssumption ==
    /\ Corpus \in Nat \ {0} /\ Corpus <= MaxSummaries
    /\ Pinned \subseteq 1..Corpus
    /\ Questions \in Nat \ {0}
    /\ Axis \in {"factual_correctness", "grounding", "conflict_handling"}
    /\ Scores \subseteq 1..5
    /\ Axis = "conflict_handling" => 3 \in Scores
    /\ Axis # "conflict_handling" => 2 \in Scores /\ 4 \in Scores
    /\ Threshold \in Nat
    /\ ChunkSize \in Sizes /\ ChunkOverlap \in Overlaps
    /\ 0 <= ChunkOverlap /\ ChunkOverlap < ChunkSize

VARIABLES
    mock,       \* --mock: the LLM is mock_llm's
    phase,      \* where the run is
    doc,        \* the document being ingested
    known,      \* whether the run knows project_id
    rows,       \* whether the project and its team are in the database
    summed,     \* the committed summaries, by document
    belief,     \* the latest version of the belief state
    collection, \* whether Qdrant has the collection
    indexed,    \* the documents that have points in it
    lock,       \* who holds the advisory lock of the project
    window,     \* the documents whose summaries its holder reduces, in order
    cron,       \* the compaction job of the weekly cron
    cache,      \* _RETRIEVE_CACHE: what was found, by question
    spy,        \* whose call LLMSpy.last is the result of
    cag, rag,   \* the answers of the two arms to the current question
    parses,     \* the judge's answers to it that were not valid
    results,    \* question_results
    file,       \* run_<run_id>.json
    report,     \* report_<run_id>.md
    given,      \* history: the judge's scores by the answer they were given to
    leaks       \* history: what went wrong with setting up and tearing down

projectVars == <<rows, summed, belief, collection, indexed>>
rebuildVars == <<lock, window, cron, reduceVars>>
armVars == <<cache, spy, cag, rag, parses, results, given>>
outVars == <<file, report>>
evalVars == <<mock, phase, doc, known, projectVars, rebuildVars, armVars, outVars, leaks,
              chunkerVars>>

Documents == 1..Corpus
NoVersion == [version |-> 0, covers |-> {}]
NoArm == [chunks |-> {}, version |-> 0, tokens |-> "none"]
NoReport == [judged |-> 0]

Phases == {"setup", "ingest", "chunk", "upsert", "summarize", "rebuild", "rebuilding",
           "cag", "rag", "judge", "write", "drop collection", "drop rows", "report",
           "raised", "finished", "killed"}

(* load_corpus, load_questions: without fixtures there is no run. *)
Loaded == {"setup", "raised"}

EvalInit ==
    /\ ChunkerInit /\ ReduceInit
    /\ mock \in BOOLEAN
    /\ phase \in Loaded
    /\ doc = 1
    /\ known = FALSE
    /\ rows = FALSE
    /\ summed = [d \in Documents |-> "none"]
    /\ belief = NoVersion
    /\ collection = FALSE
    /\ indexed = {}
    /\ lock = "free" /\ window = <<>> /\ cron = "due"
    /\ cache = [q \in 1..Questions |-> {}]
    /\ spy = "none"
    /\ cag = NoArm /\ rag = NoArm
    /\ parses = 0
    /\ results = <<>> /\ given = <<>>
    /\ file \in {"none", "earlier"}
    /\ report = NoReport
    /\ leaks = {}

Go(p) == phase' = p

(* Mutant of Raise: no finally clause. *)
Raise_NoFinally == Go("raised")

(* An exception: what was judged so far is lost, the finally clause runs.  *)
Raise == Go(IF known THEN "drop collection" ELSE "raised")

-----------------------------------------------------------------------------
(* setup_project.  The run learns project_id only from the answer to the   *)
(* commit, so a commit whose answer is lost leaves the rows.               *)
SetupProject ==
    /\ phase = "setup"
    /\ \/ rows' = TRUE /\ known' = TRUE /\ Go("ingest") /\ UNCHANGED leaks
       \/ Raise /\ UNCHANGED <<rows, known, leaks>>
       \/ rows' = TRUE /\ Raise /\ leaks' = {"setup"} /\ UNCHANGED known
    /\ UNCHANGED <<mock, doc, summed, belief, collection, indexed, rebuildVars, armVars,
                   outVars, chunkerVars>>

(* ingest_fixtures, one document after the other. *)
ChunkDocument ==
    /\ phase = "ingest"
    /\ \E n \in Lengths : CallChunker(n, ChunkSize, ChunkOverlap, "naive")
    /\ Go("chunk")
    /\ UNCHANGED <<mock, doc, known, projectVars, rebuildVars, armVars, outVars, leaks>>

ChunkLoop ==
    /\ phase = "chunk"
    /\ \/ ChunkerStep /\ UNCHANGED phase
       \/ chunking = "chunked" /\ Go("upsert") /\ UNCHANGED chunkerVars
    /\ UNCHANGED <<mock, doc, known, projectVars, rebuildVars, armVars, outVars, leaks>>

(* Embedding and VectorStore.upsert; an exception may leave the collection *)
(* behind, or collection and points.                                       *)
UpsertDocument ==
    /\ phase = "upsert"
    /\ LET pointed == IF chunks = <<>> THEN indexed ELSE indexed \cup {doc} IN
       \/ collection' = TRUE /\ indexed' = pointed /\ Go("summarize")
       \/ collection' = TRUE /\ indexed' \in {indexed, pointed} /\ Raise
       \/ UNCHANGED <<collection, indexed>> /\ Raise
    /\ TakeChunks
    /\ UNCHANGED <<mock, doc, known, rows, summed, belief, rebuildVars, armVars, outVars, leaks>>

(* summarize_document never raises: what fails is summarized by a fallback. *)
SummarizeDocument ==
    /\ phase = "summarize"
    /\ \E s \in IF mock THEN {"usable"} ELSE {"usable", "fallback"} :
          \/ /\ summed' = [summed EXCEPT ![doc] = s]
             /\ IF doc < Corpus THEN doc' = doc + 1 /\ Go("ingest")
                                ELSE Go("rebuild") /\ UNCHANGED doc
          \/ /\ summed' \in {summed, [summed EXCEPT ![doc] = s]}
             /\ Raise
             /\ UNCHANGED doc
    /\ UNCHANGED <<mock, known, rows, belief, collection, indexed, rebuildVars, armVars,
                   outVars, leaks, chunkerVars>>

-----------------------------------------------------------------------------
(* CAGService.rebuild, of the run (genesis) and of the cron (compaction). *)

Usable == {d \in Documents : summed[d] = "usable"}

(* created_at of the summary of d *)
CreatedAt(d) == IF d \in Pinned THEN 0 ELSE d

Watermark == Max({CreatedAt(d) : d \in belief.covers})

(* get_all_summaries *)
WholeLog == Usable

(* get_window_since: from no full version, all. *)
SinceWatermark ==
    IF belief.version = 0 THEN Usable ELSE {d \in Usable : CreatedAt(d) > Watermark}

(* Mutant of RunsWindow: the run asks for a compaction. *)
RunsWindow_Compaction == SinceWatermark

RunsWindow == WholeLog

(* The documents in the order of created_at; equal ones in any. *)
InOrder(docs) ==
    {s \in [1..Cardinality(docs) -> docs] :
        \A i, j \in 1..Cardinality(docs) :
            i < j => s[i] # s[j] /\ CreatedAt(s[i]) <= CreatedAt(s[j])}

(* The lock is taken, the window read, the reduction begun. *)
Reduce(holder, docs, accumulator) ==
    /\ docs # {}
    /\ lock' = holder
    /\ window' \in InOrder(docs)
    /\ CallReduce(Cardinality(docs), accumulator)

Release ==
    /\ lock' = "free"
    /\ window' = <<>>
    /\ TakeDigest

(* What the next version covers, and the new row. *)
Covered ==
    {window[i] : i \in level[1] \ {0}} \cup (IF 0 \in level[1] THEN belief.covers ELSE {})

InsertVersion == belief' = [version |-> belief.version + 1, covers |-> Covered]

(* run_cag_rebuild.  Without a usable summary there is no version; the run *)
(* is not told.                                                            *)
StartRebuild ==
    /\ phase = "rebuild"
    /\ lock = "free"
    /\ \/ Reduce("run", RunsWindow, FALSE) /\ Go("rebuilding")
       \/ RunsWindow = {} /\ Go("cag") /\ UNCHANGED <<lock, window, reduceVars>>
    /\ UNCHANGED <<mock, doc, known, projectVars, cron, armVars, outVars, leaks, chunkerVars>>

(* The call may raise with the version committed: the answer to the commit *)
(* is lost, or the refresh fails.  The drift report that follows swallows   *)
(* its exceptions.                                                         *)
FinishRebuild ==
    /\ phase = "rebuilding"
    /\ \/ reducing = "reduced" /\ InsertVersion /\ (Go("cag") \/ Raise)
       \/ reducing \in {"reduced", "failed"} /\ Raise /\ UNCHANGED belief
    /\ Release
    /\ UNCHANGED <<mock, doc, known, rows, summed, collection, indexed, cron, armVars, outVars,
                   leaks, chunkerVars>>

(* cag_weekly_rebuild enqueues a job for every project with a summary, the  *)
(* run's too (bound: one job).  It may find nothing new.                   *)
CronStarts ==
    /\ cron = "due"
    /\ \E d \in Documents : summed[d] # "none"
    /\ lock = "free"
    /\ \/ /\ Reduce("cron", SinceWatermark, belief.version # 0)
          /\ cron' = "holding"
       \/ /\ SinceWatermark = {}
          /\ cron' = "over"
          /\ UNCHANGED <<lock, window, reduceVars>>
    /\ UNCHANGED <<mock, phase, doc, known, projectVars, armVars, outVars, leaks, chunkerVars>>

(* A row for a project that is gone violates its foreign key. *)
CronFinishes ==
    /\ cron = "holding"
    /\ \/ reducing = "reduced" /\ rows /\ InsertVersion
       \/ reducing \in {"reduced", "failed"} /\ UNCHANGED belief
    /\ cron' = "over"
    /\ Release
    /\ UNCHANGED <<mock, phase, doc, known, rows, summed, collection, indexed, armVars, outVars,
                   leaks, chunkerVars>>

(* The mock LLM answers every prompt validly. *)
Reducing ==
    /\ lock # "free"
    /\ \/ ValidAnswer
       \/ EndLevel
       \/ ~(mock /\ lock = "run") /\ (InvalidAnswer \/ SynthesisFails)
    /\ UNCHANGED <<mock, phase, doc, known, projectVars, lock, window, cron, armVars, outVars,
                   leaks, chunkerVars>>

-----------------------------------------------------------------------------
(* run_two_arms for the next question. *)
Question == Len(results) + 1

(* What Qdrant may find: which of equally near points, and in what order,  *)
(* differs from call to call.                                              *)
Nearest == {s \in SUBSET indexed : s = {} <=> indexed = {}}

(* Mutant of Retrieved: every arm asks Qdrant. *)
Retrieved_Anew(q) == Nearest

(* _deterministic_retrieve *)
Retrieved(q) == IF cache[q] = {} THEN Nearest ELSE cache[q]

(* QueryService.query: without chunks and belief state the answer is       *)
(* canned, no LLM is called and LLMSpy.last stays what it was.             *)
CallsLLM(found, version) == found # {} \/ version # 0

ArmAnswer(q, who, version, found) ==
    /\ cache' = [cache EXCEPT ![q] = {found}]
    /\ spy' = IF CallsLLM(found, version) THEN who ELSE spy

CagArm ==
    /\ phase = "cag"
    /\ \/ /\ Raise
          /\ UNCHANGED <<cache, spy, cag>>
       \/ \E found \in Retrieved(Question) :
             /\ ArmAnswer(Question, "cag", belief.version, found)
             /\ cag' = [chunks |-> found, version |-> belief.version, tokens |-> spy']
             /\ Go("rag")
    /\ UNCHANGED <<mock, doc, known, projectVars, rebuildVars, rag, parses, results, given,
                   outVars, leaks, chunkerVars>>

(* get_latest is patched to return None.  Chunks that differ end the run   *)
(* with an EvalInvariantError.                                             *)
RagArm ==
    /\ phase = "rag"
    /\ \/ /\ Raise
          /\ UNCHANGED <<cache, spy, rag>>
       \/ \E found \in Retrieved(Question) :
             /\ ArmAnswer(Question, "rag", 0, found)
             /\ rag' = [chunks |-> found, version |-> 0, tokens |-> spy']
             /\ IF found = cag.chunks THEN Go("judge") ELSE Raise
    /\ UNCHANGED <<mock, doc, known, projectVars, rebuildVars, cag, parses, results, given,
                   outVars, leaks, chunkerVars>>

-----------------------------------------------------------------------------
(* judge_question: which answer comes first is a matter of chance.         *)

Other(arm) == IF arm = "cag" THEN "rag" ELSE "cag"

(* The mock answers in detail when the prompt has a belief state; as judge *)
(* it prefers the detailed one of the answers, else the first, and on the  *)
(* third axis neither.                                                     *)
Detailed(arm) == arm = "cag" /\ cag.version # 0

MockScores(first) ==
    IF Axis = "conflict_handling" THEN <<3, 3>>
    ELSE IF Detailed(Other(first)) /\ ~Detailed(first) THEN <<2, 4>> ELSE <<4, 2>>

Verdicts(first) == IF mock THEN {MockScores(first)} ELSE Scores \X Scores

JudgeValid ==
    /\ phase = "judge"
    /\ \E first \in {"cag", "rag"} : \E scores \in Verdicts(first) :
          /\ results' = Append(results, [first |-> first, scores |-> scores,
                                         version |-> cag.version])
          /\ given' = Append(given, [arm \in {"cag", "rag"} |->
                                        IF arm = first THEN scores[1] ELSE scores[2]])
    /\ cag' = NoArm /\ rag' = NoArm
    /\ parses' = 0
    /\ Go(IF Question = Questions THEN "write" ELSE "cag")
    /\ UNCHANGED <<mock, doc, known, projectVars, rebuildVars, cache, spy, outVars, leaks,
                   chunkerVars>>

(* Mutant of JudgeFails: it tries again and again. *)
JudgeFails_Again ==
    /\ phase = "judge"
    /\ ~mock /\ parses' = parses + 1
    /\ UNCHANGED <<mock, phase, doc, known, projectVars, rebuildVars, cache, spy, cag, rag,
                   results, given, outVars, leaks, chunkerVars>>

(* One more try for an answer that is not valid; a question grounded in an *)
(* unknown document, an LLM call that fails and a second bad answer end    *)
(* the run.                                                                *)
JudgeFails ==
    /\ phase = "judge"
    /\ \/ ~mock /\ parses = 0 /\ parses' = 1 /\ UNCHANGED phase
       \/ Raise /\ UNCHANGED parses
    /\ UNCHANGED <<mock, doc, known, projectVars, rebuildVars, cache, spy, cag, rag, results,
                   given, outVars, leaks, chunkerVars>>

-----------------------------------------------------------------------------
(* _write_results: a file that is there is not overwritten. *)
WriteResults ==
    /\ phase = "write"
    /\ \/ file = "none" /\ file' = "whole" /\ Go("drop collection")
       \/ file = "none" /\ file' \in {"none", "partial"} /\ Raise
       \/ file = "earlier" /\ UNCHANGED file /\ Raise
    /\ UNCHANGED <<mock, doc, known, projectVars, rebuildVars, armVars, report, leaks,
                   chunkerVars>>

LocalsGone ==
    /\ cache' = [q \in 1..Questions |-> {}]
    /\ spy' = "none"
    /\ cag' = NoArm /\ rag' = NoArm
    /\ parses' = 0

(* teardown, with the results in hand if they were written.  An error of   *)
(* Qdrant does not stop the rest.                                          *)
DropCollection ==
    /\ phase = "drop collection"
    /\ Go("drop rows")
    /\ LocalsGone
    /\ IF file = "whole" THEN UNCHANGED <<results, given>> ELSE results' = <<>> /\ given' = <<>>
    /\ \/ collection' = FALSE /\ indexed' = {} /\ UNCHANGED leaks
       \/ UNCHANGED <<collection, indexed>> /\ leaks' = leaks \cup {"collection"}
    /\ UNCHANGED <<mock, doc, known, rows, summed, belief, rebuildVars, outVars, chunkerVars>>

(* One transaction for all rows; its failure is logged.  Whether run_eval  *)
(* returns or raises was decided before.                                   *)
DropRows ==
    /\ phase = "drop rows"
    /\ Go(IF file = "whole" THEN "report" ELSE "raised")
    /\ \/ /\ rows' = FALSE
          /\ summed' = [d \in Documents |-> "none"]
          /\ belief' = NoVersion
          /\ UNCHANGED leaks
       \/ UNCHANGED <<rows, summed, belief>> /\ leaks' = leaks \cup {"rows"}
    /\ UNCHANGED <<mock, doc, known, collection, indexed, rebuildVars, armVars, outVars,
                   chunkerVars>>

-----------------------------------------------------------------------------
(* report.py and calibrate.py: who got which score. *)

(* Mutant of Unblinded: the scores in the order of the answers. *)
Unblinded_InOrder(r) == [cag |-> r.scores[1], rag |-> r.scores[2]]

(* _unblind_axis *)
Unblinded(r) ==
    [cag |-> IF r.first = "cag" THEN r.scores[1] ELSE r.scores[2],
     rag |-> IF r.first = "cag" THEN r.scores[2] ELSE r.scores[1]]

(* extract_judge_grades: a grade for each answer, under the arm it is of.  *)
JudgeGrades(r) ==
    [arm \in {"cag", "rag"} |-> IF arm = r.first THEN r.scores[1] ELSE r.scores[2]]

(* Scores and grades are by question; a sum stands for a mean. *)
Total(scores) == MapThenSumSet(LAMBDA q : scores[q], 1..Questions)

Distance(a, b) == IF a > b THEN a - b ELSE b - a

(* compute_calibration, as the report words it: grades are compared where  *)
(* there are some, and trusted while the mean distance is within bounds.   *)
Calibration(human, grades) ==
    LET apart(key) == Distance(human[key], grades[key[1]][key[2]])
        compared == {key \in DOMAIN human : key[1] \in 1..Questions}
    IN IF compared = {} THEN "not filled in"
       ELSE IF MapThenSumSet(apart, compared) > Threshold * Cardinality(compared)
       THEN "untrustworthy" ELSE "trustworthy"

(* aggregate, for one axis, with the calibration the report is given *)
Aggregate(human, scores, grades) ==
    LET delta == [q \in 1..Questions |-> scores[q].cag - scores[q].rag]
    IN [judged |-> Questions,
        cag |-> Total([q \in 1..Questions |-> scores[q].cag]),
        rag |-> Total([q \in 1..Questions |-> scores[q].rag]),
        delta |-> Total(delta),
        better |-> Cardinality({q \in 1..Questions : delta[q] > 0}),
        worse |-> Cardinality({q \in 1..Questions : delta[q] < 0}),
        tie |-> Cardinality({q \in 1..Questions : delta[q] = 0}),
        calibration |-> Calibration(human, grades)]

WriteReport ==
    /\ phase = "report"
    /\ \/ \E human \in HumanGrades :
             report' = Aggregate(human, [q \in 1..Questions |-> Unblinded(results[q])],
                                        [q \in 1..Questions |-> JudgeGrades(results[q])])
       \/ UNCHANGED report
    /\ Go("finished")
    /\ UNCHANGED <<mock, doc, known, projectVars, rebuildVars, armVars, file, leaks, chunkerVars>>

Ended == {"raised", "finished", "killed"}

(* The process is killed; Postgres frees the lock of a lost connection. *)
Killed ==
    /\ phase \notin Ended
    /\ Go("killed")
    /\ IF lock = "run" THEN lock' = "free" /\ window' = <<>> /\ ReductionGone
                       ELSE UNCHANGED <<lock, window, reduceVars>>
    /\ LocalsGone
    /\ results' = <<>> /\ given' = <<>>
    /\ ChunkingGone
    /\ UNCHANGED <<mock, doc, known, projectVars, cron, outVars, leaks>>

-----------------------------------------------------------------------------
Run ==
    \/ SetupProject
    \/ ChunkDocument \/ ChunkLoop \/ UpsertDocument \/ SummarizeDocument
    \/ StartRebuild \/ FinishRebuild
    \/ CagArm \/ RagArm \/ JudgeValid \/ JudgeFails
    \/ WriteResults \/ DropCollection \/ DropRows \/ WriteReport

EvalNext == Run \/ Reducing \/ CronStarts \/ CronFinishes \/ Killed

(* The program goes on by itself; LLM, Qdrant and Postgres answer or raise. *)
EvalFairness == WF_evalVars(Run) /\ WF_evalVars(Reducing) /\ WF_evalVars(CronFinishes)

EvalSpec == EvalInit /\ [][EvalNext]_evalVars /\ EvalFairness

-----------------------------------------------------------------------------
EvalTypeOK ==
    /\ ChunkerTypeOK
    /\ ReduceTypeOK
    /\ mock \in BOOLEAN
    /\ phase \in Phases
    /\ doc \in Documents
    /\ known \in BOOLEAN
    /\ rows \in BOOLEAN
    /\ summed \in [Documents -> {"none", "fallback", "usable"}]
    /\ belief \in [version : 0..2, covers : SUBSET Documents]
    /\ collection \in BOOLEAN
    /\ indexed \in SUBSET Documents
    /\ lock \in {"free", "run", "cron"}
    /\ window \in Seq(Documents)
    /\ cron \in {"due", "holding", "over"}
    /\ cache \in [1..Questions -> SUBSET SUBSET Documents]
    /\ spy \in {"none", "cag", "rag"}
    /\ {cag, rag} \subseteq [chunks : SUBSET Documents, version : 0..2,
                             tokens : {"none", "cag", "rag"}]
    /\ parses \in 0..1
    /\ results \in Seq([first : {"cag", "rag"}, scores : Scores \X Scores, version : 0..2])
    /\ given \in Seq([{"cag", "rag"} -> Scores])
    /\ file \in {"none", "earlier", "partial", "whole"}
    /\ report.judged \in {0, Questions}
    /\ leaks \in SUBSET {"setup", "collection", "rows"}

(* Whatever fails on the way, and whatever the cron does meanwhile, a run   *)
(* that ends by itself leaves rows or points behind only if the answer to   *)
(* its first commit was lost or the teardown itself failed.  "Teardown runs *)
(* in finally so the throwaway project is removed even if the run raises    *)
(* midway" (run_eval.py:421-422).                                          *)
NothingLeftBehind ==
    phase \in {"raised", "finished"} =>
        /\ rows \/ belief # NoVersion \/ (\E d \in Documents : summed[d] # "none") =>
              leaks \cap {"setup", "rows"} # {}
        /\ collection \/ indexed # {} => "collection" \in leaks

(* All questions of a run are answered from one version of the belief       *)
(* state, and it covers every usable summary: neither the cron, nor the     *)
(* documents dated in the past, which a watermark would hide, come between. *)
(* run_eval.py:307-309 asks for a genesis rebuild.                         *)
OneBeliefState ==
    phase \in {"cag", "rag", "judge", "write"} =>
        /\ Usable \subseteq belief.covers
        /\ \A i \in 1..Len(results) : results[i].version = belief.version
        /\ phase = "judge" => cag.version = belief.version

(* "The only variable is belief-state presence" (run_eval.py:195-196): what *)
(* the judge compares was answered from the same chunks, the RAG arm's      *)
(* without a belief state; and a run never ends because Qdrant broke a tie  *)
(* in two ways.                                                            *)
OnlyTheBeliefStateDiffers ==
    /\ phase = "judge" => cag.chunks = rag.chunks /\ rag.version = 0
    /\ phase = "rag" => Retrieved(Question) = {cag.chunks}

(* The report credits each arm with the scores the judge gave to its answer *)
(* whatever the order they were shown in, and calls the judge trustworthy   *)
(* by the same attribution, which the calibration works out by itself;      *)
(* under the mock the detailed answer wins every question that had a belief *)
(* state, but for conflict handling, where all are even.  report.py:61-70,  *)
(* calibrate.py:97-123, mock_llm.py:50-77.                                  *)
ScoresReachTheirArm ==
    report # NoReport =>
        /\ \E human \in HumanGrades : report = Aggregate(human, given, given)
        /\ mock /\ (\A i \in 1..Questions : results[i].version # 0) =>
              (IF Axis = "conflict_handling" THEN report.tie ELSE report.better) = Questions
=============================================================================
