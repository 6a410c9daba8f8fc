----------------------------- MODULE CAGService -----------------------------
(***************************************************************************)
(* The belief states of one project: the tables document_summaries (the    *)
(* event log) and belief_states (the versions), the ingest transactions    *)
(* that append to the first, and the database sessions that run            *)
(* CAGService.synthesize_and_insert, rebuild and insert_version on the     *)
(* second, all interleaved.                                                *)
(*                                                                         *)
(* A step is one SQL statement or one await: Postgres runs at READ         *)
(* COMMITTED, so each SELECT sees what is committed when it runs.  now(),  *)
(* the default of document_summaries.created_at, is the time the ingest    *)
(* TRANSACTION STARTED, not the time it commits.  Timestamps are naturals  *)
(* above 0, and the watermark None is 0.                                   *)
(***************************************************************************)
EXTENDS Integers, FiniteSets, FiniteSetsExt

CONSTANTS
    Docs,         \* the documents of the project
    Sessions,     \* the sessions in which workers call CAGService
    NoSession,    \* the holder of a free advisory lock
    Ops,          \* the calls they make
    DirectRows,   \* what callers of insert_version may pass
    BatchSize,    \* _REBUILD_BATCH_SIZE
    IngestSlots,  \* ingest transactions open at once (max_jobs)
    ClockSteps,   \* how far the clock may move between two transaction starts
    MaxClock,     \* bound on the clock
    MaxVersions   \* bound on the number of versions

Timestamps == 1..MaxClock

Summary == [document_id: Docs, created_at: Timestamps, raw_text_fallback: BOOLEAN]

(* A row of belief_states.  `state` stands for the synthesized JSON: what   *)
(* the properties tell apart is which summaries were folded into it.        *)
Belief == [version: Nat, rebuild_type: {"none", "incremental", "full"},
           last_summary_created_at: Nat, summary_count_covered: Nat,
           state: SUBSET Summary]

NoBelief == [version |-> 0, rebuild_type |-> "none", last_summary_created_at |-> 0,
             summary_count_covered |-> 0, state |-> {}]

ASSUME ServiceAssumption ==
    /\ IsFiniteSet(Docs)
    /\ NoSession \notin Sessions
    /\ Ops \subseteq {"update", "compaction", "genesis", "insert"}
    /\ DirectRows \subseteq Belief
    /\ \A r \in DirectRows : r.rebuild_type # "none"
    /\ BatchSize \in Nat \ {0}
    /\ IngestSlots \in Nat
    /\ ClockSteps \subseteq Nat
    /\ MaxClock \in Nat \ {0}
    /\ MaxVersions \in Nat

NotOpen == 0

VARIABLES
    clock,      \* what now() returns
    ingest,     \* ingest[d]: start time of d's open ingest transaction, or NotOpen
    summaries,  \* the committed rows of document_summaries
    beliefs,    \* the committed rows of belief_states
    lock,       \* holder of pg_advisory_xact_lock(cag:project), or NoSession
    pc,         \* pc[s]: where session s is in its call
    op,         \* op[s]: the call it runs
    base,       \* base[s]: the belief row it starts from
    draft       \* draft[s]: the row it is about to insert

serviceVars == <<beliefs, lock, pc, op, base, draft>>
eventVars == <<clock, ingest, summaries>>
vars == <<clock, ingest, summaries, beliefs, lock, pc, op, base, draft>>

-----------------------------------------------------------------------------
(* The queries. *)

(* ORDER BY version DESC LIMIT 1 *)
LatestOf(rows) ==
    IF rows = {} THEN NoBelief
    ELSE CHOOSE b \in rows : \A c \in rows : c.version <= b.version

GetLatest == LatestOf(beliefs)
GetLatestFull == LatestOf({b \in beliefs : b.rebuild_type = "full"})

(* Mutant of GetWindowSince: created_at >= watermark. *)
GetWindowSince_Closed(watermark) ==
    {m \in summaries : ~ m.raw_text_fallback /\ m.created_at >= watermark}

GetWindowSince(watermark) ==
    {m \in summaries : ~ m.raw_text_fallback /\ m.created_at > watermark}

(* Mutant of MaxVersion: (current_max or 1) + 1 *)
MaxVersion_FromOne == Max({1} \cup {b.version : b \in beliefs})

MaxVersion == Max({0} \cup {b.version : b \in beliefs})

(* Mutant of FirstBatches: no ORDER BY before the cut. *)
FirstBatches_Unordered(window) ==
    IF Cardinality(window) <= BatchSize THEN {window} ELSE kSubset(BatchSize, window)

(* Mutant of FirstBatches: the whole window in one prompt. *)
FirstBatches_WholeWindow(window) == {window}

(* The first BatchSize rows in created_at order; ties fall either way. *)
FirstBatches(window) ==
    IF Cardinality(window) <= BatchSize THEN {window}
    ELSE {batch \in kSubset(BatchSize, window) :
             \A m \in batch, n \in window \ batch : m.created_at <= n.created_at}

(* Mutants of BaseOf: a compaction that takes the watermark of the latest   *)
(* version with the state of the latest full one, a genesis that keeps the  *)
(* watermark of the latest version.                                         *)
BaseOf_CrossedWatermark(o) ==
    CASE o = "update" -> GetLatest
      [] o = "compaction" -> [GetLatestFull EXCEPT
                                !.last_summary_created_at = GetLatest.last_summary_created_at]
      [] OTHER -> NoBelief

BaseOf_GenesisFromLatest(o) ==
    CASE o = "update" -> GetLatest
      [] o = "compaction" -> GetLatestFull
      [] OTHER -> [NoBelief EXCEPT
                     !.last_summary_created_at = GetLatest.last_summary_created_at]

(* What each call starts from and folds into it. *)
BaseOf(o) ==
    CASE o = "update" -> GetLatest
      [] o = "compaction" -> GetLatestFull
      [] OTHER -> NoBelief

Batches(o, watermark) ==
    IF o = "update" THEN FirstBatches(GetWindowSince(watermark))
    ELSE {GetWindowSince(watermark)}

(* Mutants of NewRow: the mode stored as rebuild_type, the watermark now(). *)
NewRow_ModeAsType(o, b, window) ==
    [version |-> 0,
     rebuild_type |-> IF o = "update" THEN "incremental" ELSE o,
     last_summary_created_at |-> Max({m.created_at : m \in window}),
     summary_count_covered |-> b.summary_count_covered + Cardinality(window),
     state |-> b.state \cup window]

NewRow_WatermarkNow(o, b, window) ==
    [version |-> 0,
     rebuild_type |-> IF o = "update" THEN "incremental" ELSE "full",
     last_summary_created_at |-> clock,
     summary_count_covered |-> b.summary_count_covered + Cardinality(window),
     state |-> b.state \cup window]

NewRow(o, b, window) ==
    [version |-> 0,
     rebuild_type |-> IF o = "update" THEN "incremental" ELSE "full",
     last_summary_created_at |-> Max({m.created_at : m \in window}),
     summary_count_covered |-> b.summary_count_covered + Cardinality(window),
     state |-> b.state \cup window]

-----------------------------------------------------------------------------
Init ==
    /\ clock = 1
    /\ ingest = [d \in Docs |-> NotOpen]
    /\ summaries = {}
    /\ beliefs = {}
    /\ lock = NoSession
    /\ pc = [s \in Sessions |-> "idle"]
    /\ op = [s \in Sessions |-> "none"]
    /\ base = [s \in Sessions |-> NoBelief]
    /\ draft = [s \in Sessions |-> NoBelief]

(* ingest_document selects the document: its transaction, and so its now(), *)
(* starts here.  A re-run of a job does the same for a summarized document. *)
BeginIngest(d) ==
    /\ ingest[d] = NotOpen
    /\ Cardinality({e \in Docs : ingest[e] # NotOpen}) < IngestSlots
    /\ \E step \in ClockSteps :
          /\ clock + step <= MaxClock
          /\ clock' = clock + step
          /\ ingest' = [ingest EXCEPT ![d] = clock + step]
    /\ UNCHANGED <<summaries, serviceVars>>

(* INSERT ... ON CONFLICT (document_id) DO NOTHING, and the commit, after   *)
(* indexing and the summarizer, which may have fallen back to raw text.     *)
CommitSummary(d) ==
    /\ ingest[d] # NotOpen
    /\ \/ /\ \A m \in summaries : m.document_id # d
          /\ \E fallback \in BOOLEAN :
                summaries' = summaries \cup
                    {[document_id |-> d, created_at |-> ingest[d],
                      raw_text_fallback |-> fallback]}
       \/ /\ \E m \in summaries : m.document_id = d
          /\ UNCHANGED summaries
    /\ ingest' = [ingest EXCEPT ![d] = NotOpen]
    /\ UNCHANGED <<clock, serviceVars>>

(* An exception, the job timeout or a crash before that commit. *)
AbortIngest(d) ==
    /\ ingest[d] # NotOpen
    /\ ingest' = [ingest EXCEPT ![d] = NotOpen]
    /\ UNCHANGED <<clock, summaries, serviceVars>>

(* Mutant of LockFree: no advisory lock. *)
LockFree_Always == TRUE

LockFree == lock = NoSession

(* SELECT pg_advisory_xact_lock(...): blocks until the holder's transaction *)
(* ends.  insert_version brings its row along, the other calls compute it.  *)
AcquireLock(s) ==
    /\ pc[s] = "idle"
    /\ LockFree
    /\ lock' = s
    /\ \/ \E o \in Ops \ {"insert"} :
             /\ op' = [op EXCEPT ![s] = o]
             /\ pc' = [pc EXCEPT ![s] = "locked"]
             /\ UNCHANGED draft
       \/ /\ "insert" \in Ops
          /\ op' = [op EXCEPT ![s] = "insert"]
          /\ pc' = [pc EXCEPT ![s] = "drafted"]
          /\ \E r \in DirectRows : draft' = [draft EXCEPT ![s] = r]
    /\ UNCHANGED <<beliefs, base, eventVars>>

(* get_latest, and get_latest_full for a compaction. *)
ReadBase(s) ==
    /\ pc[s] = "locked"
    /\ base' = [base EXCEPT ![s] = BaseOf(op[s])]
    /\ pc' = [pc EXCEPT ![s] = "based"]
    /\ UNCHANGED <<beliefs, lock, op, draft, eventVars>>

(* The transaction of s is over: the advisory lock goes with it. *)
EndCall(s) ==
    /\ lock' = NoSession
    /\ pc' = [pc EXCEPT ![s] = "idle"]
    /\ op' = [op EXCEPT ![s] = "none"]
    /\ base' = [base EXCEPT ![s] = NoBelief]
    /\ draft' = [draft EXCEPT ![s] = NoBelief]

(* get_window_since (or get_all_summaries): an empty window ends the call,  *)
(* otherwise the LLM is awaited on the base's state and the window.         *)
ReadWindow(s) ==
    /\ pc[s] = "based"
    /\ LET watermark == base[s].last_summary_created_at IN
       \/ /\ GetWindowSince(watermark) = {}
          /\ EndCall(s)
       \/ /\ GetWindowSince(watermark) # {}
          /\ \E window \in Batches(op[s], watermark) :
                draft' = [draft EXCEPT ![s] = NewRow(op[s], base[s], window)]
          /\ pc' = [pc EXCEPT ![s] = "drafted"]
          /\ UNCHANGED <<lock, op, base>>
    /\ UNCHANGED <<beliefs, eventVars>>

(* The LLM has answered: SELECT max(version). *)
NumberVersion(s) ==
    /\ pc[s] = "drafted"
    /\ MaxVersion < MaxVersions
    /\ draft' = [draft EXCEPT ![s].version = MaxVersion + 1]
    /\ pc' = [pc EXCEPT ![s] = "numbered"]
    /\ UNCHANGED <<beliefs, lock, op, base, eventVars>>

(* The flush and the commit.  A taken version number is an IntegrityError   *)
(* (uq_belief_states_project_version): the call can then only fail.         *)
CommitVersion(s) ==
    /\ pc[s] = "numbered"
    /\ \A b \in beliefs : b.version # draft[s].version
    /\ beliefs' = beliefs \cup {draft[s]}
    /\ EndCall(s)
    /\ UNCHANGED eventVars

(* LLMError, an invalid answer, an unreadable row, a timeout or a crash:    *)
(* the transaction is rolled back.                                          *)
FailCall(s) ==
    /\ pc[s] # "idle"
    /\ EndCall(s)
    /\ UNCHANGED <<beliefs, eventVars>>

Next ==
    \/ \E d \in Docs : BeginIngest(d) \/ CommitSummary(d) \/ AbortIngest(d)
    \/ \E s \in Sessions :
          \/ AcquireLock(s) \/ ReadBase(s) \/ ReadWindow(s)
          \/ NumberVersion(s) \/ CommitVersion(s) \/ FailCall(s)

Spec == Init /\ [][Next]_vars

-----------------------------------------------------------------------------
(* Properties. *)

TypeOK ==
    /\ clock \in Timestamps
    /\ ingest \in [Docs -> 0..clock]
    /\ summaries \subseteq Summary
    /\ beliefs \subseteq Belief
    /\ lock \in Sessions \cup {NoSession}
    /\ pc \in [Sessions -> {"idle", "locked", "based", "drafted", "numbered"}]
    /\ op \in [Sessions -> Ops \cup {"none"}]
    /\ base \in [Sessions -> Belief]
    /\ draft \in [Sessions -> Belief]

(* The history readers page through (list_versions, get_version) has no     *)
(* hole and no two rows with one number, whatever interleaves with the      *)
(* LLM call that separates reading the latest row from numbering the next.  *)
VersionsContiguous ==
    /\ \E n \in 0..MaxVersions : {b.version : b \in beliefs} = 1..n
    /\ \A b, c \in beliefs : b.version = c.version => b = c

(* The UNIQUE constraint is only the backstop the architecture calls it: no *)
(* call that reaches its INSERT finds its number taken, so none of them     *)
(* pays for an LLM answer and then loses it to an IntegrityError.           *)
NoVersionConflict ==
    \A s \in Sessions : pc[s] = "numbered" =>
        \A b \in beliefs : b.version < draft[s].version

(* What a call read before it awaited the LLM is still what it would read   *)
(* when it inserts: the advisory lock covers the read, the await and the    *)
(* commit of every writer of belief_states.                                 *)
BaseStaysFresh ==
    \A s \in Sessions :
        pc[s] \in {"based", "drafted", "numbered"} /\ op[s] # "insert"
            => base[s] = BaseOf(op[s])

(* A later version remembers every summary an earlier one remembered and    *)
(* its watermark is not older, even though a compaction starts again from   *)
(* the last full version, behind the incremental ones.                      *)
MemoryIsMonotone ==
    \A b, c \in beliefs : b.version <= c.version =>
        /\ b.state \subseteq c.state
        /\ b.last_summary_created_at <= c.last_summary_created_at

(* summary_count_covered, which is added up along the chain of versions, is *)
(* the number of distinct summaries folded in: none is folded in twice.     *)
CountIsCovered ==
    \A b \in beliefs : b.summary_count_covered = Cardinality(b.state)

(* The watermark is the creation time of the newest summary covered, and    *)
(* no raw-text fallback is ever covered.                                    *)
WatermarkIsNewestCovered ==
    \A b \in beliefs :
        /\ \A m \in b.state : ~ m.raw_text_fallback
                              /\ m.created_at <= b.last_summary_created_at
        /\ \E m \in b.state : m.created_at = b.last_summary_created_at

(* cag_update "fetches the window of summaries not yet covered": the window *)
(* is computed from the watermark alone.  It holds when one ingest          *)
(* transaction is open at a time, and not when two of them may overlap.     *)
WindowIsUncovered ==
    GetWindowSince(GetLatest.last_summary_created_at) =
        {m \in summaries : ~ m.raw_text_fallback /\ m \notin GetLatest.state}

(* A rebuild folds in every summary of the event log that is usable when it *)
(* reads the log ("Map-Reduce over ALL document_summaries").                *)
RebuildReadsWholeLog ==
    [][\A s \in Sessions :
          ReadWindow(s) /\ op[s] \in {"compaction", "genesis"} /\ pc'[s] = "drafted"
              => draft'[s].state = GetWindowSince(0)]_vars

-----------------------------------------------------------------------------
(* What has to be added to the properties above to make them inductive. *)

(* Exactly the session that holds the advisory lock is inside a call. *)
LockIsExclusive == \A s \in Sessions : pc[s] # "idle" <=> lock = s

NumberIsNext ==
    \A s \in Sessions : pc[s] = "numbered" =>
        draft[s].version = MaxVersion + 1 /\ MaxVersion < MaxVersions

(* The tables, the lock and the numbering: inductive for every call. *)
CoreInv ==
    /\ TypeOK
    /\ IsFiniteSet(summaries)
    /\ LockIsExclusive
    /\ VersionsContiguous
    /\ NumberIsNext

(* A row as the service, rather than a caller of insert_version, makes it. *)
RowOK(b) ==
    /\ b.rebuild_type \in {"incremental", "full"}
    /\ b.state \subseteq summaries
    /\ \A m \in b.state : ~ m.raw_text_fallback
                          /\ m.created_at <= b.last_summary_created_at
    /\ \E m \in b.state : m.created_at = b.last_summary_created_at
    /\ b.summary_count_covered = Cardinality(b.state)

(* r may follow b in the table. *)
Extends(b, r) ==
    /\ b.state \subseteq r.state
    /\ b.last_summary_created_at <= r.last_summary_created_at
    /\ r.rebuild_type = "incremental" =>
          /\ b.last_summary_created_at < r.last_summary_created_at
          /\ \A m \in r.state \ b.state : m.created_at > b.last_summary_created_at

(* A compaction finds in its window all that the incremental versions after *)
(* the last full one have folded in.                                        *)
CompactionFindsAll ==
    \A c \in beliefs : c.version >= GetLatestFull.version =>
        \A m \in c.state \ GetLatestFull.state :
            m.created_at > GetLatestFull.last_summary_created_at

DraftExtendsLatest ==
    \A s \in Sessions : pc[s] \in {"drafted", "numbered"} =>
        RowOK(draft[s]) /\ Extends(GetLatest, draft[s])

(* What the versions remember: inductive where workers are the only callers. *)
MemoryInv ==
    /\ \A b \in beliefs : RowOK(b)
    /\ MemoryIsMonotone
    /\ CompactionFindsAll
    /\ BaseStaysFresh
    /\ DraftExtendsLatest

(* Nothing committed so far and as old as the watermark is left out of b. *)
Complete(b) ==
    \A m \in summaries :
        ~ m.raw_text_fallback /\ m.created_at <= b.last_summary_created_at => m \in b.state

(* Creation order is commit order: inductive where one ingest transaction   *)
(* is open at a time and no two of them start at the same time.             *)
OrderInv ==
    /\ \A m \in summaries : m.created_at <= clock
    /\ \A m, n \in summaries : m.created_at = n.created_at => m = n
    /\ \A d, e \in Docs : ingest[d] # NotOpen /\ ingest[e] # NotOpen => d = e
    /\ \A d \in Docs, m \in summaries : ingest[d] # NotOpen => m.created_at < ingest[d]
    /\ \A b \in beliefs : Complete(b)
    /\ \A s \in Sessions : pc[s] \in {"drafted", "numbered"} => Complete(draft[s])

-----------------------------------------------------------------------------
(* How much an incremental version adds to the one it follows. *)

(* Between one summary and a batch of them is new in a drafted update. *)
DraftIsABatch ==
    \A s \in Sessions :
        pc[s] \in {"drafted", "numbered"} /\ draft[s].rebuild_type = "incremental"
            => Cardinality(draft[s].state \ GetLatest.state) \in 1..BatchSize

-----------------------------------------------------------------------------
(* The table is an implementation of the abstract log of versions. *)

Published(v) ==
    LET b == CHOOSE c \in beliefs : c.version = v
    IN  [kind |-> b.rebuild_type, covers |-> b.state,
         count |-> b.summary_count_covered, watermark |-> b.last_summary_created_at]

LogOfBeliefs == [v \in 1..MaxVersion |-> Published(v)]

Log == INSTANCE BeliefLog WITH log <- LogOfBeliefs

(* belief_states behaves as an append-only log in which every version       *)
(* remembers all its predecessor did.                                       *)
ImplementsBeliefLog == Log!Spec

(* count_pending *)
Pending == Cardinality(GetWindowSince(GetLatest.last_summary_created_at))

Covers == INSTANCE Coverage WITH
            pending <- Pending,
            covered <- GetLatest.summary_count_covered,
            fullUpTo <- GetLatestFull.summary_count_covered

(* The watermark and the count of the latest version account for the whole  *)
(* event log: what count_pending finds beyond the watermark shrinks by what *)
(* a new version adds to its count, an update by at most one batch, and     *)
(* nothing is counted twice or falls between two versions.  As with         *)
(* WindowIsUncovered, ingest transactions must not overlap.                 *)
ImplementsCoverage == Covers!Spec
=============================================================================
