-------------------------- MODULE CAGServiceProofs --------------------------
(* Theorems about CAGService, for all values of its constants. *)
EXTENDS CAGService, Sequences, FiniteSetTheorems, SequenceTheorems, WellFoundedInduction,
        TLAPS

-----------------------------------------------------------------------------
(* Lemmas about the operators. *)

(* A non-empty, bounded set of naturals has its Max among its elements. *)
LEMMA MaxOfBounded ==
  ASSUME NEW S \in SUBSET Nat, S # {}, NEW u \in Nat, \A x \in S : x <= u
  PROVE  /\ Max(S) \in S
         /\ \A x \in S : x <= Max(S)
<1> DEFINE T == {k \in Nat : \A x \in S : x <= k}
<1>1. PICK k \in T : \A j \in T : ~ (<<j, k>> \in OpToRel(<, Nat))
  <2>1. T \subseteq Nat /\ T # {}
    OBVIOUS
  <2>2. QED
    BY <2>1, WFMin, NatLessThanWellFounded
<1>2. \A j \in T : ~ (j < k)
  BY <1>1 DEF OpToRel
<1>3. k \in S
  <2>1. SUFFICES ASSUME k \notin S PROVE FALSE
    OBVIOUS
  <2>2. \A x \in S : x <= k - 1
    BY <2>1
  <2>3. k - 1 \in Nat
    <3>1. PICK x \in S : x <= k - 1
      BY <2>2
    <3>2. QED
      BY <3>1
  <2>4. QED
    BY <1>2, <2>2, <2>3
<1>4. \A x \in S : k >= x
  OBVIOUS
<1>5. QED
  BY <1>3, <1>4 DEF Max

(* LatestOf finds a row with the highest version number. *)
LEMMA LatestOfBounded ==
  ASSUME NEW rows \in SUBSET Belief, rows # {},
         NEW u \in Nat, \A b \in rows : b.version <= u
  PROVE  /\ LatestOf(rows) \in rows
         /\ \A c \in rows : c.version <= LatestOf(rows).version
<1> DEFINE V == {b.version : b \in rows}
<1>1. V \in SUBSET Nat /\ V # {}
  BY DEF Belief
<1>2. Max(V) \in V /\ \A v \in V : v <= Max(V)
  BY <1>1, MaxOfBounded
<1>3. \E b \in rows : \A c \in rows : c.version <= b.version
  BY <1>2
<1>4. QED
  BY <1>3 DEF LatestOf

(* Rows numbered 1..n have n as their maximum, and 0 when there is none. *)
LEMMA MaxNumber ==
  ASSUME NEW rows, NEW n \in Nat, {b.version : b \in rows} = 1..n
  PROVE  Max({0} \cup {b.version : b \in rows}) = n
<1> DEFINE S == {0} \cup {b.version : b \in rows}
<1>1. S = 0..n
  OBVIOUS
<1>2. S \in SUBSET Nat /\ S # {} /\ \A x \in S : x <= n
  BY <1>1
<1>3. Max(S) \in S /\ \A x \in S : x <= Max(S)
  BY <1>2, MaxOfBounded
<1>4. QED
  BY <1>1, <1>3

-----------------------------------------------------------------------------
(* Types of what the queries return, in a state that satisfies CoreInv. *)

(* A CoreInv state has at most MaxVersions versions, numbered from 1. *)
LEMMA VersionsBounded ==
  ASSUME TypeOK, VersionsContiguous
  PROVE  /\ MaxVersion \in 0..MaxVersions
         /\ {b.version : b \in beliefs} = 1..MaxVersion
         /\ \A b \in beliefs : b.version \in 1..MaxVersion
<1>1. PICK n \in 0..MaxVersions : {b.version : b \in beliefs} = 1..n
  BY DEF VersionsContiguous
<1>2. MaxVersion = n
  BY <1>1, MaxNumber, ServiceAssumption DEF MaxVersion, ServiceAssumption
<1>3. QED
  BY <1>1, <1>2

LEMMA NoBeliefType == NoBelief \in Belief
BY DEF NoBelief, Belief

(* The base of every call is a belief row, or NoBelief. *)
LEMMA BaseOfType ==
  ASSUME TypeOK, VersionsContiguous, NEW o
  PROVE  BaseOf(o) \in beliefs \cup {NoBelief} /\ BaseOf(o) \in Belief
<1> DEFINE full == {b \in beliefs : b.rebuild_type = "full"}
<1>1. beliefs \in SUBSET Belief /\ full \in SUBSET Belief
  BY DEF TypeOK
<1>2. MaxVersion \in Nat /\ \A b \in beliefs : b.version <= MaxVersion
  BY VersionsBounded, ServiceAssumption DEF ServiceAssumption
<1>3. LatestOf(beliefs) \in beliefs \cup {NoBelief}
  <2>1. CASE beliefs = {}
    BY <2>1 DEF LatestOf
  <2>2. CASE beliefs # {}
    BY <2>2, <1>1, <1>2, LatestOfBounded
  <2>3. QED
    BY <2>1, <2>2
<1>4. LatestOf(full) \in full \cup {NoBelief}
  <2>1. CASE full = {}
    BY <2>1 DEF LatestOf
  <2>2. CASE full # {}
    BY <2>2, <1>1, <1>2, LatestOfBounded
  <2>3. QED
    BY <2>1, <2>2
<1>5. QED
  BY <1>1, <1>3, <1>4, NoBeliefType DEF BaseOf, GetLatest, GetLatestFull

(* What a call may fold in: a finite, non-empty part of the window. *)
LEMMA BatchesOK ==
  ASSUME IsFiniteSet(summaries), NEW o, NEW w,
         GetWindowSince(w) # {}, NEW window \in Batches(o, w)
  PROVE  /\ window \subseteq GetWindowSince(w)
         /\ window # {}
         /\ IsFiniteSet(window)
<1>1. IsFiniteSet(GetWindowSince(w))
  BY FS_Subset DEF GetWindowSince
<1>2. window \subseteq GetWindowSince(w) /\ window # {}
  <2>1. CASE window = GetWindowSince(w)
    BY <2>1
  <2>2. CASE window \in kSubset(BatchSize, GetWindowSince(w))
    BY <2>2, FS_EmptySet, ServiceAssumption DEF kSubset, ServiceAssumption
  <2>3. QED
    BY <2>1, <2>2 DEF Batches, FirstBatches
<1>3. QED
  BY <1>1, <1>2, FS_Subset

(* The newest creation time of a window exists. *)
LEMMA NewestOfWindow ==
  ASSUME NEW window \in SUBSET Summary, window # {}
  PROVE  /\ Max({m.created_at : m \in window}) \in {m.created_at : m \in window}
         /\ \A m \in window : m.created_at <= Max({n.created_at : n \in window})
         /\ Max({m.created_at : m \in window}) \in Nat
<1> DEFINE S == {m.created_at : m \in window}
<1>1. S \in SUBSET Nat /\ S # {} /\ \A x \in S : x <= MaxClock /\ MaxClock \in Nat
  BY ServiceAssumption DEF Summary, Timestamps, ServiceAssumption
<1>2. Max(S) \in S /\ \A x \in S : x <= Max(S)
  BY <1>1, MaxOfBounded
<1>3. QED
  BY <1>1, <1>2

(* NewRow builds a row of the table's type. *)
LEMMA NewRowType ==
  ASSUME NEW o, NEW b \in Belief, NEW window \in SUBSET Summary,
         window # {}, IsFiniteSet(window)
  PROVE  NewRow(o, b, window) \in Belief
<1>1. Max({m.created_at : m \in window}) \in Nat
  BY NewestOfWindow
<1>2. b.summary_count_covered + Cardinality(window) \in Nat
  BY FS_CardinalityType DEF Belief
<1>3. b.state \cup window \in SUBSET Summary
  BY DEF Belief
<1>4. QED
  BY <1>1, <1>2, <1>3 DEF NewRow, Belief

-----------------------------------------------------------------------------
(* CoreInv: types, the advisory lock and the numbering of versions. *)

LEMMA InitCore == Init => CoreInv
<1> SUFFICES ASSUME Init PROVE CoreInv
  OBVIOUS
<1> USE ServiceAssumption DEF Init, ServiceAssumption
<1>1. TypeOK
  BY NoBeliefType DEF TypeOK, Timestamps, NotOpen
<1>2. IsFiniteSet(summaries)
  BY FS_EmptySet
<1>3. LockIsExclusive
  BY DEF LockIsExclusive
<1>4. VersionsContiguous
  <2>1. {b.version : b \in beliefs} = 1..0
    OBVIOUS
  <2>2. QED
    BY <2>1 DEF VersionsContiguous
<1>5. NumberIsNext
  BY DEF NumberIsNext
<1>6. QED
  BY <1>1, <1>2, <1>3, <1>4, <1>5 DEF CoreInv

(* Ending a call frees the lock and leaves every other session idle. *)
LEMMA EndCallCore ==
  ASSUME TypeOK, LockIsExclusive, NEW s \in Sessions, pc[s] # "idle", EndCall(s)
  PROVE  /\ LockIsExclusive'
         /\ \A r \in Sessions : pc'[r] = "idle"
         /\ lock' \in Sessions \cup {NoSession}
         /\ pc' \in [Sessions -> {"idle", "locked", "based", "drafted", "numbered"}]
         /\ op' \in [Sessions -> Ops \cup {"none"}]
         /\ base' \in [Sessions -> Belief]
         /\ draft' \in [Sessions -> Belief]
BY NoBeliefType, ServiceAssumption
   DEF EndCall, TypeOK, LockIsExclusive, ServiceAssumption

(* Every step preserves CoreInv, in every instance. *)
LEMMA StepCore == CoreInv /\ [Next]_vars => CoreInv'
<1> SUFFICES ASSUME CoreInv, [Next]_vars PROVE CoreInv'
  OBVIOUS
<1> USE ServiceAssumption DEF CoreInv, ServiceAssumption, serviceVars, eventVars
<1>1. ASSUME NEW d \in Docs, BeginIngest(d) PROVE CoreInv'
  <2>1. TypeOK'
    BY <1>1 DEF BeginIngest, TypeOK, Timestamps
  <2>2. UNCHANGED <<summaries, beliefs, lock, pc, draft>>
    BY <1>1 DEF BeginIngest
  <2>3. QED
    BY <2>1, <2>2 DEF LockIsExclusive, VersionsContiguous, NumberIsNext, MaxVersion
<1>2. ASSUME NEW d \in Docs, CommitSummary(d) PROVE CoreInv'
  <2>1. ingest' \in [Docs -> 0..clock'] /\ ingest[d] \in Timestamps
    BY <1>2 DEF CommitSummary, TypeOK, Timestamps, NotOpen
  <2>2. summaries' \subseteq Summary /\ IsFiniteSet(summaries')
    <3>1. CASE summaries' = summaries
      BY <3>1 DEF TypeOK
    <3>2. ASSUME NEW fallback \in BOOLEAN,
                 summaries' = summaries \cup {[document_id |-> d, created_at |-> ingest[d],
                                              raw_text_fallback |-> fallback]}
          PROVE  summaries' \subseteq Summary /\ IsFiniteSet(summaries')
      <4> DEFINE row == [document_id |-> d, created_at |-> ingest[d],
                         raw_text_fallback |-> fallback]
      <4>1. row \in Summary
        BY <2>1 DEF Summary
      <4>2. IsFiniteSet(summaries \cup {row})
        BY FS_AddElement
      <4>3. QED
        BY <3>2, <4>1, <4>2 DEF TypeOK
    <3>3. QED
      BY <1>2, <3>1, <3>2 DEF CommitSummary
  <2>3. UNCHANGED <<clock, beliefs, lock, pc, op, base, draft>>
    BY <1>2 DEF CommitSummary
  <2>4. QED
    BY <2>1, <2>2, <2>3
       DEF TypeOK, LockIsExclusive, VersionsContiguous, NumberIsNext, MaxVersion
<1>3. ASSUME NEW d \in Docs, AbortIngest(d) PROVE CoreInv'
  BY <1>3 DEF AbortIngest, TypeOK, NotOpen, Timestamps,
              LockIsExclusive, VersionsContiguous, NumberIsNext, MaxVersion
<1>4. ASSUME NEW s \in Sessions, AcquireLock(s) PROVE CoreInv'
  <2>1. UNCHANGED <<clock, ingest, summaries, beliefs, base>>
    BY <1>4 DEF LockFree, AcquireLock
  <2>2. TypeOK'
    BY <1>4, <2>1 DEF LockFree, AcquireLock, TypeOK
  <2>3. LockIsExclusive'
    BY <1>4 DEF LockFree, AcquireLock, LockIsExclusive, TypeOK
  <2>4. \A r \in Sessions : pc'[r] # "numbered"
    BY <1>4 DEF LockFree, AcquireLock, LockIsExclusive, TypeOK
  <2>5. QED
    BY <2>1, <2>2, <2>3, <2>4 DEF VersionsContiguous, NumberIsNext
<1>5. ASSUME NEW s \in Sessions, ReadBase(s) PROVE CoreInv'
  <2>1. BaseOf(op[s]) \in Belief
    BY BaseOfType
  <2>2. UNCHANGED <<clock, ingest, summaries, beliefs, lock, op, draft>>
    BY <1>5 DEF ReadBase
  <2>3. TypeOK'
    BY <1>5, <2>1, <2>2 DEF ReadBase, TypeOK
  <2>4. LockIsExclusive'
    BY <1>5, <2>2 DEF ReadBase, LockIsExclusive, TypeOK
  <2>5. NumberIsNext'
    BY <1>5, <2>2 DEF ReadBase, NumberIsNext, TypeOK, MaxVersion
  <2>6. QED
    BY <2>2, <2>3, <2>4, <2>5 DEF VersionsContiguous
<1>6. ASSUME NEW s \in Sessions, ReadWindow(s) PROVE CoreInv'
  <2>1. UNCHANGED <<clock, ingest, summaries, beliefs>>
    BY <1>6 DEF ReadWindow
  <2>2. CASE EndCall(s)
    <3>1. pc[s] # "idle"
      BY <1>6 DEF ReadWindow
    <3>2. QED
      BY <2>1, <2>2, <3>1, EndCallCore DEF TypeOK, VersionsContiguous, NumberIsNext
  <2>3. CASE ~ EndCall(s)
    <3> DEFINE w == base[s].last_summary_created_at
    <3>1. PICK window \in Batches(op[s], w) :
             draft' = [draft EXCEPT ![s] = NewRow(op[s], base[s], window)]
      BY <1>6, <2>3 DEF ReadWindow
    <3>2. GetWindowSince(w) # {} /\ pc' = [pc EXCEPT ![s] = "drafted"] /\ pc[s] = "based"
          /\ UNCHANGED <<lock, op, base>>
      BY <1>6, <2>3 DEF ReadWindow
    <3>3. window \in SUBSET Summary /\ window # {} /\ IsFiniteSet(window)
      BY <3>1, <3>2, BatchesOK DEF GetWindowSince, TypeOK
    <3>4. NewRow(op[s], base[s], window) \in Belief
      BY <3>3, NewRowType DEF TypeOK
    <3>5. TypeOK'
      BY <2>1, <3>1, <3>2, <3>4 DEF TypeOK
    <3>6. LockIsExclusive' /\ NumberIsNext'
      BY <2>1, <3>1, <3>2 DEF TypeOK, LockIsExclusive, NumberIsNext, MaxVersion
    <3>7. QED
      BY <2>1, <3>5, <3>6 DEF VersionsContiguous
  <2>4. QED
    BY <2>2, <2>3
<1>7. ASSUME NEW s \in Sessions, NumberVersion(s) PROVE CoreInv'
  <2>1. UNCHANGED <<clock, ingest, summaries, beliefs, lock, op, base>>
    BY <1>7 DEF NumberVersion
  <2>2. MaxVersion + 1 \in Nat
    BY VersionsBounded
  <2>3. TypeOK'
    <3>1. draft[s] \in Belief
      BY DEF TypeOK
    <3> DEFINE numbered == [draft[s] EXCEPT !.version = MaxVersion + 1]
    <3>2. numbered \in Belief
      BY <2>2, <3>1 DEF Belief
    <3>3. draft' = [draft EXCEPT ![s] = numbered] /\ pc' = [pc EXCEPT ![s] = "numbered"]
      BY <1>7 DEF NumberVersion
    <3> HIDE DEF numbered
    <3>4. draft' \in [Sessions -> Belief]
      BY <3>2, <3>3 DEF TypeOK
    <3>5. pc' \in [Sessions -> {"idle", "locked", "based", "drafted", "numbered"}]
      BY <3>3 DEF TypeOK
    <3>6. QED
      BY <2>1, <3>4, <3>5 DEF TypeOK
  <2>4. LockIsExclusive'
    BY <1>7, <2>1 DEF NumberVersion, TypeOK, LockIsExclusive
  <2>5. NumberIsNext'
    <3>1. draft'[s].version = MaxVersion + 1 /\ MaxVersion' = MaxVersion
          /\ MaxVersion < MaxVersions
      BY <1>7, <2>1 DEF NumberVersion, TypeOK, Belief, MaxVersion
    <3>2. \A r \in Sessions \ {s} : pc'[r] = pc[r] /\ draft'[r] = draft[r]
      BY <1>7 DEF NumberVersion, TypeOK
    <3>3. QED
      BY <3>1, <3>2 DEF NumberIsNext
  <2>6. QED
    BY <2>1, <2>3, <2>4, <2>5 DEF VersionsContiguous
<1>8. ASSUME NEW s \in Sessions, CommitVersion(s) PROVE CoreInv'
  <2>1. /\ pc[s] = "numbered" /\ EndCall(s)
        /\ beliefs' = beliefs \cup {draft[s]}
        /\ UNCHANGED <<clock, ingest, summaries>>
        /\ draft[s].version = MaxVersion + 1 /\ draft[s] \in Belief
    BY <1>8 DEF CommitVersion, NumberIsNext, TypeOK
  <2>2. MaxVersion + 1 \in 0..MaxVersions
    BY <1>8, VersionsBounded DEF CommitVersion, NumberIsNext
  <2>3. TypeOK' /\ LockIsExclusive' /\ NumberIsNext'
    BY <2>1, EndCallCore DEF TypeOK, NumberIsNext
  <2>4. {b.version : b \in beliefs'} = 1..(MaxVersion + 1)
    BY <2>1, VersionsBounded
  <2>5. \A b, c \in beliefs' : b.version = c.version => b = c
    BY <2>1, VersionsBounded DEF VersionsContiguous
  <2>6. QED
    BY <2>1, <2>2, <2>3, <2>4, <2>5 DEF VersionsContiguous
<1>9. ASSUME NEW s \in Sessions, FailCall(s) PROVE CoreInv'
  <2>1. EndCall(s) /\ pc[s] # "idle" /\ UNCHANGED <<clock, ingest, summaries, beliefs>>
    BY <1>9 DEF FailCall
  <2>2. QED
    BY <2>1, EndCallCore DEF TypeOK, VersionsContiguous, NumberIsNext
<1>10. CASE UNCHANGED vars
  BY <1>10 DEF vars, TypeOK, LockIsExclusive, VersionsContiguous, NumberIsNext, MaxVersion
<1>11. QED
  BY <1>1, <1>2, <1>3, <1>4, <1>5, <1>6, <1>7, <1>8, <1>9, <1>10 DEF Next

THEOREM CoreInvariant == Spec => []CoreInv
<1>1. Init => CoreInv
  BY InitCore
<1>2. CoreInv /\ [Next]_vars => CoreInv'
  BY StepCore
<1>3. QED
  BY <1>1, <1>2, PTL DEF Spec

(* Every variable keeps its type, in every instance. *)
THEOREM TypeCorrect == Spec => []TypeOK
<1>1. CoreInv => TypeOK
  BY DEF CoreInv
<1>2. QED
  BY <1>1, CoreInvariant, PTL

(* Version numbers have no hole and no duplicate, whatever calls interleave *)
(* with whatever ingests, insert_version included.                          *)
THEOREM VersionsAreContiguous == Spec => []VersionsContiguous
<1>1. CoreInv => VersionsContiguous
  BY DEF CoreInv
<1>2. QED
  BY <1>1, CoreInvariant, PTL

(* No call that reaches its INSERT finds its version number taken. *)
THEOREM VersionsNeverConflict == Spec => []NoVersionConflict
<1>1. ASSUME CoreInv PROVE NoVersionConflict
  <2>1. \A b \in beliefs : b.version \in 1..MaxVersion
    BY <1>1, VersionsBounded DEF CoreInv
  <2>2. MaxVersion \in Nat
    BY <1>1, VersionsBounded, ServiceAssumption DEF CoreInv, ServiceAssumption
  <2>3. QED
    BY <1>1, <2>1, <2>2 DEF CoreInv, NumberIsNext, NoVersionConflict
<1>2. QED
  BY <1>1, CoreInvariant, PTL

-----------------------------------------------------------------------------
(* MemoryInv: what the versions remember, where insert_version, which only  *)
(* the tests call, is not used.                                             *)

WorkersOnly == "insert" \notin Ops

(* GetLatest and GetLatestFull have the highest numbers of their kind. *)
LEMMA LatestRows ==
  ASSUME TypeOK, VersionsContiguous
  PROVE  /\ beliefs = {} => GetLatest = NoBelief
         /\ beliefs # {} => GetLatest \in beliefs
         /\ \A c \in beliefs : c.version <= GetLatest.version
         /\ GetLatestFull \in {b \in beliefs : b.rebuild_type = "full"} \cup {NoBelief}
         /\ GetLatestFull.version <= GetLatest.version
         /\ GetLatest \in Belief /\ GetLatestFull \in Belief
<1> DEFINE full == {b \in beliefs : b.rebuild_type = "full"}
<1>1. beliefs \in SUBSET Belief /\ full \in SUBSET Belief
  BY DEF TypeOK
<1>2. MaxVersion \in Nat /\ \A b \in beliefs : b.version <= MaxVersion
  BY VersionsBounded, ServiceAssumption DEF ServiceAssumption
<1>3. beliefs # {} => /\ LatestOf(beliefs) \in beliefs
                      /\ \A c \in beliefs : c.version <= LatestOf(beliefs).version
  BY <1>1, <1>2, LatestOfBounded
<1>4. full # {} => LatestOf(full) \in full
  BY <1>1, <1>2, LatestOfBounded
<1>5. beliefs = {} => LatestOf(beliefs) = NoBelief
  BY DEF LatestOf
<1>6. full = {} => LatestOf(full) = NoBelief
  BY DEF LatestOf
<1>7. LatestOf(full) \in full \cup {NoBelief} /\ LatestOf(beliefs) \in beliefs \cup {NoBelief}
  BY <1>3, <1>4, <1>5, <1>6
<1>8. LatestOf(beliefs) \in Belief /\ LatestOf(full) \in Belief
  BY <1>1, <1>7, NoBeliefType
<1>9. LatestOf(full).version <= LatestOf(beliefs).version
  <2>1. CASE LatestOf(full) \in full
    BY <2>1, <1>3
  <2>2. CASE LatestOf(full) = NoBelief
    BY <2>2, <1>8 DEF NoBelief, Belief
  <2>3. QED
    BY <1>7, <2>1, <2>2
<1>10. QED
  BY <1>3, <1>5, <1>7, <1>8, <1>9 DEF GetLatest, GetLatestFull

(* The base of a call is covered up to its watermark, and counted. *)
LEMMA BaseOK ==
  ASSUME TypeOK, VersionsContiguous, MemoryInv, NEW o
  PROVE  /\ BaseOf(o).state \subseteq summaries
         /\ \A m \in BaseOf(o).state :
               ~ m.raw_text_fallback /\ m.created_at <= BaseOf(o).last_summary_created_at
         /\ BaseOf(o).summary_count_covered = Cardinality(BaseOf(o).state)
<1>1. BaseOf(o) \in beliefs \cup {NoBelief}
  BY BaseOfType
<1>2. CASE BaseOf(o) = NoBelief
  BY <1>2, FS_EmptySet DEF NoBelief
<1>3. CASE BaseOf(o) \in beliefs
  BY <1>3 DEF MemoryInv, RowOK
<1>4. QED
  BY <1>1, <1>2, <1>3

(* The row a call makes of its base and its window is well formed, and may  *)
(* follow the latest version whichever base the call started from.          *)
LEMMA NewRowExtends ==
  ASSUME CoreInv, MemoryInv, NEW o, NEW window,
         GetWindowSince(BaseOf(o).last_summary_created_at) # {},
         window \in Batches(o, BaseOf(o).last_summary_created_at)
  PROVE  RowOK(NewRow(o, BaseOf(o), window)) /\ Extends(GetLatest, NewRow(o, BaseOf(o), window))
<1> DEFINE b == BaseOf(o)
           wm == b.last_summary_created_at
           row == NewRow(o, b, window)
           top == Max({m.created_at : m \in window})
<1> USE DEF CoreInv
<1>1. window \subseteq GetWindowSince(wm) /\ window # {} /\ IsFiniteSet(window)
  BY BatchesOK
<1>2. b \in Belief /\ wm \in Nat
  BY BaseOfType DEF Belief
<1>3. /\ b.state \subseteq summaries
      /\ \A m \in b.state : ~ m.raw_text_fallback /\ m.created_at <= wm
      /\ b.summary_count_covered = Cardinality(b.state)
  BY BaseOK
<1>4. window \in SUBSET Summary
  BY <1>1 DEF GetWindowSince, TypeOK
<1>5. /\ \A m \in window : m \in summaries /\ ~ m.raw_text_fallback /\ m.created_at > wm
      /\ \A m \in summaries : m.created_at \in Nat
  BY <1>1, ServiceAssumption DEF GetWindowSince, TypeOK, Summary, Timestamps, ServiceAssumption
<1>6. /\ top \in {m.created_at : m \in window} /\ top \in Nat
      /\ \A m \in window : m.created_at <= top
  BY <1>1, <1>4, NewestOfWindow
<1>7. wm < top
  BY <1>5, <1>6
<1>8. /\ row.rebuild_type = IF o = "update" THEN "incremental" ELSE "full"
      /\ row.last_summary_created_at = top
      /\ row.summary_count_covered = b.summary_count_covered + Cardinality(window)
      /\ row.state = b.state \cup window
  BY DEF NewRow
<1>9. row.summary_count_covered = Cardinality(row.state)
  <2>1. b.state \cap window = {}
    BY <1>2, <1>3, <1>5
  <2>2. IsFiniteSet(b.state)
    BY <1>3, FS_Subset
  <2>3. Cardinality(b.state \cup window) =
           Cardinality(b.state) + Cardinality(window) - Cardinality(b.state \cap window)
    BY <1>1, <2>2, FS_Union
  <2>4. /\ Cardinality(b.state \cap window) = 0
        /\ Cardinality(b.state) \in Nat /\ Cardinality(window) \in Nat
    BY <1>1, <2>1, <2>2, FS_EmptySet, FS_CardinalityType
  <2>5. QED
    BY <1>3, <1>8, <2>3, <2>4
<1>10. RowOK(row)
  <2>1. \A m \in row.state : ~ m.raw_text_fallback /\ m.created_at <= top
    BY <1>2, <1>3, <1>5, <1>6, <1>7, <1>8
  <2>2. \E m \in row.state : m.created_at = top
    BY <1>6, <1>8
  <2>3. row.state \subseteq summaries
    BY <1>3, <1>5, <1>8
  <2>4. QED
    BY <1>8, <1>9, <2>1, <2>2, <2>3 DEF RowOK
<1>11. CASE o = "update"
  <2>1. b = GetLatest
    BY <1>11 DEF BaseOf
  <2>2. QED
    BY <1>5, <1>7, <1>8, <1>10, <2>1, <1>2, <1>6 DEF Extends
<1>12. CASE o # "update"
  <2>1. window = GetWindowSince(wm)
    BY <1>12 DEF Batches
  <2>2. GetLatest.state \subseteq row.state
    <3>1. SUFFICES ASSUME NEW m \in GetLatest.state, m \notin b.state PROVE m \in window
      BY <1>8
    <3>2. GetLatest \in beliefs
      BY LatestRows, <3>1 DEF NoBelief
    <3>3. m \in summaries /\ ~ m.raw_text_fallback
      BY <3>1, <3>2 DEF MemoryInv, RowOK
    <3>4. m.created_at > wm
      <4>1. CASE o = "compaction"
        BY <3>1, <3>2, <4>1, LatestRows DEF BaseOf, MemoryInv, CompactionFindsAll, Belief
      <4>2. CASE o # "compaction"
        BY <1>12, <3>3, <4>2, ServiceAssumption
           DEF BaseOf, NoBelief, TypeOK, Summary, Timestamps, ServiceAssumption
      <4>3. QED
        BY <4>1, <4>2
    <3>5. QED
      BY <2>1, <3>3, <3>4 DEF GetWindowSince
  <2>3. GetLatest.last_summary_created_at <= top
    <3>1. CASE beliefs = {}
      BY <3>1, <1>6, LatestRows DEF NoBelief
    <3>2. CASE beliefs # {}
      <4>1. PICK m \in GetLatest.state : m.created_at = GetLatest.last_summary_created_at
        BY <3>2, LatestRows DEF MemoryInv, RowOK
      <4>2. QED
        BY <1>8, <1>10, <2>2, <4>1 DEF RowOK
    <3>3. QED
      BY <3>1, <3>2
  <2>4. QED
    BY <1>8, <1>10, <1>12, <2>2, <2>3 DEF Extends
<1>13. QED
  BY <1>11, <1>12

LEMMA InitMemory == Init => MemoryInv
BY DEF Init, MemoryInv, MemoryIsMonotone, CompactionFindsAll, BaseStaysFresh, DraftExtendsLatest

(* Between two commits of versions only the event log grows. *)
LEMMA TablesKept ==
  ASSUME MemoryInv, summaries \subseteq summaries', UNCHANGED beliefs
  PROVE  /\ (\A b \in beliefs : RowOK(b))'
         /\ MemoryIsMonotone'
         /\ CompactionFindsAll'
         /\ GetLatest' = GetLatest
         /\ \A o : BaseOf(o)' = BaseOf(o)
BY DEF MemoryInv, RowOK, MemoryIsMonotone, CompactionFindsAll, GetLatest, GetLatestFull, BaseOf

(* What a session knows survives any step that leaves its call where it is. *)
LEMMA CallKept ==
  ASSUME MemoryInv, summaries \subseteq summaries', UNCHANGED beliefs, NEW s \in Sessions,
         UNCHANGED <<pc[s], op[s], base[s], draft[s]>>
  PROVE  /\ pc'[s] \in {"based", "drafted", "numbered"} /\ op'[s] # "insert"
               => base'[s] = BaseOf(op[s])'
         /\ pc'[s] \in {"drafted", "numbered"}
               => RowOK(draft[s])' /\ Extends(GetLatest, draft[s])'
<1>1. GetLatest' = GetLatest /\ GetLatestFull' = GetLatestFull
  BY DEF GetLatest, GetLatestFull
<1>2. BaseOf(op[s])' = BaseOf(op[s])
  BY <1>1 DEF BaseOf
<1>3. ASSUME RowOK(draft[s]) PROVE RowOK(draft[s])'
  BY <1>3 DEF RowOK
<1>4. ASSUME Extends(GetLatest, draft[s]) PROVE Extends(GetLatest, draft[s])'
  BY <1>1, <1>4 DEF Extends
<1>5. QED
  BY <1>2, <1>3, <1>4 DEF MemoryInv, BaseStaysFresh, DraftExtendsLatest

(* A committed version becomes the latest; a full one also the latest full. *)
LEMMA NewLatest ==
  ASSUME TypeOK, VersionsContiguous, TypeOK', VersionsContiguous',
         NEW r \in Belief, r.version = MaxVersion + 1, beliefs' = beliefs \cup {r}
  PROVE  /\ GetLatest' = r
         /\ r.rebuild_type = "full" => GetLatestFull' = r
         /\ r.rebuild_type # "full" => GetLatestFull' = GetLatestFull
         /\ \A b \in beliefs : b.version < r.version
<1>1. MaxVersion \in Nat /\ \A b \in beliefs : b.version \in 1..MaxVersion
  BY VersionsBounded, ServiceAssumption DEF ServiceAssumption
<1>2. \A b \in beliefs : b.version < r.version
  BY <1>1
<1>3. GetLatest' = r
  <2>1. GetLatest' \in beliefs' /\ \A c \in beliefs' : c.version <= GetLatest'.version
    <3>1. beliefs' \in SUBSET Belief /\ beliefs' # {}
      BY DEF TypeOK
    <3>2. \A b \in beliefs' : b.version <= MaxVersion + 1
      BY <1>1
    <3>3. LatestOf(beliefs') \in beliefs'
          /\ \A c \in beliefs' : c.version <= LatestOf(beliefs').version
      BY <1>1, <3>1, <3>2, LatestOfBounded
    <3>4. QED
      BY <3>3 DEF GetLatest
  <2>2. QED
    BY <1>1, <1>2, <2>1
<1>4. ASSUME r.rebuild_type = "full" PROVE GetLatestFull' = r
  <2> DEFINE full == {b \in beliefs' : b.rebuild_type = "full"}
  <2>1. full \in SUBSET Belief /\ r \in full
    BY <1>4 DEF TypeOK
  <2>2. \A b \in full : b.version <= MaxVersion + 1
    BY <1>1
  <2>3. LatestOf(full) \in full /\ \A c \in full : c.version <= LatestOf(full).version
    BY <1>1, <2>1, <2>2, LatestOfBounded
  <2>4. LatestOf(full) = r
    BY <1>1, <1>2, <2>1, <2>3
  <2>5. QED
    BY <2>4 DEF GetLatestFull
<1>5. ASSUME r.rebuild_type # "full" PROVE GetLatestFull' = GetLatestFull
  <2>1. {b \in beliefs' : b.rebuild_type = "full"} = {b \in beliefs : b.rebuild_type = "full"}
    BY <1>5
  <2>2. QED
    BY <2>1 DEF GetLatestFull
<1>6. QED
  BY <1>2, <1>3, <1>4, <1>5

(* With every session idle, nothing is claimed about calls. *)
LEMMA AllIdle ==
  ASSUME \A r \in Sessions : pc'[r] = "idle"
  PROVE  BaseStaysFresh' /\ DraftExtendsLatest'
BY DEF BaseStaysFresh, DraftExtendsLatest

LEMMA StepMemory == WorkersOnly /\ CoreInv /\ CoreInv' /\ MemoryInv /\ [Next]_vars => MemoryInv'
<1> SUFFICES ASSUME WorkersOnly, CoreInv, CoreInv', MemoryInv, [Next]_vars PROVE MemoryInv'
  OBVIOUS
<1> USE ServiceAssumption DEF CoreInv, ServiceAssumption, serviceVars, eventVars
<1>1. ASSUME summaries \subseteq summaries', UNCHANGED serviceVars PROVE MemoryInv'
  <2>1. UNCHANGED <<beliefs, pc, op, base, draft>>
    BY <1>1
  <2>2. BaseStaysFresh' /\ DraftExtendsLatest'
    BY <1>1, <2>1, CallKept DEF BaseStaysFresh, DraftExtendsLatest
  <2>3. QED
    BY <1>1, <2>1, <2>2, TablesKept DEF MemoryInv
<1>2. ASSUME NEW d \in Docs, BeginIngest(d) \/ CommitSummary(d) \/ AbortIngest(d)
      PROVE  MemoryInv'
  BY <1>1, <1>2 DEF BeginIngest, CommitSummary, AbortIngest
<1>3. ASSUME NEW s \in Sessions, AcquireLock(s) PROVE MemoryInv'
  <2>1. UNCHANGED <<summaries, beliefs>>
    BY <1>3 DEF LockFree, AcquireLock
  <2>2. \A r \in Sessions : pc'[r] \in {"idle", "locked"}
    BY <1>3 DEF LockFree, AcquireLock, WorkersOnly, LockIsExclusive, TypeOK
  <2>3. BaseStaysFresh' /\ DraftExtendsLatest'
    BY <2>2 DEF BaseStaysFresh, DraftExtendsLatest
  <2>4. QED
    BY <2>1, <2>3, TablesKept DEF MemoryInv
<1>4. ASSUME NEW s \in Sessions, ReadBase(s) PROVE MemoryInv'
  <2>1. UNCHANGED <<summaries, beliefs, op>>
    BY <1>4 DEF ReadBase
  <2>2. /\ pc'[s] = "based" /\ base'[s] = BaseOf(op[s])
        /\ \A r \in Sessions \ {s} : pc'[r] = "idle"
    BY <1>4 DEF ReadBase, LockIsExclusive, TypeOK
  <2>3. BaseOf(op[s])' = BaseOf(op[s])
    BY <2>1 DEF BaseOf, GetLatest, GetLatestFull
  <2>4. BaseStaysFresh' /\ DraftExtendsLatest'
    BY <2>2, <2>3 DEF BaseStaysFresh, DraftExtendsLatest
  <2>5. QED
    BY <2>1, <2>4, TablesKept DEF MemoryInv
<1>5. ASSUME NEW s \in Sessions, ReadWindow(s) PROVE MemoryInv'
  <2> DEFINE wm == base[s].last_summary_created_at
  <2>1. pc[s] = "based" /\ UNCHANGED <<summaries, beliefs>>
    BY <1>5 DEF ReadWindow
  <2>2. CASE EndCall(s)
    BY <2>1, <2>2, EndCallCore, AllIdle, TablesKept DEF MemoryInv
  <2>3. CASE ~ EndCall(s)
    <3>1. PICK window \in Batches(op[s], wm) :
             draft' = [draft EXCEPT ![s] = NewRow(op[s], base[s], window)]
      BY <1>5, <2>3 DEF ReadWindow
    <3>2. /\ GetWindowSince(wm) # {} /\ pc' = [pc EXCEPT ![s] = "drafted"]
          /\ UNCHANGED <<op, base>>
      BY <1>5, <2>3 DEF ReadWindow
    <3>3. op[s] # "insert"
      BY DEF WorkersOnly, TypeOK
    <3>4. base[s] = BaseOf(op[s])
      BY <2>1, <3>3 DEF MemoryInv, BaseStaysFresh
    <3>5. RowOK(NewRow(op[s], base[s], window))
          /\ Extends(GetLatest, NewRow(op[s], base[s], window))
      BY <3>1, <3>2, <3>4, NewRowExtends
    <3>6. GetLatest' = GetLatest /\ BaseOf(op[s])' = BaseOf(op[s])
      BY <2>1, <3>2 DEF BaseOf, GetLatest, GetLatestFull
    <3>7. /\ draft'[s] = NewRow(op[s], base[s], window)
          /\ \A r \in Sessions \ {s} : pc'[r] = "idle"
      BY <2>1, <3>1, <3>2 DEF TypeOK, LockIsExclusive
    <3>8. RowOK(draft[s])' /\ Extends(GetLatest, draft[s])'
      BY <2>1, <3>5, <3>6, <3>7 DEF RowOK, Extends
    <3>9. BaseStaysFresh' /\ DraftExtendsLatest'
      BY <3>2, <3>4, <3>6, <3>7, <3>8 DEF BaseStaysFresh, DraftExtendsLatest
    <3>10. QED
      BY <2>1, <3>9, TablesKept DEF MemoryInv
  <2>4. QED
    BY <2>2, <2>3
<1>6. ASSUME NEW s \in Sessions, NumberVersion(s) PROVE MemoryInv'
  <2>1. pc[s] = "drafted" /\ UNCHANGED <<summaries, beliefs, op, base>>
    BY <1>6 DEF NumberVersion
  <2>2. /\ draft'[s] = [draft[s] EXCEPT !.version = MaxVersion + 1]
        /\ pc'[s] = "numbered"
        /\ \A r \in Sessions \ {s} : pc'[r] = "idle"
    BY <1>6 DEF NumberVersion, TypeOK, LockIsExclusive
  <2>3. RowOK(draft[s]) /\ Extends(GetLatest, draft[s]) /\ draft[s] \in Belief
    BY <2>1 DEF MemoryInv, DraftExtendsLatest, TypeOK
  <2>4. /\ draft'[s].rebuild_type = draft[s].rebuild_type
        /\ draft'[s].state = draft[s].state
        /\ draft'[s].last_summary_created_at = draft[s].last_summary_created_at
        /\ draft'[s].summary_count_covered = draft[s].summary_count_covered
    BY <2>2, <2>3 DEF Belief
  <2>5. GetLatest' = GetLatest /\ BaseOf(op[s])' = BaseOf(op[s])
    BY <2>1 DEF BaseOf, GetLatest, GetLatestFull
  <2>6. RowOK(draft[s])' /\ Extends(GetLatest, draft[s])'
    BY <2>1, <2>3, <2>4, <2>5 DEF RowOK, Extends
  <2>7. BaseStaysFresh' /\ DraftExtendsLatest'
    BY <2>1, <2>2, <2>5, <2>6 DEF MemoryInv, BaseStaysFresh, DraftExtendsLatest
  <2>8. QED
    BY <2>1, <2>7, TablesKept DEF MemoryInv
<1>7. ASSUME NEW s \in Sessions, CommitVersion(s) PROVE MemoryInv'
  <2> DEFINE L == GetLatest
             F == GetLatestFull
  <2>1. /\ pc[s] = "numbered" /\ EndCall(s) /\ UNCHANGED summaries
        /\ beliefs' = beliefs \cup {draft[s]}
        /\ draft[s].version = MaxVersion + 1 /\ draft[s] \in Belief
    BY <1>7 DEF CommitVersion, NumberIsNext, TypeOK
  <2>2. PICK r \in Belief : r = draft[s]
    BY <2>1
  <2>3. RowOK(r) /\ Extends(L, r)
    BY <2>1, <2>2 DEF MemoryInv, DraftExtendsLatest
  <2>4. /\ GetLatest' = r
        /\ r.rebuild_type = "full" => GetLatestFull' = r
        /\ r.rebuild_type # "full" => GetLatestFull' = F
        /\ \A b \in beliefs : b.version < r.version
    BY <2>1, <2>2, NewLatest
  <2>5. (\A b \in beliefs : RowOK(b))'
    BY <2>1, <2>2, <2>3 DEF MemoryInv, RowOK
  <2>6. \A b \in beliefs : /\ b.state \subseteq L.state
                           /\ b.last_summary_created_at <= L.last_summary_created_at
    BY LatestRows DEF MemoryInv, MemoryIsMonotone
  <2>7. \A b \in beliefs : /\ b.state \subseteq r.state
                           /\ b.last_summary_created_at <= r.last_summary_created_at
    BY <2>3, <2>6, LatestRows DEF Extends, TypeOK, Belief
  <2>8. MemoryIsMonotone'
    <3>1. \A b \in beliefs' : b \in beliefs \/ b = r
      BY <2>1, <2>2
    <3>2. \A b \in beliefs : ~ (r.version <= b.version)
      BY <2>4 DEF TypeOK, Belief
    <3>3. r.last_summary_created_at <= r.last_summary_created_at
      BY DEF Belief
    <3>4. QED
      BY <3>1, <3>2, <3>3, <2>7 DEF MemoryInv, MemoryIsMonotone
  <2>9. CompactionFindsAll'
    <3>1. CASE r.rebuild_type = "full"
      <4>1. GetLatestFull' = r
        BY <2>4, <3>1
      <4>2. \A c \in beliefs' : c.version >= r.version => c = r
        BY <2>1, <2>2, <2>4 DEF TypeOK, Belief
      <4>3. QED
        BY <4>1, <4>2 DEF CompactionFindsAll
    <3>2. CASE r.rebuild_type # "full"
      <4>1. GetLatestFull' = F
        BY <2>4, <3>2
      <4>2. \A m \in r.state \ F.state : m.created_at > F.last_summary_created_at
        <5>1. SUFFICES ASSUME NEW m \in r.state, m \notin F.state
                       PROVE  m.created_at > F.last_summary_created_at
          OBVIOUS
        <5>2. CASE m \in L.state
          <6>1. L \in beliefs
            BY <5>2, LatestRows DEF NoBelief
          <6>2. L.version >= F.version
            BY LatestRows DEF Belief
          <6>3. QED
            BY <5>1, <5>2, <6>1, <6>2 DEF MemoryInv, CompactionFindsAll
        <5>3. CASE m \notin L.state
          <6>1. m.created_at > L.last_summary_created_at
            BY <2>3, <3>2, <5>3 DEF RowOK, Extends
          <6>2. F.last_summary_created_at <= L.last_summary_created_at
            BY <2>6, LatestRows DEF NoBelief, Belief
          <6>3. m.created_at \in Nat
            BY DEF Belief, Summary, Timestamps
          <6>4. QED
            BY <6>1, <6>2, <6>3, LatestRows DEF Belief
        <5>4. QED
          BY <5>2, <5>3
      <4>3. \A c \in beliefs' : c \in beliefs \/ c = r
        BY <2>1, <2>2
      <4>4. QED
        BY <4>1, <4>2, <4>3 DEF MemoryInv, CompactionFindsAll
    <3>3. QED
      BY <3>1, <3>2
  <2>10. BaseStaysFresh' /\ DraftExtendsLatest'
    BY <2>1, EndCallCore, AllIdle
  <2>11. QED
    BY <2>5, <2>8, <2>9, <2>10 DEF MemoryInv
<1>8. ASSUME NEW s \in Sessions, FailCall(s) PROVE MemoryInv'
  <2>1. EndCall(s) /\ pc[s] # "idle" /\ UNCHANGED <<summaries, beliefs>>
    BY <1>8 DEF FailCall
  <2>2. QED
    BY <2>1, EndCallCore, AllIdle, TablesKept DEF MemoryInv
<1>9. CASE UNCHANGED vars
  BY <1>1, <1>9 DEF vars
<1>10. QED
  BY <1>2, <1>3, <1>4, <1>5, <1>6, <1>7, <1>8, <1>9 DEF Next

THEOREM MemoryInvariant == WorkersOnly => (Spec => []MemoryInv)
<1> SUFFICES ASSUME WorkersOnly PROVE Spec => []MemoryInv
  OBVIOUS
<1>1. Init => MemoryInv
  BY InitMemory
<1>2. CoreInv /\ CoreInv' /\ MemoryInv /\ [Next]_vars => MemoryInv'
  BY StepMemory
<1>3. QED
  BY <1>1, <1>2, CoreInvariant, PTL DEF Spec

(* A later version remembers all an earlier one did, and no watermark ever  *)
(* moves back, however incremental updates, compactions and genesis         *)
(* rebuilds alternate and however ingest transactions overlap with them.    *)
THEOREM MemoryNeverShrinks == WorkersOnly => (Spec => []MemoryIsMonotone)
<1>1. MemoryInv => MemoryIsMonotone
  BY DEF MemoryInv
<1>2. QED
  BY <1>1, MemoryInvariant, PTL

(* summary_count_covered counts each folded summary exactly once. *)
THEOREM CountIsExact == WorkersOnly => (Spec => []CountIsCovered)
<1>1. MemoryInv => CountIsCovered
  BY DEF MemoryInv, RowOK, CountIsCovered
<1>2. QED
  BY <1>1, MemoryInvariant, PTL

(* The watermark is the creation time of the newest summary folded in. *)
THEOREM WatermarkIsExact == WorkersOnly => (Spec => []WatermarkIsNewestCovered)
<1>1. MemoryInv => WatermarkIsNewestCovered
  BY DEF MemoryInv, RowOK, WatermarkIsNewestCovered
<1>2. QED
  BY <1>1, MemoryInvariant, PTL

(* What a call read before the LLM answered is still current at its INSERT. *)
THEOREM BaseNeverStale == WorkersOnly => (Spec => []BaseStaysFresh)
<1>1. MemoryInv => BaseStaysFresh
  BY DEF MemoryInv
<1>2. QED
  BY <1>1, MemoryInvariant, PTL

-----------------------------------------------------------------------------
(* The refinement of BeliefLog. *)

Entry(b) == [kind |-> b.rebuild_type, covers |-> b.state,
             count |-> b.summary_count_covered, watermark |-> b.last_summary_created_at]

(* The log has one entry per version: the row with that number. *)
LEMMA LogEntries ==
  TypeOK /\ VersionsContiguous =>
      /\ Len(LogOfBeliefs) = MaxVersion
      /\ \A b \in beliefs : LogOfBeliefs[b.version] = Entry(b)
<1> SUFFICES ASSUME TypeOK, VersionsContiguous
             PROVE  /\ Len(LogOfBeliefs) = MaxVersion
                    /\ \A b \in beliefs : LogOfBeliefs[b.version] = Entry(b)
  OBVIOUS
<1>1. MaxVersion \in Nat
  BY VersionsBounded, ServiceAssumption DEF ServiceAssumption
<1>2. LogOfBeliefs \in [1..MaxVersion -> {Published(v) : v \in 1..MaxVersion}]
  BY DEF LogOfBeliefs
<1>3. LogOfBeliefs \in Seq({Published(v) : v \in 1..MaxVersion})
  BY <1>1, <1>2, SeqDef
<1>4. DOMAIN LogOfBeliefs = 1..Len(LogOfBeliefs) /\ Len(LogOfBeliefs) \in Nat
  BY <1>3, LenProperties
<1>5. Len(LogOfBeliefs) = MaxVersion
  BY <1>1, <1>2, <1>4
<1>6. ASSUME NEW b \in beliefs PROVE LogOfBeliefs[b.version] = Entry(b)
  <2>1. b.version \in 1..MaxVersion
    BY VersionsBounded
  <2>2. (CHOOSE c \in beliefs : c.version = b.version) = b
    BY DEF VersionsContiguous
  <2>3. QED
    BY <2>1, <2>2 DEF LogOfBeliefs, Published, Entry
<1>7. QED
  BY <1>5, <1>6

(* The last entry of the log is the latest version. *)
LEMMA LastEntry ==
  ASSUME TypeOK, VersionsContiguous
  PROVE  Log!LastOf(LogOfBeliefs) = Entry(GetLatest)
<1>1. MaxVersion \in Nat /\ {b.version : b \in beliefs} = 1..MaxVersion
  BY VersionsBounded, ServiceAssumption DEF ServiceAssumption
<1>2. CASE beliefs = {}
  <2>1. MaxVersion = 0
    BY <1>1, <1>2
  <2>2. LogOfBeliefs = << >>
    BY <2>1 DEF LogOfBeliefs
  <2>3. Entry(NoBelief) = Log!NothingKnown
    BY DEF Entry, NoBelief, Log!NothingKnown
  <2>4. GetLatest = NoBelief
    BY <1>2, LatestRows
  <2>5. Log!LastOf(LogOfBeliefs) = Log!NothingKnown
    BY <2>2 DEF Log!LastOf
  <2>6. QED
    BY <2>3, <2>4, <2>5
<1>3. CASE beliefs # {}
  <2>1. GetLatest \in beliefs /\ \A c \in beliefs : c.version <= GetLatest.version
    BY <1>3, LatestRows
  <2>2. GetLatest.version = MaxVersion /\ MaxVersion > 0
    <3>1. GetLatest.version \in 1..MaxVersion
      BY <1>1, <2>1
    <3>2. PICK c \in beliefs : c.version = MaxVersion
      BY <1>1, <3>1
    <3>3. QED
      BY <1>1, <2>1, <3>1, <3>2
  <2>3. Len(LogOfBeliefs) = MaxVersion /\ LogOfBeliefs[MaxVersion] = Entry(GetLatest)
    BY <2>1, <2>2, LogEntries
  <2>4. LogOfBeliefs # << >>
    BY <2>2, <2>3, EmptySeq
  <2>5. QED
    BY <2>3, <2>4 DEF Log!LastOf
<1>4. QED
  BY <1>2, <1>3

(* Committing a version publishes it in the abstract log. *)
LEMMA CommitPublishes ==
  ASSUME CoreInv, CoreInv', MemoryInv, NEW s \in Sessions, CommitVersion(s)
  PROVE  Log!Publish
<1> USE DEF CoreInv
<1>1. /\ pc[s] = "numbered" /\ beliefs' = beliefs \cup {draft[s]}
      /\ draft[s].version = MaxVersion + 1 /\ draft[s] \in Belief
  BY DEF CommitVersion, NumberIsNext, TypeOK
<1>2. PICK r \in Belief : r = draft[s]
  BY <1>1
<1>3. RowOK(r) /\ Extends(GetLatest, r)
  BY <1>1, <1>2 DEF MemoryInv, DraftExtendsLatest
<1>4. MaxVersion \in Nat
  BY VersionsBounded, ServiceAssumption DEF ServiceAssumption
<1>5. /\ Len(LogOfBeliefs) = MaxVersion
      /\ \A b \in beliefs : LogOfBeliefs[b.version] = Entry(b)
  BY LogEntries
<1>6. /\ Len(LogOfBeliefs') = MaxVersion'
      /\ \A b \in beliefs' : LogOfBeliefs'[b.version] = Entry(b)
  <2>1. (/\ Len(LogOfBeliefs) = MaxVersion
         /\ \A b \in beliefs : LogOfBeliefs[b.version] = Entry(b))'
    <3>1. (TypeOK /\ VersionsContiguous)'
      OBVIOUS
    <3>2. QED
      BY <3>1, LogEntries, PTL
  <2>2. QED
    BY <2>1 DEF Entry
<1>7. MaxVersion' = MaxVersion + 1
  <2>1. {b.version : b \in beliefs'} = 1..(MaxVersion + 1)
    BY <1>1, VersionsBounded
  <2>2. MaxVersion + 1 \in Nat
    BY <1>4
  <2>3. QED
    BY <2>1, <2>2, MaxNumber DEF MaxVersion
<1>8. \A v \in 1..MaxVersion : LogOfBeliefs'[v] = LogOfBeliefs[v]
  BY <1>1, <1>5, <1>6, VersionsBounded
<1>9. LogOfBeliefs'[MaxVersion + 1] = Entry(r)
  BY <1>1, <1>2, <1>6
<1>10. Log!Succeeds(Entry(GetLatest), Entry(r))
  <2> DEFINE L == GetLatest
  <2>1. L.summary_count_covered = Cardinality(L.state)
    BY BaseOK DEF BaseOf
  <2>2. IsFiniteSet(r.state) /\ L.state \subseteq r.state
    BY <1>3, FS_Subset DEF RowOK, Extends
  <2>3. /\ Cardinality(L.state) <= Cardinality(r.state)
        /\ Cardinality(L.state) = Cardinality(r.state) => L.state = r.state
        /\ Cardinality(L.state) \in Nat /\ Cardinality(r.state) \in Nat
    BY <2>2, FS_Subset, FS_CardinalityType
  <2>4. r.rebuild_type = "incremental" => r.state # L.state
    <3>1. SUFFICES ASSUME r.rebuild_type = "incremental", r.state = L.state PROVE FALSE
      OBVIOUS
    <3>2. PICK m \in r.state : m.created_at = r.last_summary_created_at
      BY <1>3 DEF RowOK
    <3>3. L.last_summary_created_at < r.last_summary_created_at
      BY <1>3, <3>1 DEF Extends
    <3>4. m.created_at <= L.last_summary_created_at
      BY <3>1, <3>2, BaseOK DEF BaseOf
    <3>5. QED
      BY <3>2, <3>3, <3>4, LatestRows DEF Belief
  <2>5. /\ L.summary_count_covered <= r.summary_count_covered
        /\ r.rebuild_type = "incremental" => L.summary_count_covered < r.summary_count_covered
    BY <1>3, <2>1, <2>3, <2>4 DEF RowOK
  <2>6. QED
    BY <1>3, <2>5 DEF Log!Succeeds, Entry, RowOK, Extends
<1>11. QED
  BY <1>4, <1>5, <1>6, <1>7, <1>8, <1>9, <1>10, LastEntry DEF Log!Publish

(* belief_states implements the abstract append-only log of versions. *)
THEOREM Refinement == WorkersOnly => (Spec => ImplementsBeliefLog)
<1> SUFFICES ASSUME WorkersOnly PROVE Spec => ImplementsBeliefLog
  OBVIOUS
<1>1. Init => Log!Init
  <2>1. SUFFICES ASSUME Init PROVE LogOfBeliefs = << >>
    BY DEF Log!Init
  <2>2. MaxVersion = 0
    <3>1. {b.version : b \in beliefs} = 1..0
      BY <2>1 DEF Init
    <3>2. QED
      BY <3>1, MaxNumber DEF MaxVersion
  <2>3. QED
    BY <2>2 DEF LogOfBeliefs
<1>2. CoreInv /\ CoreInv' /\ MemoryInv /\ [Next]_vars => [Log!Publish]_LogOfBeliefs
  <2> SUFFICES ASSUME CoreInv, CoreInv', MemoryInv, [Next]_vars
               PROVE  Log!Publish \/ LogOfBeliefs' = LogOfBeliefs
    OBVIOUS
  <2>1. ASSUME NEW s \in Sessions, CommitVersion(s) PROVE Log!Publish
    BY <2>1, CommitPublishes
  <2>2. ASSUME UNCHANGED beliefs PROVE LogOfBeliefs' = LogOfBeliefs
    BY <2>2 DEF LogOfBeliefs, Published, MaxVersion
  <2>3. UNCHANGED beliefs \/ \E s \in Sessions : CommitVersion(s)
    BY DEF Next, vars, serviceVars, BeginIngest, CommitSummary, AbortIngest, AcquireLock,
           ReadBase, ReadWindow, NumberVersion, FailCall
  <2>4. QED
    BY <2>1, <2>2, <2>3
<1>3. QED
  BY <1>1, <1>2, CoreInvariant, MemoryInvariant, PTL DEF Spec, ImplementsBeliefLog, Log!Spec

-----------------------------------------------------------------------------
(* OrderInv: with one ingest transaction at a time, the watermark says      *)
(* exactly what is covered.                                                 *)

SequentialIngest == WorkersOnly /\ IngestSlots = 1 /\ 0 \notin ClockSteps

LEMMA InitOrder == Init => OrderInv
BY DEF Init, OrderInv

(* With one slot, a transaction starts only when none is open. *)
LEMMA SlotIsFree ==
  ASSUME IngestSlots = 1, Cardinality({e \in Docs : ingest[e] # NotOpen}) < IngestSlots
  PROVE  \A e \in Docs : ingest[e] = NotOpen
<1> DEFINE open == {e \in Docs : ingest[e] # NotOpen}
<1>1. IsFiniteSet(open)
  BY FS_Subset, ServiceAssumption DEF ServiceAssumption
<1>2. Cardinality(open) = 0
  BY <1>1, FS_CardinalityType
<1>3. open = {}
  BY <1>1, <1>2, FS_EmptySet
<1>4. QED
  BY <1>3

(* The row made of a complete base and a batch of its window is complete. *)
LEMMA NewRowComplete ==
  ASSUME CoreInv, MemoryInv, OrderInv, NEW o, NEW window,
         GetWindowSince(BaseOf(o).last_summary_created_at) # {},
         window \in Batches(o, BaseOf(o).last_summary_created_at)
  PROVE  Complete(NewRow(o, BaseOf(o), window))
<1> DEFINE b == BaseOf(o)
           wm == b.last_summary_created_at
           top == Max({m.created_at : m \in window})
<1> USE DEF CoreInv
<1>1. window \subseteq GetWindowSince(wm) /\ window # {}
  BY BatchesOK
<1>2. window \in SUBSET Summary
  BY <1>1 DEF GetWindowSince, TypeOK
<1>3. top \in {m.created_at : m \in window}
  BY <1>1, <1>2, NewestOfWindow
<1>4. PICK last \in window : last.created_at = top
  BY <1>3
<1>5. SUFFICES ASSUME NEW m \in summaries, ~ m.raw_text_fallback, m.created_at <= top
               PROVE  m \in b.state \/ m \in window
  BY DEF Complete, NewRow
<1>6. m.created_at \in Nat /\ wm \in Nat /\ m.created_at >= 1
  BY BaseOfType, ServiceAssumption
     DEF TypeOK, Summary, Timestamps, Belief, ServiceAssumption
<1>7. CASE m.created_at <= wm
  <2>1. b \in beliefs
    BY <1>6, <1>7, BaseOfType DEF NoBelief
  <2>2. QED
    BY <1>5, <1>7, <2>1 DEF OrderInv, Complete
<1>8. CASE m.created_at > wm
  <2>1. m \in GetWindowSince(wm)
    BY <1>5, <1>8 DEF GetWindowSince
  <2>2. CASE window = GetWindowSince(wm)
    BY <2>1, <2>2
  <2>3. CASE window # GetWindowSince(wm)
    <3>1. SUFFICES ASSUME m \notin window PROVE FALSE
      OBVIOUS
    <3>2. \A n \in window : n.created_at <= m.created_at
      BY <2>1, <2>3, <3>1 DEF Batches, FirstBatches
    <3>3. m.created_at = last.created_at
      BY <1>2, <1>4, <1>5, <1>6, <3>2 DEF Summary, Timestamps
    <3>4. last \in summaries
      BY <1>1, <1>4 DEF GetWindowSince
    <3>5. QED
      BY <1>4, <3>1, <3>3, <3>4 DEF OrderInv
  <2>4. QED
    BY <2>2, <2>3
<1>9. QED
  BY <1>6, <1>7, <1>8

LEMMA StepOrder ==
  SequentialIngest /\ CoreInv /\ MemoryInv /\ OrderInv /\ [Next]_vars => OrderInv'
<1> SUFFICES ASSUME SequentialIngest, CoreInv, MemoryInv, OrderInv, [Next]_vars PROVE OrderInv'
  OBVIOUS
<1> USE ServiceAssumption DEF CoreInv, ServiceAssumption, serviceVars, eventVars
<1>1. ASSUME NEW d \in Docs, BeginIngest(d) PROVE OrderInv'
  <2>1. PICK step \in ClockSteps : clock' = clock + step
                                  /\ ingest' = [ingest EXCEPT ![d] = clock + step]
    BY <1>1 DEF BeginIngest
  <2>2. \A e \in Docs : ingest[e] = NotOpen
    BY <1>1, SlotIsFree DEF BeginIngest, SequentialIngest
  <2>3. step \in Nat /\ step > 0 /\ clock \in Nat
    BY DEF SequentialIngest, TypeOK, Timestamps
  <2>4. \A m \in summaries : m.created_at \in Nat /\ m.created_at <= clock
    BY DEF OrderInv, TypeOK, Summary, Timestamps
  <2>5. UNCHANGED <<summaries, beliefs, pc, draft>>
    BY <1>1 DEF BeginIngest
  <2>6. \A e \in Docs : ingest'[e] # NotOpen => e = d /\ ingest'[e] = clock + step
    BY <2>1, <2>2 DEF TypeOK
  <2>7. \A m \in summaries' : m.created_at <= clock' /\ m.created_at < clock + step
    BY <2>1, <2>3, <2>4, <2>5
  <2>8. QED
    BY <2>5, <2>6, <2>7 DEF OrderInv, Complete
<1>2. ASSUME NEW d \in Docs, CommitSummary(d) PROVE OrderInv'
  <2>1. /\ ingest[d] # NotOpen /\ ingest' = [ingest EXCEPT ![d] = NotOpen]
        /\ UNCHANGED <<clock, beliefs, pc, draft>>
    BY <1>2 DEF CommitSummary
  <2>2. \A e \in Docs : ingest'[e] = NotOpen
    BY <2>1 DEF OrderInv, TypeOK
  <2>3. CASE summaries' = summaries
    BY <2>1, <2>2, <2>3 DEF OrderInv, Complete
  <2>4. ASSUME NEW fallback \in BOOLEAN,
               summaries' = summaries \cup {[document_id |-> d, created_at |-> ingest[d],
                                            raw_text_fallback |-> fallback]}
        PROVE  OrderInv'
    <3> DEFINE new == [document_id |-> d, created_at |-> ingest[d],
                       raw_text_fallback |-> fallback]
    <3>1. new.created_at = ingest[d] /\ ingest[d] \in Nat /\ ingest[d] <= clock /\ clock \in Nat
      BY DEF TypeOK, Timestamps
    <3>2. \A m \in summaries : m.created_at < new.created_at /\ m.created_at \in Nat
      BY <2>1, <3>1 DEF OrderInv, TypeOK, Summary, Timestamps
    <3>3. \A m \in summaries' : m \in summaries \/ m = new
      BY <2>4
    <3>4. \A m \in summaries' : m.created_at <= clock'
      BY <2>1, <3>1, <3>3 DEF OrderInv
    <3>5. \A m, n \in summaries' : m.created_at = n.created_at => m = n
      BY <3>1, <3>2, <3>3 DEF OrderInv
    <3>6. ASSUME NEW b, RowOK(b), Complete(b), NEW m \in summaries', ~ m.raw_text_fallback,
                 m.created_at <= b.last_summary_created_at
          PROVE  m \in b.state
      <4>1. PICK n \in summaries : n.created_at = b.last_summary_created_at
        BY <3>6 DEF RowOK
      <4>2. m # new
        BY <3>1, <3>2, <3>6, <4>1
      <4>3. QED
        BY <3>3, <3>6, <4>2 DEF Complete
    <3>7. \A b \in beliefs' : Complete(b)'
      BY <2>1, <3>6 DEF OrderInv, MemoryInv, Complete
    <3>8. \A s \in Sessions : pc'[s] \in {"drafted", "numbered"} => Complete(draft[s])'
      BY <2>1, <3>6 DEF OrderInv, MemoryInv, DraftExtendsLatest, Complete
    <3>9. QED
      BY <2>2, <3>4, <3>5, <3>7, <3>8 DEF OrderInv
  <2>5. QED
    BY <1>2, <2>3, <2>4 DEF CommitSummary
<1>3. ASSUME NEW d \in Docs, AbortIngest(d) PROVE OrderInv'
  <2>1. /\ ingest' = [ingest EXCEPT ![d] = NotOpen]
        /\ UNCHANGED <<clock, summaries, beliefs, pc, draft>>
    BY <1>3 DEF AbortIngest
  <2>2. \A e \in Docs : ingest'[e] # NotOpen => ingest'[e] = ingest[e]
    BY <2>1 DEF TypeOK
  <2>3. QED
    BY <2>1, <2>2 DEF OrderInv, Complete
<1>4. ASSUME UNCHANGED <<clock, ingest, summaries, beliefs>>,
             \A s \in Sessions : pc'[s] \in {"drafted", "numbered"} => Complete(draft[s])'
      PROVE  OrderInv'
  BY <1>4 DEF OrderInv, Complete
<1>5. ASSUME NEW s \in Sessions, AcquireLock(s) \/ ReadBase(s) PROVE OrderInv'
  <2>1. \A r \in Sessions : pc'[r] \in {"idle", "locked", "based"}
    BY <1>5 DEF LockFree, AcquireLock, ReadBase, SequentialIngest, WorkersOnly, LockIsExclusive, TypeOK
  <2>2. UNCHANGED <<clock, ingest, summaries, beliefs>>
    BY <1>5 DEF LockFree, AcquireLock, ReadBase
  <2>3. QED
    BY <1>4, <2>1, <2>2
<1>6. ASSUME NEW s \in Sessions, ReadWindow(s) PROVE OrderInv'
  <2> DEFINE wm == base[s].last_summary_created_at
  <2>1. pc[s] = "based" /\ UNCHANGED <<clock, ingest, summaries, beliefs>>
    BY <1>6 DEF ReadWindow
  <2>2. CASE EndCall(s)
    BY <1>4, <2>1, <2>2, EndCallCore
  <2>3. CASE ~ EndCall(s)
    <3>1. PICK window \in Batches(op[s], wm) :
             draft' = [draft EXCEPT ![s] = NewRow(op[s], base[s], window)]
      BY <1>6, <2>3 DEF ReadWindow
    <3>2. GetWindowSince(wm) # {} /\ pc' = [pc EXCEPT ![s] = "drafted"]
      BY <1>6, <2>3 DEF ReadWindow
    <3>3. base[s] = BaseOf(op[s])
      BY <2>1 DEF MemoryInv, BaseStaysFresh, SequentialIngest, WorkersOnly, TypeOK
    <3>4. Complete(NewRow(op[s], base[s], window))
      BY <3>1, <3>2, <3>3, NewRowComplete
    <3>5. /\ draft'[s] = NewRow(op[s], base[s], window)
          /\ \A r \in Sessions \ {s} : pc'[r] = "idle"
      BY <2>1, <3>1, <3>2 DEF TypeOK, LockIsExclusive
    <3>6. Complete(draft[s])'
      BY <2>1, <3>4, <3>5 DEF Complete
    <3>7. QED
      BY <1>4, <2>1, <3>5, <3>6
  <2>4. QED
    BY <2>2, <2>3
<1>7. ASSUME NEW s \in Sessions, NumberVersion(s) PROVE OrderInv'
  <2>1. pc[s] = "drafted" /\ UNCHANGED <<clock, ingest, summaries, beliefs>>
    BY <1>7 DEF NumberVersion
  <2>2. /\ draft'[s] = [draft[s] EXCEPT !.version = MaxVersion + 1]
        /\ \A r \in Sessions \ {s} : pc'[r] = "idle"
    BY <1>7 DEF NumberVersion, TypeOK, LockIsExclusive
  <2>3. draft[s] \in Belief /\ Complete(draft[s])
    BY <2>1 DEF TypeOK, OrderInv
  <2>4. /\ draft'[s].state = draft[s].state
        /\ draft'[s].last_summary_created_at = draft[s].last_summary_created_at
    BY <2>2, <2>3 DEF Belief
  <2>5. Complete(draft[s])'
    BY <2>1, <2>3, <2>4 DEF Complete
  <2>6. QED
    BY <1>4, <2>1, <2>2, <2>5
<1>8. ASSUME NEW s \in Sessions, CommitVersion(s) PROVE OrderInv'
  <2>1. /\ pc[s] = "numbered" /\ EndCall(s) /\ UNCHANGED <<clock, ingest, summaries>>
        /\ beliefs' = beliefs \cup {draft[s]}
    BY <1>8 DEF CommitVersion
  <2>2. \A r \in Sessions : pc'[r] = "idle"
    BY <2>1, EndCallCore
  <2>3. \A b \in beliefs' : Complete(b)'
    BY <2>1 DEF OrderInv, Complete
  <2>4. QED
    BY <2>1, <2>2, <2>3 DEF OrderInv
<1>9. ASSUME NEW s \in Sessions, FailCall(s) PROVE OrderInv'
  <2>1. EndCall(s) /\ pc[s] # "idle" /\ UNCHANGED <<clock, ingest, summaries, beliefs>>
    BY <1>9 DEF FailCall
  <2>2. QED
    BY <1>4, <2>1, EndCallCore
<1>10. CASE UNCHANGED vars
  BY <1>10 DEF vars, OrderInv, Complete
<1>11. QED
  BY <1>1, <1>2, <1>3, <1>5, <1>6, <1>7, <1>8, <1>9, <1>10 DEF Next

THEOREM OrderInvariant == SequentialIngest => (Spec => []OrderInv)
<1> SUFFICES ASSUME SequentialIngest PROVE Spec => []OrderInv
  OBVIOUS
<1>1. WorkersOnly
  BY DEF SequentialIngest
<1>2. Init => OrderInv
  BY InitOrder
<1>3. CoreInv /\ MemoryInv /\ OrderInv /\ [Next]_vars => OrderInv'
  BY StepOrder
<1>4. Spec => []MemoryInv
  BY <1>1, MemoryInvariant
<1>5. QED
  BY <1>2, <1>3, <1>4, CoreInvariant, PTL DEF Spec

(* The watermark of the latest version separates what it covers from the rest. *)
LEMMA WatermarkSeparates == CoreInv /\ MemoryInv /\ OrderInv => WindowIsUncovered
<1> SUFFICES ASSUME CoreInv, MemoryInv, OrderInv PROVE WindowIsUncovered
  OBVIOUS
<1> DEFINE L == GetLatest
<1> USE DEF CoreInv
<1>1. L \in Belief /\ L \in beliefs \cup {NoBelief}
  BY LatestRows
<1>2. \A m \in summaries : m.created_at \in Nat /\ m.created_at >= 1
  BY ServiceAssumption DEF TypeOK, Summary, Timestamps, ServiceAssumption
<1>3. \A m \in L.state : m.created_at <= L.last_summary_created_at
  BY BaseOK DEF BaseOf
<1>4. \A m \in summaries : ~ m.raw_text_fallback /\ m \notin L.state
                             => m.created_at > L.last_summary_created_at
  <2>1. CASE L \in beliefs
    BY <1>1, <1>2, <2>1 DEF OrderInv, Complete, Belief
  <2>2. CASE L = NoBelief
    BY <1>2, <2>2 DEF NoBelief
  <2>3. QED
    BY <1>1, <2>1, <2>2
<1>5. \A m \in summaries : m.created_at > L.last_summary_created_at => m \notin L.state
  BY <1>1, <1>2, <1>3 DEF Belief
<1>6. QED
  BY <1>4, <1>5 DEF WindowIsUncovered, GetWindowSince

(* One ingest at a time: the window a call gets from the watermark is       *)
(* exactly what no version has covered.                                     *)
THEOREM WindowIsExact == SequentialIngest => (Spec => []WindowIsUncovered)
<1> SUFFICES ASSUME SequentialIngest PROVE Spec => []WindowIsUncovered
  OBVIOUS
<1>1. WorkersOnly
  BY DEF SequentialIngest
<1>2. Spec => []MemoryInv
  BY <1>1, MemoryInvariant
<1>3. Spec => []OrderInv
  BY OrderInvariant
<1>4. QED
  BY <1>2, <1>3, WatermarkSeparates, CoreInvariant, PTL

(* One ingest at a time: a rebuild folds in every usable summary there is   *)
(* when it reads the log, the compaction too, which starts from the last    *)
(* full version.                                                            *)
THEOREM RebuildIsWhole == SequentialIngest => (Spec => RebuildReadsWholeLog)
<1> SUFFICES ASSUME SequentialIngest PROVE Spec => RebuildReadsWholeLog
  OBVIOUS
<1> DEFINE Whole == \A s \in Sessions :
                       ReadWindow(s) /\ op[s] \in {"compaction", "genesis"} /\ pc'[s] = "drafted"
                         => draft'[s].state = GetWindowSince(0)
<1>1. WorkersOnly
  BY DEF SequentialIngest
<1>2. CoreInv /\ MemoryInv /\ OrderInv => Whole
  <2> SUFFICES ASSUME CoreInv, MemoryInv, OrderInv, NEW s \in Sessions, ReadWindow(s),
                      op[s] \in {"compaction", "genesis"}, pc'[s] = "drafted"
               PROVE  draft'[s].state = GetWindowSince(0)
    OBVIOUS
  <2> DEFINE b == BaseOf(op[s])
             wm == b.last_summary_created_at
  <2> USE DEF CoreInv
  <2>1. pc[s] = "based" /\ base[s] = b
    BY DEF ReadWindow, MemoryInv, BaseStaysFresh
  <2>2. draft' = [draft EXCEPT ![s] = NewRow(op[s], b, GetWindowSince(wm))]
    BY <2>1 DEF ReadWindow, EndCall, Batches, TypeOK
  <2>3. draft'[s].state = b.state \cup GetWindowSince(wm)
    BY <2>2 DEF TypeOK, NewRow
  <2>4. b \in Belief /\ b \in beliefs \cup {NoBelief}
    BY BaseOfType
  <2>5. \A m \in summaries : m.created_at \in Nat /\ m.created_at > 0
    BY ServiceAssumption DEF TypeOK, Summary, Timestamps, ServiceAssumption
  <2>6. wm \in Nat
    BY <2>4, ServiceAssumption DEF Belief, Timestamps, ServiceAssumption
  <2>7. CASE b = NoBelief
    BY <2>3, <2>7 DEF NoBelief
  <2>8. CASE b \in beliefs
    <3>1. RowOK(b) /\ Complete(b)
      BY <2>8 DEF MemoryInv, OrderInv
    <3>2. \A m \in summaries : ~ m.raw_text_fallback => m \in b.state \/ m.created_at > wm
      BY <2>5, <2>6, <3>1 DEF Complete
    <3>3. \A m \in b.state : m \in summaries /\ ~ m.raw_text_fallback
      BY <3>1 DEF RowOK
    <3>4. QED
      BY <2>3, <2>5, <3>2, <3>3 DEF GetWindowSince
  <2>9. QED
    BY <2>4, <2>7, <2>8
<1>3. CoreInv /\ MemoryInv /\ OrderInv /\ [Next]_vars => [Whole]_vars
  BY <1>2
<1>4. Spec => []MemoryInv
  BY <1>1, MemoryInvariant
<1>5. Spec => []OrderInv
  BY OrderInvariant
<1>6. QED
  BY <1>3, <1>4, <1>5, CoreInvariant, PTL DEF Spec, RebuildReadsWholeLog

-----------------------------------------------------------------------------
(* The count of the latest version and the pending summaries behave as the  *)
(* counters of Coverage.                                                    *)

(* An update adds to the latest version between one summary and a batch.    *)
LEMMA UpdateAddsBatch ==
  ASSUME CoreInv, MemoryInv, NEW window,
         GetWindowSince(GetLatest.last_summary_created_at) # {},
         window \in Batches("update", GetLatest.last_summary_created_at)
  PROVE  Cardinality(NewRow("update", GetLatest, window).state \ GetLatest.state)
            \in 1..BatchSize
<1> DEFINE L == GetLatest
           wm == L.last_summary_created_at
<1> USE DEF CoreInv
<1>1. window \subseteq GetWindowSince(wm) /\ window # {} /\ IsFiniteSet(window)
  BY BatchesOK
<1>2. \A m \in L.state : m.created_at <= wm
  BY BaseOK DEF BaseOf
<1>3. wm \in Nat /\ \A m \in summaries : m.created_at \in Nat
  BY LatestRows, ServiceAssumption DEF Belief, TypeOK, Summary, Timestamps, ServiceAssumption
<1>4. \A m \in window : m \notin L.state
  BY <1>1, <1>2, <1>3 DEF GetWindowSince
<1>5. NewRow("update", L, window).state \ L.state = window
  BY <1>4 DEF NewRow
<1>6. Cardinality(window) \in Nat /\ Cardinality(window) # 0
  BY <1>1, FS_CardinalityType, FS_EmptySet
<1>7. Cardinality(window) <= BatchSize
  <2>1. window \in FirstBatches(GetWindowSince(wm))
    BY DEF Batches
  <2>2. CASE Cardinality(GetWindowSince(wm)) <= BatchSize
    BY <2>1, <2>2 DEF FirstBatches
  <2>3. CASE window \in kSubset(BatchSize, GetWindowSince(wm))
    BY <2>3, ServiceAssumption DEF kSubset, ServiceAssumption
  <2>4. QED
    BY <2>1, <2>2, <2>3 DEF FirstBatches
<1>8. BatchSize \in Nat
  BY ServiceAssumption DEF ServiceAssumption
<1>9. Cardinality(window) \in 1..BatchSize
  BY <1>6, <1>7, <1>8
<1>10. QED
  BY <1>5, <1>9

LEMMA InitBatch == Init => DraftIsABatch
BY DEF Init, DraftIsABatch

LEMMA StepBatch ==
  WorkersOnly /\ CoreInv /\ MemoryInv /\ DraftIsABatch /\ [Next]_vars => DraftIsABatch'
<1> SUFFICES ASSUME WorkersOnly, CoreInv, MemoryInv, DraftIsABatch, [Next]_vars
             PROVE  DraftIsABatch'
  OBVIOUS
<1> USE DEF CoreInv, serviceVars, eventVars
<1>1. ASSUME UNCHANGED beliefs,
             \A s \in Sessions : pc'[s] \in {"drafted", "numbered"}
                => pc[s] \in {"drafted", "numbered"} /\ UNCHANGED draft[s]
      PROVE  DraftIsABatch'
  <2>1. GetLatest' = GetLatest
    BY <1>1 DEF GetLatest
  <2>2. QED
    BY <1>1, <2>1 DEF DraftIsABatch
<1>2. ASSUME NEW d \in Docs, BeginIngest(d) \/ CommitSummary(d) \/ AbortIngest(d)
      PROVE  DraftIsABatch'
  BY <1>1, <1>2 DEF BeginIngest, CommitSummary, AbortIngest
<1>3. ASSUME \A s \in Sessions : pc'[s] \notin {"drafted", "numbered"} PROVE DraftIsABatch'
  BY <1>3 DEF DraftIsABatch
<1>4. ASSUME NEW s \in Sessions, AcquireLock(s) \/ ReadBase(s) PROVE DraftIsABatch'
  <2>1. \A r \in Sessions : pc'[r] \in {"idle", "locked", "based"}
    BY <1>4, ServiceAssumption
       DEF LockFree, AcquireLock, ReadBase, WorkersOnly, LockIsExclusive, TypeOK,
           ServiceAssumption
  <2>2. QED
    BY <1>3, <2>1
<1>5. ASSUME NEW s \in Sessions, ReadWindow(s) PROVE DraftIsABatch'
  <2> DEFINE wm == base[s].last_summary_created_at
  <2>1. pc[s] = "based" /\ UNCHANGED beliefs
    BY <1>5 DEF ReadWindow
  <2>2. CASE EndCall(s)
    <3>1. \A r \in Sessions : pc'[r] = "idle"
      BY <2>1, <2>2, EndCallCore
    <3>2. QED
      BY <1>3, <3>1
  <2>3. CASE ~ EndCall(s)
    <3>1. PICK window \in Batches(op[s], wm) :
             draft' = [draft EXCEPT ![s] = NewRow(op[s], base[s], window)]
      BY <1>5, <2>3 DEF ReadWindow
    <3>2. GetWindowSince(wm) # {} /\ pc' = [pc EXCEPT ![s] = "drafted"]
      BY <1>5, <2>3 DEF ReadWindow
    <3>3. base[s] = BaseOf(op[s])
      BY <2>1 DEF MemoryInv, BaseStaysFresh, WorkersOnly, TypeOK
    <3>4. /\ draft'[s] = NewRow(op[s], base[s], window)
          /\ \A r \in Sessions \ {s} : pc'[r] = "idle"
      BY <2>1, <3>1, <3>2 DEF TypeOK, LockIsExclusive
    <3>5. GetLatest' = GetLatest
      BY <2>1 DEF GetLatest
    <3>6. ASSUME draft'[s].rebuild_type = "incremental"
          PROVE  Cardinality(draft'[s].state \ GetLatest.state) \in 1..BatchSize
      <4>1. op[s] = "update"
        BY <3>4, <3>6 DEF NewRow
      <4>2. base[s] = GetLatest
        BY <3>3, <4>1 DEF BaseOf
      <4>3. QED
        BY <3>1, <3>2, <3>4, <4>1, <4>2, UpdateAddsBatch
    <3>7. QED
      BY <3>4, <3>5, <3>6 DEF DraftIsABatch
  <2>4. QED
    BY <2>2, <2>3
<1>6. ASSUME NEW s \in Sessions, NumberVersion(s) PROVE DraftIsABatch'
  <2>1. pc[s] = "drafted" /\ UNCHANGED beliefs
    BY <1>6 DEF NumberVersion
  <2>2. /\ draft'[s] = [draft[s] EXCEPT !.version = MaxVersion + 1]
        /\ \A r \in Sessions \ {s} : pc'[r] = "idle"
    BY <1>6 DEF NumberVersion, TypeOK, LockIsExclusive
  <2>3. draft[s] \in Belief
    BY DEF TypeOK
  <2>4. draft'[s].state = draft[s].state /\ draft'[s].rebuild_type = draft[s].rebuild_type
    BY <2>2, <2>3 DEF Belief
  <2>5. GetLatest' = GetLatest
    BY <2>1 DEF GetLatest
  <2>6. QED
    BY <2>1, <2>2, <2>4, <2>5 DEF DraftIsABatch
<1>7. ASSUME NEW s \in Sessions, CommitVersion(s) \/ FailCall(s) PROVE DraftIsABatch'
  <2>1. EndCall(s) /\ pc[s] # "idle"
    BY <1>7 DEF CommitVersion, FailCall
  <2>2. \A r \in Sessions : pc'[r] = "idle"
    BY <2>1, EndCallCore
  <2>3. QED
    BY <1>3, <2>2
<1>8. CASE UNCHANGED vars
  BY <1>1, <1>8 DEF vars
<1>9. QED
  BY <1>2, <1>4, <1>5, <1>6, <1>7, <1>8 DEF Next

(* What is pending is what is usable and not covered. *)
LEMMA PendingFinite ==
  ASSUME CoreInv, NEW wm
  PROVE  IsFiniteSet(GetWindowSince(wm)) /\ Cardinality(GetWindowSince(wm)) \in Nat
BY FS_Subset, FS_CardinalityType DEF CoreInv, GetWindowSince

(* Taking a part out of a finite set. *)
LEMMA PartCardinality ==
  ASSUME NEW S, NEW T, IsFiniteSet(S), T \subseteq S
  PROVE  /\ Cardinality(T) \in Nat /\ Cardinality(T) <= Cardinality(S)
         /\ Cardinality(S \ T) = Cardinality(S) - Cardinality(T)
<1>1. IsFiniteSet(T) /\ Cardinality(T) <= Cardinality(S)
  BY FS_Subset
<1>2. Cardinality(T) \in Nat
  BY <1>1, FS_CardinalityType
<1>3. S \cap T = T
  OBVIOUS
<1>4. Cardinality(S \cap T) = Cardinality(T)
  BY <1>3, Zenon
<1>5. Cardinality(S \ T) = Cardinality(S) - Cardinality(S \cap T)
  BY FS_Difference, Zenon
<1>6. QED
  BY <1>1, <1>2, <1>4, <1>5

(* A version takes from what was pending exactly what it adds to its count. *)
LEMMA FoldsPending ==
  ASSUME CoreInv, CoreInv', MemoryInv, WindowIsUncovered, WindowIsUncovered',
         NEW r \in Belief, RowOK(r), Extends(GetLatest, r),
         r.version = MaxVersion + 1, beliefs' = beliefs \cup {r}, UNCHANGED summaries
  PROVE  LET k == Cardinality(r.state \ GetLatest.state) IN
         /\ k \in 0..Pending
         /\ Covers!Fold(k)
<1> DEFINE L == GetLatest
           W == GetWindowSince(L.last_summary_created_at)
           new == r.state \ L.state
           k == Cardinality(new)
<1> USE DEF CoreInv
<1>1. GetLatest' = r
  BY NewLatest
<1>2. L.state \subseteq r.state /\ r.state \subseteq summaries /\ IsFiniteSet(r.state)
  BY FS_Subset DEF RowOK, Extends
<1>3. \A m \in r.state : ~ m.raw_text_fallback
  BY DEF RowOK
<1>4. new \subseteq W /\ GetWindowSince(GetLatest.last_summary_created_at)' = W \ new
  <2>1. \A m : m \in W <=> m \in summaries /\ ~ m.raw_text_fallback /\ m \notin L.state
    BY DEF WindowIsUncovered
  <2>2. GetWindowSince(GetLatest.last_summary_created_at)' =
          {m \in summaries' : ~ m.raw_text_fallback /\ m \notin GetLatest'.state}
    BY DEF WindowIsUncovered
  <2>3. \A m : m \in GetWindowSince(GetLatest.last_summary_created_at)' <=>
                m \in summaries /\ ~ m.raw_text_fallback /\ m \notin r.state
    BY <1>1, <2>2
  <2>4. QED
    BY <1>2, <1>3, <2>1, <2>3
<1>5. IsFiniteSet(W) /\ Cardinality(W) \in Nat
  BY PendingFinite
<1>6. k \in Nat /\ k <= Cardinality(W) /\ Cardinality(W \ new) = Cardinality(W) - k
  BY <1>4, <1>5, PartCardinality
<1>7. r.summary_count_covered = L.summary_count_covered + k
  <2>1. k = Cardinality(r.state) - Cardinality(L.state)
    BY <1>2, PartCardinality
  <2>2. Cardinality(L.state) \in Nat /\ Cardinality(r.state) \in Nat
    BY <1>2, FS_Subset, FS_CardinalityType
  <2>3. L.summary_count_covered = Cardinality(L.state)
    BY BaseOK DEF BaseOf
  <2>4. r.summary_count_covered = Cardinality(r.state)
    BY DEF RowOK
  <2>5. QED
    BY <2>1, <2>2, <2>3, <2>4
<1>8. Pending = Cardinality(W) /\ Pending' = Cardinality(W \ new)
  BY <1>4 DEF Pending
<1>9. Covers!Fold(k)
  BY <1>1, <1>6, <1>7, <1>8 DEF Covers!Fold
<1>10. QED
  BY <1>5, <1>6, <1>8, <1>9

(* Appending a summary that is in nobody's window yet leaves one more pending. *)
LEMMA AppendsPending ==
  ASSUME CoreInv, MemoryInv, OrderInv, NEW d \in Docs, CommitSummary(d)
  PROVE  Pending' = Pending \/ Pending' = Pending + 1
<1> DEFINE wm == GetLatest.last_summary_created_at
           W == GetWindowSince(wm)
<1> USE DEF CoreInv
<1>1. ingest[d] # NotOpen /\ UNCHANGED beliefs
  BY DEF CommitSummary, serviceVars
<1>2. GetLatest' = GetLatest
  BY <1>1 DEF GetLatest
<1>3. CASE summaries' = summaries
  BY <1>2, <1>3 DEF Pending, GetWindowSince
<1>4. ASSUME NEW fallback \in BOOLEAN,
             summaries' = summaries \cup {[document_id |-> d, created_at |-> ingest[d],
                                          raw_text_fallback |-> fallback]}
      PROVE  Pending' = Pending \/ Pending' = Pending + 1
  <2> DEFINE new == [document_id |-> d, created_at |-> ingest[d],
                     raw_text_fallback |-> fallback]
             W1 == {m \in summaries' : ~ m.raw_text_fallback /\ m.created_at > wm}
  <2>1. Pending = Cardinality(W) /\ Pending' = Cardinality(W1)
    BY <1>2 DEF Pending, GetWindowSince
  <2>2. W1 = W \/ W1 = W \cup {new}
    BY <1>4 DEF GetWindowSince
  <2>3. new \notin W
    <3>1. \A m \in summaries : m.created_at < ingest[d]
      BY <1>1 DEF OrderInv
    <3>2. ingest[d] \in Nat
      BY DEF TypeOK
    <3>3. new \notin summaries
      BY <3>1, <3>2
    <3>4. QED
      BY <3>3 DEF GetWindowSince
  <2>4. IsFiniteSet(W)
    BY PendingFinite
  <2>5. Cardinality(W \cup {new}) = Cardinality(W) + 1
    BY <2>3, <2>4, FS_AddElement
  <2>6. QED
    BY <2>1, <2>2, <2>5
<1>5. QED
  BY <1>3, <1>4 DEF CommitSummary

(* A commit is an update or a rebuild of the counters. *)
LEMMA CommitFolds ==
  ASSUME CoreInv, CoreInv', MemoryInv, DraftIsABatch, WindowIsUncovered, WindowIsUncovered',
         NEW s \in Sessions, CommitVersion(s)
  PROVE  Covers!Update \/ Covers!Rebuild
<1> USE DEF CoreInv
<1>1. /\ pc[s] = "numbered" /\ beliefs' = beliefs \cup {draft[s]} /\ UNCHANGED summaries
      /\ draft[s].version = MaxVersion + 1 /\ draft[s] \in Belief
  BY DEF CommitVersion, NumberIsNext, TypeOK, eventVars
<1>2. PICK r \in Belief : r = draft[s]
  BY <1>1
<1>3. RowOK(r) /\ Extends(GetLatest, r)
  BY <1>1, <1>2 DEF MemoryInv, DraftExtendsLatest
<1> DEFINE k == Cardinality(r.state \ GetLatest.state)
<1>4. k \in 0..Pending /\ Covers!Fold(k)
  BY <1>1, <1>2, <1>3, FoldsPending
<1>5. /\ GetLatest' = r
      /\ r.rebuild_type = "full" => GetLatestFull' = r
      /\ r.rebuild_type # "full" => GetLatestFull' = GetLatestFull
  BY <1>1, <1>2, NewLatest
<1>6. CASE r.rebuild_type = "incremental"
  <2>1. k \in 1..BatchSize
    BY <1>1, <1>2, <1>6 DEF DraftIsABatch
  <2>2. k \in 1..Pending /\ k <= BatchSize
    BY <1>4, <2>1, ServiceAssumption DEF ServiceAssumption
  <2>3. GetLatestFull' = GetLatestFull
    BY <1>5, <1>6
  <2>4. QED
    BY <1>4, <2>2, <2>3 DEF Covers!Update
<1>7. CASE r.rebuild_type = "full"
  <2>1. GetLatestFull' = r /\ GetLatest' = r
    BY <1>5, <1>7
  <2>2. r.summary_count_covered > 0
    <3>1. r.state # {} /\ r.state \subseteq summaries
          /\ r.summary_count_covered = Cardinality(r.state)
      BY <1>3 DEF RowOK
    <3>2. IsFiniteSet(r.state)
      BY <3>1, FS_Subset
    <3>3. QED
      BY <3>1, <3>2, FS_CardinalityType, FS_EmptySet
  <2>3. QED
    BY <1>4, <2>1, <2>2 DEF Covers!Rebuild
<1>8. QED
  BY <1>3, <1>6, <1>7 DEF RowOK

(* The belief states of a project account for its event log: each version's *)
(* count and watermark move what was pending, an update a batch of it at    *)
(* most, and no summary is counted twice or passed over.                    *)
THEOREM CoverageRefinement == SequentialIngest => (Spec => ImplementsCoverage)
<1> SUFFICES ASSUME SequentialIngest PROVE Spec => ImplementsCoverage
  OBVIOUS
<1> DEFINE counters == <<Pending, GetLatest.summary_count_covered,
                         GetLatestFull.summary_count_covered>>
           Counted == CoreInv /\ MemoryInv /\ OrderInv /\ DraftIsABatch
           CoverageNext == Covers!Append \/ Covers!Update \/ Covers!Rebuild
<1>1. WorkersOnly
  BY DEF SequentialIngest
<1>2. Init => Covers!Init
  <2> SUFFICES ASSUME Init PROVE Covers!Init
    OBVIOUS
  <2>1. GetLatest = NoBelief /\ GetLatestFull = NoBelief
    BY DEF Init, GetLatest, GetLatestFull, LatestOf
  <2>2. GetWindowSince(GetLatest.last_summary_created_at) = {}
    BY DEF Init, GetWindowSince
  <2>3. Pending = 0
    BY <2>2, FS_EmptySet DEF Pending
  <2>4. QED
    BY <2>1, <2>3 DEF Covers!Init, NoBelief
<1>3. Counted /\ Counted' /\ [Next]_vars => [CoverageNext]_counters
  <2> SUFFICES ASSUME Counted, Counted', [Next]_vars PROVE CoverageNext \/ UNCHANGED counters
    OBVIOUS
  <2>1. ASSUME UNCHANGED <<summaries, beliefs>> PROVE UNCHANGED counters
    BY <2>1 DEF Pending, GetLatest, GetLatestFull, GetWindowSince
  <2>2. ASSUME NEW d \in Docs, CommitSummary(d) PROVE CoverageNext \/ UNCHANGED counters
    <3>1. Pending' = Pending \/ Pending' = Pending + 1
      BY <2>2, AppendsPending
    <3>2. GetLatest' = GetLatest /\ GetLatestFull' = GetLatestFull
      BY <2>2 DEF CommitSummary, serviceVars, GetLatest, GetLatestFull
    <3>3. QED
      BY <3>1, <3>2 DEF Covers!Append
  <2>3. ASSUME NEW s \in Sessions, CommitVersion(s) PROVE CoverageNext
    <3>1. WindowIsUncovered /\ WindowIsUncovered'
      BY WatermarkSeparates, PTL
    <3>2. QED
      BY <2>3, <3>1, CommitFolds
  <2>4. \/ UNCHANGED <<summaries, beliefs>>
        \/ \E d \in Docs : CommitSummary(d)
        \/ \E s \in Sessions : CommitVersion(s)
    BY DEF Next, vars, serviceVars, eventVars, BeginIngest, AbortIngest, AcquireLock,
           ReadBase, ReadWindow, NumberVersion, FailCall
  <2>5. QED
    BY <2>1, <2>2, <2>3, <2>4
<1>4. Spec => []MemoryInv
  BY <1>1, MemoryInvariant
<1>5. Spec => []OrderInv
  BY OrderInvariant
<1>6. Spec => []DraftIsABatch
  <2>1. CoreInv /\ MemoryInv /\ DraftIsABatch /\ [Next]_vars => DraftIsABatch'
    BY <1>1, StepBatch
  <2>2. QED
    BY <1>4, <2>1, InitBatch, CoreInvariant, PTL DEF Spec
<1>7. QED
  BY <1>2, <1>3, <1>4, <1>5, <1>6, CoreInvariant, PTL
     DEF Spec, ImplementsCoverage, Covers!Spec
=============================================================================
