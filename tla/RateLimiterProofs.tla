-------------------------- MODULE RateLimiterProofs --------------------------
(* Theorems about RateLimiter, for every limit, window and number of        *)
(* requests under way.                                                      *)
EXTENDS RateLimiter, FiniteSetTheorems, TLAPS

-----------------------------------------------------------------------------
(* The inductive invariant.  A request that has counted and not recorded    *)
(* yet is as good as an entry: it is the sum of both that is bounded.       *)

Counted == {r \in Requests : check[r] = "counted"}

NoEntryFromTheFuture ==
  /\ window \subseteq recorded
  /\ \A t \in recorded : t <= clock
  /\ \A r \in Requests : now[r] <= clock

(* The key outlives its entries. *)
KeyOutlivesEntries ==
  /\ window # {} => expires # -1
  /\ expires # -1 => \A t \in window : t + Window <= expires

EntriesAndCounted ==
  Cardinality(window) + Cardinality(Counted) <= Limit + Cardinality(Requests) - 1

LimiterInv ==
  /\ LimiterTypeOK
  /\ NoEntryFromTheFuture
  /\ KeyOutlivesEntries
  /\ EntriesAndCounted
  /\ LiveEntriesKept

-----------------------------------------------------------------------------
(* Sizes. *)

LEMMA RequestsSize == IsFiniteSet(Requests) /\ Cardinality(Requests) \in Nat \ {0}
<1>1. IsFiniteSet(Requests) /\ Requests # {}
  BY RequestsAssumption DEF RequestsAssumption
<1>2. QED
  BY <1>1, FS_CardinalityType, FS_EmptySet

LEMMA CountedSize ==
  ASSUME NEW S \in SUBSET Requests
  PROVE  IsFiniteSet(S) /\ Cardinality(S) \in Nat /\ Cardinality(S) <= Cardinality(Requests)
BY RequestsSize, FS_Subset, FS_CardinalityType

LEMMA EntriesFinite ==
  ASSUME NEW S \in SUBSET Times
  PROVE  IsFiniteSet(S) /\ Cardinality(S) \in Nat
<1>1. 0 \in Int /\ MaxTime \in Int
  BY LimiterAssumption DEF LimiterAssumption
<1>2. IsFiniteSet(0..MaxTime)
  BY <1>1, FS_Interval
<1>3. IsFiniteSet(S)
  BY <1>2, FS_Subset DEF Times
<1>4. QED
  BY <1>3, FS_CardinalityType

LEMMA SmallerEntries ==
  ASSUME NEW S \in SUBSET Times, NEW T \in SUBSET S
  PROVE  /\ Cardinality(T) \in Nat /\ Cardinality(S) \in Nat
         /\ Cardinality(T) <= Cardinality(S)
<1>1. IsFiniteSet(S) /\ Cardinality(S) \in Nat
  BY EntriesFinite
<1>2. IsFiniteSet(T) /\ Cardinality(T) <= Cardinality(S)
  BY <1>1, FS_Subset
<1>3. QED
  BY <1>1, <1>2, FS_CardinalityType

LEMMA KeptRange ==
  ASSUME NEW r
  PROVE  Kept(r) \in SUBSET window
BY DEF Kept

(* The first pipeline, and FailOpen in its place, prune or do nothing. *)
LEMMA PruningKeepsEntries ==
  ASSUME LimiterInv, NEW r \in Requests,
         window' \in {window, Kept(r)},
         expires' = IF window' = {} THEN -1 ELSE expires,
         UNCHANGED <<clock, now, recorded>>
  PROVE  /\ window' \in SUBSET window
         /\ window' \in SUBSET Times
         /\ expires' \in {-1} \cup (Window..(MaxTime + Window))
         /\ NoEntryFromTheFuture'
         /\ KeyOutlivesEntries'
         /\ LiveEntriesKept'
<1>1. /\ window \in SUBSET Times /\ clock \in Nat /\ Window \in Nat
      /\ \A t \in Times : t \in Nat
      /\ now[r] \in Nat /\ now[r] <= clock
      /\ window \in SUBSET recorded
      /\ recorded \in SUBSET Times
  BY LimiterAssumption DEF LimiterInv, LimiterTypeOK, NoEntryFromTheFuture, Times, LimiterAssumption
<1>2. window' \in SUBSET window
  BY KeptRange
<1>3. expires' \in {-1} \cup (Window..(MaxTime + Window))
  BY DEF LimiterInv, LimiterTypeOK
<1>4. NoEntryFromTheFuture'
  BY <1>2 DEF LimiterInv, NoEntryFromTheFuture
<1>5. KeyOutlivesEntries'
  BY <1>2 DEF LimiterInv, KeyOutlivesEntries
<1>6. LiveEntriesKept'
  <2>1. SUFFICES ASSUME NEW t \in recorded, t > clock - Window
                 PROVE  t \in window'
    BY DEF LiveEntriesKept
  <2>2. t \in window
    BY <2>1 DEF LimiterInv, LiveEntriesKept
  <2>3. t > now[r] - Window
    BY <1>1, <2>1
  <2>4. QED
    BY <2>2, <2>3 DEF Kept
<1>7. QED
  BY <1>1, <1>2, <1>3, <1>4, <1>5, <1>6

(* The second pipeline. *)
LEMMA RecordingKeepsEntries ==
  ASSUME LimiterInv, NEW r \in Requests, RecordEntry(r), UNCHANGED <<clock, now>>
  PROVE  /\ window' \in SUBSET Times /\ recorded' \in SUBSET Times
         /\ Cardinality(window') <= Cardinality(window) + 1
         /\ expires' \in {-1} \cup (Window..(MaxTime + Window))
         /\ NoEntryFromTheFuture'
         /\ KeyOutlivesEntries'
         /\ LiveEntriesKept'
<1>1. /\ window \in SUBSET Times /\ recorded \in SUBSET Times
      /\ clock \in Times /\ clock \in Nat /\ Window \in Nat
      /\ \A t \in Times : t \in Nat
      /\ now[r] \in Times /\ now[r] <= clock /\ clock <= MaxTime /\ MaxTime \in Nat
  BY LimiterAssumption DEF LimiterInv, LimiterTypeOK, NoEntryFromTheFuture, Times, LimiterAssumption
<1>2. /\ window' = window \cup {now[r]} /\ recorded' = recorded \cup {now[r]}
      /\ expires' = clock + Window
  BY DEF RecordEntry, TimeToLive
<1>3. Cardinality(window') <= Cardinality(window) + 1
  <2>1. IsFiniteSet(window) /\ Cardinality(window) \in Nat
    BY <1>1, EntriesFinite
  <2>2. Cardinality(window \cup {now[r]}) = IF now[r] \in window THEN Cardinality(window)
                                            ELSE Cardinality(window) + 1
    BY <2>1, FS_AddElement
  <2>3. QED
    BY <1>2, <2>1, <2>2
<1>4. expires' \in {-1} \cup (Window..(MaxTime + Window))
  BY <1>1, <1>2
<1>5. NoEntryFromTheFuture'
  BY <1>1, <1>2 DEF LimiterInv, NoEntryFromTheFuture
<1>6. KeyOutlivesEntries'
  <2>1. \A t \in window' : t \in Nat /\ t <= clock
    BY <1>1, <1>2 DEF LimiterInv, NoEntryFromTheFuture
  <2>2. expires' # -1
    BY <1>1, <1>2
  <2>3. \A t \in window' : t + Window <= expires'
    BY <1>1, <1>2, <2>1
  <2>4. QED
    BY <2>2, <2>3 DEF KeyOutlivesEntries
<1>7. LiveEntriesKept'
  BY <1>2 DEF LimiterInv, LiveEntriesKept
<1>8. QED
  BY <1>1, <1>2, <1>3, <1>4, <1>5, <1>6, <1>7

(* A request that leaves "counted" makes room for one entry; one that comes *)
(* to it found fewer entries than the limit.                                *)
LEMMA CountedLeaves ==
  ASSUME LimiterInv, NEW r \in Requests, check[r] = "counted",
         check' = [check EXCEPT ![r] = "allowed"]
  PROVE  Cardinality(Counted') = Cardinality(Counted) - 1
<1>1. check \in [Requests -> {"idle", "called", "counted", "over", "allowed", "rejected"}]
  BY DEF LimiterInv, LimiterTypeOK
<1>2. Counted' = Counted \ {r}
  BY <1>1 DEF Counted
<1>3. IsFiniteSet(Counted) /\ r \in Counted
  BY CountedSize DEF Counted
<1>4. QED
  BY <1>2, <1>3, FS_RemoveElement

LEMMA CountedStays ==
  ASSUME LimiterInv, NEW r \in Requests, check[r] # "counted", NEW verdict,
         verdict # "counted", check' = [check EXCEPT ![r] = verdict]
  PROVE  Counted' = Counted
BY DEF LimiterInv, LimiterTypeOK, Counted

LEMMA CountedJoins ==
  ASSUME LimiterInv, NEW r \in Requests, check[r] # "counted",
         check' = [check EXCEPT ![r] = "counted"]
  PROVE  Cardinality(Counted') <= Cardinality(Requests)
BY CountedSize DEF Counted

LEMMA VerdictType ==
  ASSUME LimiterTypeOK, NEW r \in Requests,
         NEW verdict \in {"idle", "called", "counted", "over", "allowed", "rejected"},
         check' = [check EXCEPT ![r] = verdict]
  PROVE  check' \in [Requests -> {"idle", "called", "counted", "over", "allowed", "rejected"}]
BY DEF LimiterTypeOK

-----------------------------------------------------------------------------
LEMMA LimiterInvInit == LimiterInit => LimiterInv
<1>1. SUFFICES ASSUME LimiterInit PROVE LimiterInv
  OBVIOUS
<1>2. MaxTime \in Nat /\ Window \in Nat /\ Limit \in Nat /\ 0 \in Times
  BY LimiterAssumption DEF LimiterAssumption, Times
<1>3. LimiterTypeOK
  BY <1>1, <1>2 DEF LimiterInit, LimiterTypeOK
<1>4. NoEntryFromTheFuture /\ KeyOutlivesEntries /\ LiveEntriesKept
  BY <1>1 DEF LimiterInit, NoEntryFromTheFuture, KeyOutlivesEntries, LiveEntriesKept
<1>5. EntriesAndCounted
  <2>1. Counted = {} /\ window = {}
    BY <1>1 DEF LimiterInit, Counted
  <2>2. Cardinality(Counted) = 0 /\ Cardinality(window) = 0
    BY <2>1, FS_EmptySet
  <2>3. QED
    BY <1>2, <2>2, RequestsSize DEF EntriesAndCounted
<1>6. QED
  BY <1>3, <1>4, <1>5 DEF LimiterInv

(* What the sizes of an invariant state are. *)
LEMMA LimiterSizes ==
  ASSUME LimiterInv
  PROVE  /\ Cardinality(window) \in Nat /\ Cardinality(Counted) \in Nat
         /\ Cardinality(Counted) <= Cardinality(Requests)
         /\ Cardinality(Requests) \in Nat \ {0} /\ Limit \in Nat
         /\ Cardinality(window) + Cardinality(Counted) <= Limit + Cardinality(Requests) - 1
<1>1. window \in SUBSET Times
  BY DEF LimiterInv, LimiterTypeOK
<1>2. Counted \in SUBSET Requests
  BY DEF Counted
<1>3. Cardinality(window) + Cardinality(Counted) <= Limit + Cardinality(Requests) - 1
  BY DEF LimiterInv, EntriesAndCounted
<1>4. QED
  BY <1>1, <1>2, <1>3, EntriesFinite, CountedSize, RequestsSize, LimiterAssumption
  DEF LimiterAssumption

-----------------------------------------------------------------------------
(* One lemma per action. *)

(* Only the verdict of r moves, and not to or from "counted". *)
LEMMA MovingOnKeepsInv ==
  ASSUME LimiterInv, NEW r \in Requests, check[r] # "counted",
         NEW verdict \in {"idle", "called", "over", "allowed", "rejected"},
         check' = [check EXCEPT ![r] = verdict],
         UNCHANGED <<clock, window, expires, now, recorded>>
  PROVE  LimiterInv'
<1>1. LimiterTypeOK'
  BY VerdictType DEF LimiterInv, LimiterTypeOK
<1>2. NoEntryFromTheFuture' /\ KeyOutlivesEntries' /\ LiveEntriesKept'
  BY DEF LimiterInv, NoEntryFromTheFuture, KeyOutlivesEntries, LiveEntriesKept
<1>3. Counted' = Counted
  BY CountedStays
<1>4. EntriesAndCounted'
  BY <1>3 DEF LimiterInv, EntriesAndCounted
<1>5. QED
  BY <1>1, <1>2, <1>4 DEF LimiterInv

LEMMA CallLimiterKeepsInv ==
  ASSUME LimiterInv, NEW r \in Requests, CallLimiter(r)
  PROVE  LimiterInv'
<1>1. /\ check[r] = "idle" /\ now' = [now EXCEPT ![r] = clock]
      /\ check' = [check EXCEPT ![r] = "called"]
      /\ UNCHANGED <<clock, window, expires, recorded>>
  BY DEF CallLimiter, Verdict
<1>2. clock \in Times /\ now \in [Requests -> Times]
  BY DEF LimiterInv, LimiterTypeOK
<1>3. now' \in [Requests -> Times]
  BY <1>1, <1>2
<1>4. LimiterTypeOK'
  BY <1>1, <1>3, VerdictType DEF LimiterInv, LimiterTypeOK
<1>5. NoEntryFromTheFuture'
  <2>1. \A q \in Requests : now'[q] <= clock
    <3>1. TAKE q \in Requests
    <3>2. clock \in Nat
      BY <1>2, LimiterAssumption DEF Times, LimiterAssumption
    <3>3. CASE q = r
      BY <1>1, <1>2, <3>2, <3>3
    <3>4. CASE q # r
      BY <1>1, <1>2, <3>4 DEF LimiterInv, NoEntryFromTheFuture
    <3>5. QED
      BY <3>3, <3>4
  <2>2. QED
    BY <1>1, <2>1 DEF LimiterInv, NoEntryFromTheFuture
<1>6. KeyOutlivesEntries' /\ LiveEntriesKept'
  BY <1>1 DEF LimiterInv, KeyOutlivesEntries, LiveEntriesKept
<1>7. Counted' = Counted
  BY <1>1, CountedStays
<1>8. EntriesAndCounted'
  BY <1>1, <1>7 DEF LimiterInv, EntriesAndCounted
<1>9. QED
  BY <1>4, <1>5, <1>6, <1>8 DEF LimiterInv

LEMMA PruneAndCountKeepsInv ==
  ASSUME LimiterInv, NEW r \in Requests, PruneAndCount(r)
  PROVE  LimiterInv'
<1>1. /\ check[r] = "called" /\ window' = Kept(r)
      /\ expires' = IF window' = {} THEN -1 ELSE expires
      /\ check' = [check EXCEPT ![r] = IF Full(Kept(r)) THEN "over" ELSE "counted"]
      /\ UNCHANGED <<clock, now, recorded>>
  BY DEF PruneAndCount, Verdict
<1>2. /\ window' \in SUBSET window
      /\ window' \in SUBSET Times
      /\ expires' \in {-1} \cup (Window..(MaxTime + Window))
      /\ NoEntryFromTheFuture' /\ KeyOutlivesEntries' /\ LiveEntriesKept'
  BY <1>1, PruningKeepsEntries
<1>3. LimiterTypeOK'
  BY <1>1, <1>2, VerdictType DEF LimiterInv, LimiterTypeOK
<1>4. window \in SUBSET Times
  BY DEF LimiterInv, LimiterTypeOK
<1>5. EntriesAndCounted'
  <2>1. CASE Full(Kept(r))
    <3>1. Counted' = Counted
      BY <1>1, <2>1, CountedStays
    <3>2. Cardinality(window') \in Nat /\ Cardinality(window') <= Cardinality(window)
      BY <1>2, <1>4, SmallerEntries
    <3>3. QED
      BY <3>1, <3>2, LimiterSizes DEF EntriesAndCounted
  <2>2. CASE ~Full(Kept(r))
    <3>1. Cardinality(Counted') <= Cardinality(Requests)
      BY <1>1, <2>2, CountedJoins
    <3>2. Cardinality(window') \in Nat
      BY <1>2, EntriesFinite
    <3>3. ~(Cardinality(window') >= Limit)
      BY <1>1, <2>2 DEF Full
    <3>4. Cardinality(Counted') \in Nat
      BY CountedSize DEF Counted
    <3>5. QED
      BY <3>1, <3>2, <3>3, <3>4, LimiterSizes DEF EntriesAndCounted
  <2>3. QED
    BY <2>1, <2>2
<1>6. QED
  BY <1>2, <1>3, <1>5 DEF LimiterInv

(* Record, and FailOpen after its effect. *)
LEMMA RecordingKeepsInv ==
  ASSUME LimiterInv, NEW r \in Requests, check[r] = "counted", RecordEntry(r),
         check' = [check EXCEPT ![r] = "allowed"], UNCHANGED <<clock, now>>
  PROVE  LimiterInv'
<1>1. /\ window' \in SUBSET Times /\ recorded' \in SUBSET Times
      /\ Cardinality(window') <= Cardinality(window) + 1
      /\ expires' \in {-1} \cup (Window..(MaxTime + Window))
      /\ NoEntryFromTheFuture' /\ KeyOutlivesEntries' /\ LiveEntriesKept'
  BY RecordingKeepsEntries
<1>2. LimiterTypeOK'
  BY <1>1, VerdictType DEF LimiterInv, LimiterTypeOK
<1>3. EntriesAndCounted'
  <2>1. Cardinality(Counted') = Cardinality(Counted) - 1
    BY CountedLeaves
  <2>2. Cardinality(window') \in Nat
    BY <1>1, EntriesFinite
  <2>3. QED
    BY <1>1, <2>1, <2>2, LimiterSizes DEF EntriesAndCounted
<1>4. QED
  BY <1>1, <1>2, <1>3 DEF LimiterInv

LEMMA FailOpenKeepsInv ==
  ASSUME LimiterInv, NEW r \in Requests, FailOpen(r)
  PROVE  LimiterInv'
<1>1. check' = [check EXCEPT ![r] = "allowed"] /\ UNCHANGED <<clock, now>>
  BY DEF FailOpen, Verdict
<1>2. CASE /\ check[r] = "called"
           /\ window' \in {window, Kept(r)}
           /\ expires' = IF window' = {} THEN -1 ELSE expires
           /\ UNCHANGED recorded
  <2>1. /\ window' \in SUBSET window
        /\ window' \in SUBSET Times
        /\ expires' \in {-1} \cup (Window..(MaxTime + Window))
        /\ NoEntryFromTheFuture' /\ KeyOutlivesEntries' /\ LiveEntriesKept'
    BY <1>1, <1>2, PruningKeepsEntries
  <2>2. LimiterTypeOK'
    BY <1>1, <1>2, <2>1, VerdictType DEF LimiterInv, LimiterTypeOK
  <2>3. Counted' = Counted
    BY <1>1, <1>2, CountedStays
  <2>4. window \in SUBSET Times
    BY DEF LimiterInv, LimiterTypeOK
  <2>5. Cardinality(window') \in Nat /\ Cardinality(window') <= Cardinality(window)
    BY <2>1, <2>4, SmallerEntries
  <2>6. EntriesAndCounted'
    BY <2>3, <2>5, LimiterSizes DEF EntriesAndCounted
  <2>7. QED
    BY <2>1, <2>2, <2>6 DEF LimiterInv
<1>3. CASE check[r] = "counted" /\ UNCHANGED <<window, expires, recorded>>
  <2>1. LimiterTypeOK'
    BY <1>1, <1>3, VerdictType DEF LimiterInv, LimiterTypeOK
  <2>2. NoEntryFromTheFuture' /\ KeyOutlivesEntries' /\ LiveEntriesKept'
    BY <1>1, <1>3 DEF LimiterInv, NoEntryFromTheFuture, KeyOutlivesEntries, LiveEntriesKept
  <2>3. Cardinality(Counted') = Cardinality(Counted) - 1
    BY <1>1, <1>3, CountedLeaves
  <2>4. EntriesAndCounted'
    BY <1>3, <2>3, LimiterSizes DEF EntriesAndCounted
  <2>5. QED
    BY <2>1, <2>2, <2>4 DEF LimiterInv
<1>4. CASE check[r] = "counted" /\ RecordEntry(r)
  BY <1>1, <1>4, RecordingKeepsInv
<1>5. QED
  BY <1>2, <1>3, <1>4 DEF FailOpen

LEMMA TickKeepsInv ==
  ASSUME LimiterInv, Tick
  PROVE  LimiterInv'
<1>1. /\ clock < MaxTime /\ clock' = clock + 1
      /\ UNCHANGED <<window, expires, now, check, recorded>>
  BY DEF Tick
<1>2. /\ clock \in Times /\ clock \in Nat /\ MaxTime \in Nat /\ Window \in Nat
      /\ \A t \in Times : t \in Nat
      /\ recorded \in SUBSET Times /\ now \in [Requests -> Times]
  BY LimiterAssumption DEF LimiterInv, LimiterTypeOK, Times, LimiterAssumption
<1>3. clock' \in Times
  BY <1>1, <1>2 DEF Times
<1>4. LimiterTypeOK'
  BY <1>1, <1>3 DEF LimiterInv, LimiterTypeOK
<1>5. NoEntryFromTheFuture'
  <2>1. ASSUME NEW t \in Times, t <= clock
        PROVE  t <= clock'
    BY <1>1, <1>2, <2>1
  <2>2. \A t \in recorded' : t <= clock'
    BY <1>1, <1>2, <2>1 DEF LimiterInv, NoEntryFromTheFuture
  <2>3. \A r \in Requests : now'[r] <= clock'
    BY <1>1, <1>2, <2>1 DEF LimiterInv, NoEntryFromTheFuture
  <2>4. QED
    BY <1>1, <2>2, <2>3 DEF LimiterInv, NoEntryFromTheFuture
<1>6. KeyOutlivesEntries'
  BY <1>1 DEF LimiterInv, KeyOutlivesEntries
<1>7. LiveEntriesKept'
  <2>1. SUFFICES ASSUME NEW t \in recorded, t > clock' - Window
                 PROVE  t \in window
    BY <1>1 DEF LiveEntriesKept
  <2>2. t > clock - Window
    BY <1>1, <1>2, <2>1
  <2>3. QED
    BY <2>2 DEF LimiterInv, LiveEntriesKept
<1>8. EntriesAndCounted'
  BY <1>1 DEF LimiterInv, EntriesAndCounted, Counted
<1>9. QED
  BY <1>4, <1>5, <1>6, <1>7, <1>8 DEF LimiterInv

(* The key goes when each of its entries is as old as the window. *)
LEMMA ExpireKeyKeepsInv ==
  ASSUME LimiterInv, ExpireKey
  PROVE  LimiterInv'
<1>1. /\ expires # -1 /\ clock >= expires /\ window' = {} /\ expires' = -1
      /\ UNCHANGED <<clock, now, check, recorded>>
  BY DEF ExpireKey
<1>2. /\ clock \in Nat /\ Window \in Nat /\ MaxTime \in Nat
      /\ expires \in Window..(MaxTime + Window)
      /\ \A t \in Times : t \in Nat
      /\ window \in SUBSET Times
  BY <1>1, LimiterAssumption DEF LimiterInv, LimiterTypeOK, Times, LimiterAssumption
<1>3. LimiterTypeOK'
  BY <1>1 DEF LimiterInv, LimiterTypeOK
<1>4. NoEntryFromTheFuture' /\ KeyOutlivesEntries'
  BY <1>1 DEF LimiterInv, NoEntryFromTheFuture, KeyOutlivesEntries
<1>5. LiveEntriesKept'
  <2>1. SUFFICES ASSUME NEW t \in recorded, t > clock - Window
                 PROVE  FALSE
    BY <1>1 DEF LiveEntriesKept
  <2>2. t \in window
    BY <2>1 DEF LimiterInv, LiveEntriesKept
  <2>3. t + Window <= expires
    BY <1>1, <2>2 DEF LimiterInv, KeyOutlivesEntries
  <2>4. t \in Nat /\ expires \in Nat
    BY <1>2, <2>2
  <2>5. QED
    BY <1>1, <1>2, <2>1, <2>3, <2>4
<1>6. EntriesAndCounted'
  <2>1. Cardinality(window') = 0 /\ Counted' = Counted
    BY <1>1, FS_EmptySet DEF Counted
  <2>2. QED
    BY <2>1, LimiterSizes DEF EntriesAndCounted
<1>7. QED
  BY <1>3, <1>4, <1>5, <1>6 DEF LimiterInv

-----------------------------------------------------------------------------
LEMMA LimiterInvStep == LimiterInv /\ [LimiterNext]_limiterVars => LimiterInv'
<1>1. SUFFICES ASSUME LimiterInv, [LimiterNext]_limiterVars PROVE LimiterInv'
  OBVIOUS
<1>2. CASE UNCHANGED limiterVars
  <2>1. UNCHANGED <<clock, window, expires, now, check, recorded>>
    BY <1>2 DEF limiterVars
  <2>2. LimiterTypeOK' /\ NoEntryFromTheFuture' /\ KeyOutlivesEntries'
    BY <1>1, <2>1 DEF LimiterInv, LimiterTypeOK, NoEntryFromTheFuture, KeyOutlivesEntries
  <2>3. EntriesAndCounted' /\ LiveEntriesKept'
    BY <1>1, <2>1 DEF LimiterInv, EntriesAndCounted, Counted, LiveEntriesKept
  <2>4. QED
    BY <2>2, <2>3 DEF LimiterInv
<1>3. CASE Tick
  BY <1>1, <1>3, TickKeepsInv
<1>4. CASE ExpireKey
  BY <1>1, <1>4, ExpireKeyKeepsInv
<1>5. ASSUME NEW r \in Requests, CallLimiter(r) \/ LimiterStep(r) \/ LeaveLimiter(r)
      PROVE  LimiterInv'
  <2>1. CASE CallLimiter(r)
    BY <1>1, <2>1, CallLimiterKeepsInv
  <2>2. CASE PruneAndCount(r)
    BY <1>1, <2>2, PruneAndCountKeepsInv
  <2>3. CASE ReadOldest(r)
    <3>1. /\ check[r] # "counted" /\ check' = [check EXCEPT ![r] = "rejected"]
          /\ UNCHANGED <<clock, window, expires, now, recorded>>
      BY <2>3 DEF ReadOldest, Verdict
    <3>2. QED
      BY <1>1, <3>1, MovingOnKeepsInv
  <2>4. CASE Record(r)
    <3>1. /\ check[r] = "counted" /\ RecordEntry(r)
          /\ check' = [check EXCEPT ![r] = "allowed"] /\ UNCHANGED <<clock, now>>
      BY <2>4 DEF Record, Verdict
    <3>2. QED
      BY <1>1, <3>1, RecordingKeepsInv
  <2>5. CASE FailOpen(r)
    BY <1>1, <2>5, FailOpenKeepsInv
  <2>6. CASE LeaveLimiter(r)
    <3>1. /\ check[r] # "counted" /\ check' = [check EXCEPT ![r] = "idle"]
          /\ UNCHANGED <<clock, window, expires, now, recorded>>
      BY <2>6 DEF LeaveLimiter, Verdict
    <3>2. QED
      BY <1>1, <3>1, MovingOnKeepsInv
  <2>7. QED
    BY <1>5, <2>1, <2>2, <2>3, <2>4, <2>5, <2>6 DEF LimiterStep
<1>6. QED
  BY <1>1, <1>2, <1>3, <1>4, <1>5 DEF LimiterNext

LEMMA LimiterIsInv == LimiterSpec => []LimiterInv
BY LimiterInvInit, LimiterInvStep, PTL DEF LimiterSpec

-----------------------------------------------------------------------------
(* The variables of the limiter keep their types. *)
THEOREM LimiterTypeCorrect == LimiterSpec => []LimiterTypeOK
<1>1. LimiterInv => LimiterTypeOK
  BY DEF LimiterInv
<1>2. QED
  BY <1>1, LimiterIsInv, PTL

(* Any number of requests between their two pipelines exceed the limit by   *)
(* no more than the number of the others.                                   *)
THEOREM OvershootIsBounded == LimiterSpec => []OvershootBounded
<1>1. LimiterInv => OvershootBounded
  BY LimiterSizes DEF OvershootBounded
<1>2. QED
  BY <1>1, LimiterIsInv, PTL

(* No entry is lost while it counts. *)
THEOREM LiveEntriesAreKept == LimiterSpec => []LiveEntriesKept
<1>1. LimiterInv => LiveEntriesKept
  BY DEF LimiterInv
<1>2. QED
  BY <1>1, LimiterIsInv, PTL

-----------------------------------------------------------------------------
(* Stretches of time that are over. *)

LEMMA StretchSize ==
  ASSUME LimiterInv, NEW t
  PROVE  /\ IsFiniteSet(Stretch(t)) /\ Cardinality(Stretch(t)) \in Nat
         /\ IsFiniteSet(Late(t)) /\ Cardinality(Late(t)) \in Nat
         /\ Cardinality(Late(t)) <= Cardinality(Requests)
<1>1. Stretch(t) \in SUBSET Times
  BY DEF Stretch, LimiterInv, LimiterTypeOK
<1>2. Late(t) \in SUBSET Requests
  BY DEF Late
<1>3. QED
  BY <1>1, <1>2, EntriesFinite, CountedSize

(* What was recorded in the window that ends now, or later, is an entry. *)
LEMMA OpenStretch ==
  ASSUME LimiterInv, NEW t \in Times, clock <= t
  PROVE  Cardinality(Stretch(t)) <= Limit + Cardinality(Requests) - 1
<1>1. window \in SUBSET Times
  BY DEF LimiterInv, LimiterTypeOK
<1>2. /\ clock \in Int /\ t \in Int /\ Window \in Int
      /\ \A s \in recorded : s \in Int
  BY LimiterAssumption DEF LimiterInv, LimiterTypeOK, Times, LimiterAssumption
<1>3. Stretch(t) \in SUBSET window
  <2>1. SUFFICES ASSUME NEW s \in Stretch(t) PROVE s \in window
    OBVIOUS
  <2>2. s \in recorded /\ s > clock - Window
    BY <1>2, <2>1 DEF Stretch
  <2>3. QED
    BY <2>2 DEF LimiterInv, LiveEntriesKept
<1>4. Cardinality(Stretch(t)) \in Nat /\ Cardinality(Stretch(t)) <= Cardinality(window)
  BY <1>1, <1>3, SmallerEntries
<1>5. QED
  BY <1>4, LimiterSizes

(* A step that records nothing and leaves the time alone adds nothing, if   *)
(* no request comes late to the stretch.                                    *)
LEMMA FewerAreLate ==
  ASSUME LimiterInv, LimiterInv', LateInv, UNCHANGED <<clock, recorded>>,
         \A t \in Times : t < clock => Late(t)' \in SUBSET Late(t)
  PROVE  LateInv'
<1>1. SUFFICES ASSUME NEW t \in Times, t < clock
               PROVE  Cardinality(Stretch(t)') + Cardinality(Late(t)')
                        <= Limit + 2 * Cardinality(Requests) - 1
  BY DEF LateInv
<1>2. Stretch(t)' = Stretch(t)
  BY DEF Stretch
<1>3. Cardinality(Late(t)') \in Nat /\ Cardinality(Late(t)') <= Cardinality(Late(t))
  BY <1>1, StretchSize, FS_Subset, FS_CardinalityType
<1>4. Cardinality(Stretch(t)) + Cardinality(Late(t)) <= Limit + 2 * Cardinality(Requests) - 1
  BY <1>1 DEF LateInv
<1>5. QED
  BY <1>2, <1>3, <1>4, StretchSize, LimiterSizes

(* A request that records in the stretch is no longer late for it. *)
LEMMA RecordingKeepsLate ==
  ASSUME LimiterInv, LimiterInv', LateInv, NEW r \in Requests, check[r] = "counted",
         RecordEntry(r), check' = [check EXCEPT ![r] = "allowed"], UNCHANGED <<clock, now>>
  PROVE  LateInv'
<1>1. SUFFICES ASSUME NEW t \in Times, t < clock
               PROVE  Cardinality(Stretch(t)') + Cardinality(Late(t)')
                        <= Limit + 2 * Cardinality(Requests) - 1
  BY DEF LateInv
<1>2. Cardinality(Stretch(t)) + Cardinality(Late(t)) <= Limit + 2 * Cardinality(Requests) - 1
  BY <1>1 DEF LateInv
<1>3. check \in [Requests -> {"idle", "called", "counted", "over", "allowed", "rejected"}]
  BY DEF LimiterInv, LimiterTypeOK
<1>4. Late(t)' = Late(t) \ {r}
  BY <1>3 DEF Late
<1>5. recorded' = recorded \cup {now[r]}
  BY DEF RecordEntry
<1>6. CASE now[r] <= t
  <2>1. r \in Late(t)
    BY <1>6 DEF Late
  <2>2. Cardinality(Late(t)') = Cardinality(Late(t)) - 1
    BY <1>4, <2>1, StretchSize, FS_RemoveElement
  <2>3. Stretch(t)' \in SUBSET (Stretch(t) \cup {now[r]})
    BY <1>5 DEF Stretch
  <2>4. /\ IsFiniteSet(Stretch(t) \cup {now[r]})
        /\ Cardinality(Stretch(t) \cup {now[r]}) \in Nat
        /\ Cardinality(Stretch(t) \cup {now[r]}) <= Cardinality(Stretch(t)) + 1
    <3>1. IsFiniteSet(Stretch(t)) /\ Cardinality(Stretch(t)) \in Nat
      BY StretchSize
    <3>2. Cardinality(Stretch(t) \cup {now[r]})
            = IF now[r] \in Stretch(t) THEN Cardinality(Stretch(t))
              ELSE Cardinality(Stretch(t)) + 1
      BY <3>1, FS_AddElement
    <3>3. IsFiniteSet(Stretch(t) \cup {now[r]})
      BY <3>1, FS_AddElement
    <3>4. QED
      BY <3>1, <3>2, <3>3
  <2>5. /\ Cardinality(Stretch(t)') \in Nat
        /\ Cardinality(Stretch(t)') <= Cardinality(Stretch(t) \cup {now[r]})
    BY <2>3, <2>4, FS_Subset, FS_CardinalityType
  <2>6. QED
    BY <1>2, <2>2, <2>4, <2>5, StretchSize, LimiterSizes
<1>7. CASE ~ (now[r] <= t)
  <2>1. Stretch(t)' = Stretch(t)
    BY <1>5, <1>7 DEF Stretch
  <2>2. Late(t)' \in SUBSET Late(t)
    BY <1>4
  <2>3. Cardinality(Late(t)') \in Nat /\ Cardinality(Late(t)') <= Cardinality(Late(t))
    BY <2>2, StretchSize, FS_Subset, FS_CardinalityType
  <2>4. QED
    BY <1>2, <2>1, <2>3, StretchSize, LimiterSizes
<1>8. QED
  BY <1>6, <1>7

(* When the time moves on, the entries and the requests under way are all   *)
(* that the window that just ended can come to hold.                        *)
LEMMA TickKeepsLate ==
  ASSUME LimiterInv, LimiterInv', LateInv, Tick
  PROVE  LateInv'
<1>1. clock' = clock + 1 /\ UNCHANGED <<now, check, recorded>>
  BY DEF Tick
<1>2. clock \in Int /\ \A t \in Times : t \in Int
  BY LimiterAssumption DEF LimiterInv, LimiterTypeOK, Times, LimiterAssumption
<1>3. SUFFICES ASSUME NEW t \in Times, t < clock + 1
               PROVE  Cardinality(Stretch(t)) + Cardinality(Late(t))
                        <= Limit + 2 * Cardinality(Requests) - 1
  BY <1>1 DEF LateInv, Stretch, Late
<1>4. CASE t < clock
  BY <1>4 DEF LateInv
<1>5. CASE ~ (t < clock)
  <2>1. clock <= t
    BY <1>2, <1>5
  <2>2. Cardinality(Stretch(t)) <= Limit + Cardinality(Requests) - 1
    BY <2>1, OpenStretch
  <2>3. QED
    BY <2>2, StretchSize, LimiterSizes
<1>6. QED
  BY <1>4, <1>5

LEMMA LateInvStep ==
  ASSUME LimiterInv, LimiterInv', LateInv, [LimiterNext]_limiterVars
  PROVE  LateInv'
<1>t. /\ check \in [Requests -> {"idle", "called", "counted", "over", "allowed", "rejected"}]
      /\ now \in [Requests -> Times] /\ clock \in Int /\ \A t \in Times : t \in Int
  BY LimiterAssumption DEF LimiterInv, LimiterTypeOK, Times, LimiterAssumption
<1>1. ASSUME NEW r \in Requests, CallLimiter(r) PROVE LateInv'
  <2>1. /\ check[r] = "idle" /\ now' = [now EXCEPT ![r] = clock]
        /\ check' = [check EXCEPT ![r] = "called"]
        /\ UNCHANGED <<clock, recorded>>
    BY <1>1 DEF CallLimiter, Verdict
  <2>2. ASSUME NEW t \in Times, t < clock, NEW q \in Requests, q \in Late(t)'
        PROVE  q \in Late(t)
    <3>1. check'[q] \in {"called", "counted"} /\ now'[q] <= t
      BY <2>2 DEF Late
    <3>2. q # r
      BY <1>t, <2>1, <2>2, <3>1
    <3>3. QED
      BY <1>t, <2>1, <3>1, <3>2 DEF Late
  <2>3. \A t \in Times : t < clock => Late(t)' \in SUBSET Late(t)
    BY <2>2 DEF Late
  <2>4. QED
    BY <2>1, <2>3, FewerAreLate
<1>2. ASSUME NEW r \in Requests, NEW verdict, verdict # "called",
             verdict = "counted" => check[r] = "called",
             check' = [check EXCEPT ![r] = verdict], UNCHANGED <<clock, now, recorded>>
      PROVE  LateInv'
  <2>1. \A t \in Times : t < clock => Late(t)' \in SUBSET Late(t)
    BY <1>t, <1>2 DEF Late
  <2>2. QED
    BY <1>2, <2>1, FewerAreLate
<1>3. ASSUME NEW r \in Requests, PruneAndCount(r) PROVE LateInv'
  <2>1. /\ check[r] = "called" /\ UNCHANGED <<clock, now, recorded>>
        /\ check' = [check EXCEPT ![r] = IF Full(Kept(r)) THEN "over" ELSE "counted"]
    BY <1>3 DEF PruneAndCount, Verdict
  <2>2. CASE Full(Kept(r))
    BY <1>2, <2>1, <2>2
  <2>3. CASE ~ Full(Kept(r))
    BY <1>2, <2>1, <2>3
  <2>4. QED
    BY <2>2, <2>3
<1>4. ASSUME NEW r \in Requests, ReadOldest(r) PROVE LateInv'
  <2>1. /\ UNCHANGED <<clock, now, recorded>>
        /\ check' = [check EXCEPT ![r] = "rejected"]
    BY <1>4 DEF ReadOldest, Verdict
  <2>2. QED
    BY <1>2, <2>1
<1>5. ASSUME NEW r \in Requests, LeaveLimiter(r) PROVE LateInv'
  <2>1. /\ UNCHANGED <<clock, now, recorded>>
        /\ check' = [check EXCEPT ![r] = "idle"]
    BY <1>5 DEF LeaveLimiter, Verdict
  <2>2. QED
    BY <1>2, <2>1
<1>6. ASSUME NEW r \in Requests, Record(r) PROVE LateInv'
  BY <1>6, RecordingKeepsLate DEF Record, Verdict
<1>7. ASSUME NEW r \in Requests, FailOpen(r) PROVE LateInv'
  <2>1. /\ UNCHANGED <<clock, now>> /\ check' = [check EXCEPT ![r] = "allowed"]
        /\ UNCHANGED recorded \/ (check[r] = "counted" /\ RecordEntry(r))
    BY <1>7 DEF FailOpen, Verdict
  <2>2. CASE UNCHANGED recorded
    BY <1>2, <2>1, <2>2
  <2>3. CASE check[r] = "counted" /\ RecordEntry(r)
    BY <2>1, <2>3, RecordingKeepsLate
  <2>4. QED
    BY <2>1, <2>2, <2>3
<1>8. CASE ExpireKey \/ UNCHANGED limiterVars
  <2>1. UNCHANGED <<clock, now, check, recorded>>
    BY <1>8 DEF ExpireKey, limiterVars
  <2>2. QED
    BY <2>1, FewerAreLate DEF Late
<1>9. CASE Tick
  BY <1>9, TickKeepsLate
<1>10. QED
  BY <1>1, <1>3, <1>4, <1>5, <1>6, <1>7, <1>8, <1>9 DEF LimiterNext, LimiterStep

(* No window of the user's time, past or present, ever comes to hold more   *)
(* recorded times than the limit, and twice the requests under way less one. *)
THEOREM EveryWindowIsBounded == LimiterSpec => []AnyWindowBounded
<1>1. LimiterInit => LateInv
  BY LimiterAssumption DEF LimiterInit, LateInv, Times, LimiterAssumption
<1>2. LimiterInv /\ LimiterInv' /\ LateInv /\ [LimiterNext]_limiterVars => LateInv'
  BY LateInvStep
<1>3. LimiterInv /\ LateInv => AnyWindowBounded
  <2>1. SUFFICES ASSUME LimiterInv, LateInv, NEW t \in Times
                 PROVE  Cardinality(Stretch(t)) <= Limit + 2 * Cardinality(Requests) - 1
    BY DEF AnyWindowBounded
  <2>2. clock \in Int /\ t \in Int
    BY <2>1, LimiterAssumption DEF LimiterInv, LimiterTypeOK, Times, LimiterAssumption
  <2>3. CASE t < clock
    <3>1. Cardinality(Stretch(t)) + Cardinality(Late(t))
            <= Limit + 2 * Cardinality(Requests) - 1
      BY <2>1, <2>3 DEF LateInv
    <3>2. QED
      BY <2>1, <3>1, StretchSize, LimiterSizes
  <2>4. CASE clock <= t
    <3>1. Cardinality(Stretch(t)) <= Limit + Cardinality(Requests) - 1
      BY <2>1, <2>4, OpenStretch
    <3>2. QED
      BY <2>1, <3>1, StretchSize, LimiterSizes
  <2>5. QED
    BY <2>2, <2>3, <2>4
<1>4. QED
  BY <1>1, <1>2, <1>3, LimiterIsInv, PTL DEF LimiterSpec

(* Every rejection has Limit recorded requests in the window before it. *)
THEOREM RejectionsJustified == LimiterSpec => RejectionsAreJustified
<1> DEFINE Before(r) == {t \in recorded : t > now[r] - Window}
           Justified == \A r \in Requests :
                          check'[r] = "over" /\ check[r] # "over" =>
                              Cardinality(Before(r)) >= Limit
<1>1. ASSUME LimiterInv, NEW r \in Requests, check'[r] = "over", check[r] # "over",
             LimiterNext
      PROVE  Cardinality(Before(r)) >= Limit
  <2>1. check \in [Requests -> {"idle", "called", "counted", "over", "allowed", "rejected"}]
    BY <1>1 DEF LimiterInv, LimiterTypeOK
  <2>2. PruneAndCount(r)
    <3>1. ~UNCHANGED check
      BY <1>1
    <3>2. PICK q \in Requests : CallLimiter(q) \/ LimiterStep(q) \/ LeaveLimiter(q)
      BY <1>1, <3>1 DEF LimiterNext, Tick, ExpireKey
    <3>3. PICK verdict : Verdict(q, verdict)
      BY <3>2, Zenon DEF LimiterStep, CallLimiter, PruneAndCount, ReadOldest, Record, FailOpen,
                         LeaveLimiter
    <3>4. q = r
      BY <1>1, <2>1, <3>3 DEF Verdict
    <3>5. ~CallLimiter(r) /\ ~LeaveLimiter(r) /\ ~ReadOldest(r)
      BY <1>1, <2>1 DEF CallLimiter, LeaveLimiter, ReadOldest, Verdict
    <3>6. ~Record(r) /\ ~FailOpen(r)
      BY <1>1, <2>1 DEF Record, FailOpen, Verdict
    <3>7. QED
      BY <3>2, <3>4, <3>5, <3>6 DEF LimiterStep
  <2>3. Cardinality(Kept(r)) >= Limit
    BY <1>1, <2>1, <2>2 DEF PruneAndCount, Verdict, Full
  <2>4. Kept(r) \in SUBSET Before(r) /\ Before(r) \in SUBSET Times
    BY <1>1 DEF Kept, LimiterInv, LimiterTypeOK, NoEntryFromTheFuture
  <2>5. /\ Cardinality(Kept(r)) \in Nat /\ Cardinality(Before(r)) \in Nat
        /\ Cardinality(Kept(r)) <= Cardinality(Before(r))
    BY <2>4, SmallerEntries
  <2>6. QED
    BY <2>3, <2>5, LimiterAssumption DEF LimiterAssumption
<1>2. LimiterInv /\ [LimiterNext]_limiterVars => [Justified]_limiterVars
  BY <1>1
<1>3. LimiterInv /\ [LimiterNext]_limiterVars =>
        [\A r \in Requests : check'[r] = "over" /\ check[r] # "over" =>
           Cardinality({t \in recorded : t > now[r] - Window}) >= Limit]_limiterVars
  BY <1>2
<1>4. QED
  BY <1>3, LimiterIsInv, PTL DEF LimiterSpec, RejectionsAreJustified
=============================================================================
