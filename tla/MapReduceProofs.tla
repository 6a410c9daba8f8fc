--------------------------- MODULE MapReduceProofs ---------------------------
(* Theorems about MapReduce, for every batch size, every number of          *)
(* summaries and any answers of the LLM.                                    *)
EXTENDS MapReduce, TLAPS, SequenceTheorems

-----------------------------------------------------------------------------
(* The inductive invariant: what ReductionKeepsOrder says of everything at  *)
(* hand, part by part, for what was made (next), what is left (level) and   *)
(* an accumulator that is still to be inserted.                             *)

Among(x, digests) == \E i \in 1..Len(digests) : x \in digests[i]

Ascending(digests) == \A i, j \in 1..Len(digests) : i < j => Earlier(digests[i], digests[j])

AllEarlier(before, after) ==
  \A i \in 1..Len(before), j \in 1..Len(after) : Earlier(before[i], after[j])

Pending == reducing = "digest" /\ accumulated

NothingLost ==
  \A x \in 0..summaries :
    x \in GoneInto <=> (Pending /\ x = 0) \/ Among(x, next) \/ Among(x, level)

PartsInOrder ==
  /\ Ascending(next)
  /\ Ascending(level)
  /\ AllEarlier(next, level)
  /\ Pending => ~Among(0, next) /\ ~Among(0, level)

ReduceInv ==
  /\ ReduceTypeOK
  /\ reducing \in {"digest", "merge"} =>
        summaries >= 1 /\ tries <= 1 /\ NothingLost /\ PartsInOrder
  /\ reducing = "reduced" => next = <<>> /\ level = <<GoneInto>>

-----------------------------------------------------------------------------
(* Lemmas about sequences of digests. *)

LEMMA ConcatPositions ==
  ASSUME NEW S, NEW s \in Seq(S), NEW t \in Seq(S)
  PROVE  /\ s \o t \in Seq(S)
         /\ Len(s \o t) = Len(s) + Len(t)
         /\ \A i \in 1..Len(s) : (s \o t)[i] = s[i]
         /\ \A i \in 1..Len(t) : (s \o t)[Len(s) + i] = t[i]
OBVIOUS

LEMMA ConcatEnd ==
  ASSUME NEW S, NEW s \in Seq(S), NEW t \in Seq(S), NEW i \in 1..(Len(s) + Len(t)), ~ (i <= Len(s))
  PROVE  i - Len(s) \in 1..Len(t) /\ (s \o t)[i] = t[i - Len(s)]
<1>1. Len(s) \in Nat /\ Len(t) \in Nat
  OBVIOUS
<1>2. i - Len(s) \in 1..Len(t) /\ Len(s) + (i - Len(s)) = i
  BY <1>1
<1>3. QED
  BY <1>2, ConcatPositions

LEMMA AmongConcat ==
  ASSUME NEW S, NEW s \in Seq(S), NEW t \in Seq(S), NEW x
  PROVE  Among(x, s \o t) <=> Among(x, s) \/ Among(x, t)
<1>1. Len(s) \in Nat /\ Len(t) \in Nat /\ Len(s \o t) = Len(s) + Len(t)
  BY ConcatPositions
<1>2. ASSUME Among(x, s) PROVE Among(x, s \o t)
  <2>1. PICK i \in 1..Len(s) : x \in s[i]
    BY <1>2 DEF Among
  <2>2. i \in 1..Len(s \o t) /\ (s \o t)[i] = s[i]
    BY <1>1, ConcatPositions
  <2>3. QED
    BY <2>1, <2>2 DEF Among
<1>3. ASSUME Among(x, t) PROVE Among(x, s \o t)
  <2>1. PICK i \in 1..Len(t) : x \in t[i]
    BY <1>3 DEF Among
  <2>2. Len(s) + i \in 1..Len(s \o t) /\ (s \o t)[Len(s) + i] = t[i]
    BY <1>1, ConcatPositions
  <2>3. QED
    BY <2>1, <2>2 DEF Among
<1>4. ASSUME Among(x, s \o t) PROVE Among(x, s) \/ Among(x, t)
  <2>1. PICK i \in 1..(Len(s) + Len(t)) : x \in (s \o t)[i]
    BY <1>1, <1>4 DEF Among
  <2>2. CASE i <= Len(s)
    <3>1. i \in 1..Len(s) /\ (s \o t)[i] = s[i]
      BY <1>1, <2>2, ConcatPositions
    <3>2. QED
      BY <2>1, <3>1 DEF Among
  <2>3. CASE ~ (i <= Len(s))
    <3>1. i - Len(s) \in 1..Len(t) /\ (s \o t)[i] = t[i - Len(s)]
      BY <2>3, ConcatEnd
    <3>2. QED
      BY <2>1, <3>1 DEF Among
  <2>4. QED
    BY <2>2, <2>3
<1>5. QED
  BY <1>2, <1>3, <1>4

LEMMA AscendingConcat ==
  ASSUME NEW S, NEW s \in Seq(S), NEW t \in Seq(S), Ascending(s), Ascending(t), AllEarlier(s, t)
  PROVE  Ascending(s \o t)
<1>1. Len(s) \in Nat /\ Len(t) \in Nat /\ Len(s \o t) = Len(s) + Len(t)
  BY ConcatPositions
<1>2. SUFFICES ASSUME NEW i \in 1..(Len(s) + Len(t)), NEW j \in 1..(Len(s) + Len(t)), i < j
               PROVE  Earlier((s \o t)[i], (s \o t)[j])
  BY <1>1 DEF Ascending
<1>3. CASE j <= Len(s)
  <2>1. i \in 1..Len(s) /\ j \in 1..Len(s)
    BY <1>1, <1>2, <1>3
  <2>2. (s \o t)[i] = s[i] /\ (s \o t)[j] = s[j]
    BY <2>1, ConcatPositions
  <2>3. QED
    BY <1>2, <2>1, <2>2 DEF Ascending
<1>4. CASE ~ (j <= Len(s)) /\ i <= Len(s)
  <2>1. i \in 1..Len(s) /\ (s \o t)[i] = s[i]
    BY <1>1, <1>2, <1>4, ConcatPositions
  <2>2. j - Len(s) \in 1..Len(t) /\ (s \o t)[j] = t[j - Len(s)]
    BY <1>4, ConcatEnd
  <2>3. QED
    BY <2>1, <2>2 DEF AllEarlier
<1>5. CASE ~ (i <= Len(s))
  <2>1. ~ (j <= Len(s))
    BY <1>1, <1>2, <1>5
  <2>2. /\ i - Len(s) \in 1..Len(t) /\ (s \o t)[i] = t[i - Len(s)]
        /\ j - Len(s) \in 1..Len(t) /\ (s \o t)[j] = t[j - Len(s)]
    BY <1>5, <2>1, ConcatEnd
  <2>3. i - Len(s) < j - Len(s)
    BY <1>1, <1>2
  <2>4. QED
    BY <2>2, <2>3 DEF Ascending
<1>6. QED
  BY <1>3, <1>4, <1>5

(* What a prompt takes from the front of a level, and what it leaves. *)
LEMMA LevelRest ==
  ASSUME NEW S, NEW s \in Seq(S), NEW k \in 1..Len(s)
  PROVE  /\ SubSeq(s, k + 1, Len(s)) \in Seq(S)
         /\ Len(SubSeq(s, k + 1, Len(s))) = Len(s) - k
         /\ \A i \in 1..(Len(s) - k) : SubSeq(s, k + 1, Len(s))[i] = s[k + i]
OBVIOUS

LEMMA AppendedDigest ==
  ASSUME NEW S, NEW s \in Seq(S), NEW d \in S
  PROVE  /\ Append(s, d) \in Seq(S)
         /\ Len(Append(s, d)) = Len(s) + 1
         /\ Append(s, d)[Len(s) + 1] = d
         /\ \A i \in 1..Len(s) : Append(s, d)[i] = s[i]
OBVIOUS

LEMMA EmptyDigests ==
  ASSUME NEW S
  PROVE  /\ <<>> \in Seq(S) /\ Len(<<>>) = 0
         /\ Ascending(<<>>)
         /\ \A x : ~Among(x, <<>>)
         /\ \A s : AllEarlier(<<>>, s) /\ AllEarlier(s, <<>>)
BY DEF Ascending, Among, AllEarlier

LEMMA OnlyDigest ==
  ASSUME NEW S, NEW s \in Seq(S), Len(s) = 1
  PROVE  s = <<s[1]>> /\ s[1] \in S
<1>1. s[1] \in S
  OBVIOUS
<1>2. <<s[1]>> \in Seq(S) /\ Len(<<s[1]>>) = 1 /\ <<s[1]>>[1] = s[1]
  BY <1>1
<1>3. \A i \in 1..Len(s) : s[i] = <<s[1]>>[i]
  <2>1. \A i \in 1..Len(s) : i = 1
    OBVIOUS
  <2>2. QED
    BY <1>2, <2>1
<1>4. QED
  BY <1>1, <1>2, <1>3, SeqEqual

LEMMA SingleDigest ==
  ASSUME NEW S, NEW d \in S
  PROVE  /\ <<d>> \in Seq(S) /\ Len(<<d>>) = 1 /\ <<d>>[1] = d
         /\ Ascending(<<d>>)
         /\ \A x : Among(x, <<d>>) <=> x \in d
<1>1. <<d>> \in Seq(S) /\ Len(<<d>>) = 1 /\ <<d>>[1] = d
  OBVIOUS
<1>2. \A i \in 1..Len(<<d>>) : i = 1
  BY <1>1
<1>3. Ascending(<<d>>)
  <2>1. \A i, j \in 1..Len(<<d>>) : ~ (i < j)
    BY <1>2
  <2>2. QED
    BY <2>1 DEF Ascending
<1>4. \A x : Among(x, <<d>>) <=> x \in d
  BY <1>1, <1>2 DEF Among
<1>5. QED
  BY <1>1, <1>3, <1>4

-----------------------------------------------------------------------------
LEMMA GoneIntoRange ==
  ASSUME ReduceTypeOK
  PROVE  GoneInto \in SUBSET (0..summaries)
BY DEF ReduceTypeOK, GoneInto

LEMMA TakenRange ==
  ASSUME ReduceAssumption, NEW S, level \in Seq(S), level # <<>>
  PROVE  Taken \in 1..Len(level)
<1>1. Len(level) \in Nat \ {0}
  OBVIOUS
<1>2. BatchSize \in Nat \ {0}
  BY DEF ReduceAssumption
<1>3. QED
  BY <1>1, <1>2 DEF Taken

LEMMA ReduceInvInit == ReduceInit => ReduceInv
<1> SUFFICES ASSUME ReduceInit PROVE ReduceInv
  OBVIOUS
<1>1. ReduceTypeOK
  <2>0. level = <<>> /\ next = <<>>
    BY DEF ReduceInit
  <2>1. level \in Seq(SUBSET (0..summaries)) /\ next \in Seq(SUBSET (0..summaries))
    BY <2>0
  <2>2. summaries \in 0..MaxSummaries
    BY ReduceAssumption DEF ReduceInit, ReduceAssumption
  <2>3. tries \in 0..2 /\ reducing = "idle"
    BY DEF ReduceInit
  <2>4. accumulated \in BOOLEAN
    BY Zenon DEF ReduceInit
  <2>5. QED
    BY <2>1, <2>2, <2>3, <2>4 DEF ReduceTypeOK
<1>2. QED
  BY <1>1 DEF ReduceInit, ReduceInv

LEMMA CallReduceKeepsInv ==
  ASSUME ReduceAssumption, ReduceInv, NEW n \in 0..MaxSummaries, NEW accumulator \in BOOLEAN,
         CallReduce(n, accumulator)
  PROVE  ReduceInv'
<1> DEFINE singles == [i \in 1..n |-> {i}]
<1>1. n \in Nat
  BY DEF ReduceAssumption
<1>2. summaries' = n /\ accumulated' = accumulator /\ next' = <<>> /\ tries' = 0
  BY DEF CallReduce
<1>3. \/ n > 0 /\ level' = singles /\ reducing' = "digest"
      \/ n = 0 /\ accumulator /\ level' = <<{0}>> /\ reducing' = "reduced"
      \/ n = 0 /\ ~accumulator /\ level' = singles /\ reducing' = "failed"
  BY <1>1 DEF CallReduce
<1>4. /\ singles \in Seq(SUBSET (0..n)) /\ Len(singles) = n
      /\ \A i \in 1..Len(singles) : singles[i] = {i}
  <2>1. singles \in [1..n -> SUBSET (0..n)]
    BY <1>1
  <2>2. QED
    BY <1>1, <2>1
<1> HIDE DEF singles
<1>5. level' \in Seq(SUBSET (0..n))
  <2>1. CASE n = 0 /\ level' = <<{0}>>
    <3>1. {0} \in SUBSET (0..n)
      BY <2>1
    <3>2. QED
      BY <2>1, <3>1, SingleDigest
  <2>2. QED
    BY <1>3, <1>4, <2>1
<1>6. ReduceTypeOK'
  <2>1. next' \in Seq(SUBSET (0..n))
    BY <1>2, EmptyDigests
  <2>2. tries' \in 0..2 /\ reducing' \in {"digest", "reduced", "failed"}
    BY <1>2, <1>3
  <2>3. QED
    BY <1>2, <1>5, <2>1, <2>2 DEF ReduceTypeOK
<1>7. ASSUME reducing' \in {"digest", "merge"}
      PROVE  (summaries >= 1 /\ tries <= 1 /\ NothingLost /\ PartsInOrder)'
  <2>1. n >= 1 /\ level' = singles /\ reducing' = "digest"
    BY <1>1, <1>3, <1>7
  <2>2. \A x : ~Among(x, next')
    BY <1>2, EmptyDigests
  <2>3. \A x : Among(x, level') <=> x \in 1..n
    BY <1>4, <2>1 DEF Among
  <2>4. NothingLost'
    <3>1. SUFFICES ASSUME NEW x \in 0..n
                   PROVE  x \in GoneInto' <=> (Pending' /\ x = 0) \/ x \in 1..n
      BY <1>2, <2>2, <2>3 DEF NothingLost
    <3>2. GoneInto' = (1..n) \cup (IF accumulator THEN {0} ELSE {})
      BY <1>2 DEF GoneInto
    <3>3. Pending' <=> accumulator
      BY <1>2, <2>1 DEF Pending
    <3>4. QED
      BY <3>2, <3>3
  <2>5. PartsInOrder'
    <3>1. Ascending(next') /\ AllEarlier(next', level')
      BY <1>2, EmptyDigests
    <3>2. Ascending(level')
      <4>1. SUFFICES ASSUME NEW i \in 1..Len(singles), NEW j \in 1..Len(singles), i < j
                     PROVE  Earlier(singles[i], singles[j])
        BY <2>1 DEF Ascending
      <4>2. QED
        BY <1>1, <1>4, <4>1 DEF Earlier
    <3>3. ~Among(0, next') /\ ~Among(0, level')
      BY <1>1, <2>2, <2>3
    <3>4. QED
      BY <3>1, <3>2, <3>3 DEF PartsInOrder
  <2>6. QED
    BY <1>2, <2>1, <2>4, <2>5
<1>8. ASSUME reducing' = "reduced" PROVE (next = <<>> /\ level = <<GoneInto>>)'
  <2>1. n = 0 /\ accumulator /\ level' = <<{0}>>
    BY <1>3, <1>8
  <2>2. GoneInto' = {0}
    BY <1>2, <2>1 DEF GoneInto
  <2>3. QED
    BY <1>2, <2>1, <2>2
<1>9. QED
  BY <1>6, <1>7, <1>8 DEF ReduceInv

LEMMA ValidAnswerKeepsInv ==
  ASSUME ReduceAssumption, ReduceInv, ValidAnswer
  PROVE  ReduceInv'
<1> DEFINE k == Taken
           digest == UNION {level[i] : i \in 1..k}
           S == SUBSET (0..summaries)
<1>1. /\ level \in Seq(S) /\ next \in Seq(S)
      /\ summaries \in 0..MaxSummaries /\ summaries \in Nat
  BY DEF ReduceInv, ReduceTypeOK, ReduceAssumption
<1>2. /\ reducing \in {"digest", "merge"} /\ level # <<>>
      /\ next' = Append(next, digest) /\ level' = SubSeq(level, k + 1, Len(level)) /\ tries' = 0
      /\ summaries' = summaries /\ accumulated' = accumulated /\ reducing' = reducing
  BY DEF ValidAnswer, Synthesizing
<1>3. summaries >= 1 /\ tries <= 1 /\ NothingLost /\ PartsInOrder
  BY <1>2 DEF ReduceInv
<1> HIDE DEF S
<1>4. k \in 1..Len(level)
  BY <1>1, <1>2, TakenRange
<1> HIDE DEF k
<1>5. Len(level) \in Nat /\ Len(next) \in Nat /\ k \in Nat
  BY <1>1, <1>4
<1>6. \A i \in 1..Len(level) : level[i] \in S
  BY <1>1
<1>7. digest \in S
  BY <1>4, <1>5, <1>6 DEF S
<1>8. \A x : x \in digest <=> \E i \in 1..k : x \in level[i]
  OBVIOUS
<1> HIDE DEF digest
<1>9. /\ level' \in Seq(S) /\ Len(level') = Len(level) - k
      /\ \A i \in 1..(Len(level) - k) : level'[i] = level[k + i]
  BY <1>1, <1>2, <1>4, LevelRest
<1>10. /\ next' \in Seq(S) /\ Len(next') = Len(next) + 1
       /\ next'[Len(next) + 1] = digest
       /\ \A i \in 1..Len(next) : next'[i] = next[i]
  BY <1>1, <1>2, <1>7, AppendedDigest
<1>11. ReduceTypeOK'
  <2>1. level' \in Seq(SUBSET (0..summaries')) /\ next' \in Seq(SUBSET (0..summaries'))
    BY <1>2, <1>9, <1>10 DEF S
  <2>2. QED
    BY <1>2, <2>1 DEF ReduceInv, ReduceTypeOK
<1>12. \A x : Among(x, next') <=> Among(x, next) \/ x \in digest
  <2>1. \A i \in 1..Len(next') : i \in 1..Len(next) \/ i = Len(next) + 1
    BY <1>5, <1>10
  <2>2. Len(next) + 1 \in 1..Len(next') /\ \A i \in 1..Len(next) : i \in 1..Len(next')
    BY <1>5, <1>10
  <2>3. QED
    BY <1>10, <2>1, <2>2 DEF Among
<1>13. \A x : Among(x, level) <=> x \in digest \/ Among(x, level')
  <2>1. ASSUME NEW x, Among(x, level) PROVE x \in digest \/ Among(x, level')
    <3>1. PICK i \in 1..Len(level) : x \in level[i]
      BY <2>1 DEF Among
    <3>2. CASE i <= k
      BY <1>5, <1>8, <3>1, <3>2
    <3>3. CASE ~ (i <= k)
      <4>1. i - k \in 1..(Len(level) - k) /\ k + (i - k) = i
        BY <1>5, <3>3
      <4>2. x \in level'[i - k] /\ i - k \in 1..Len(level')
        BY <1>9, <3>1, <4>1
      <4>3. QED
        BY <4>2 DEF Among
    <3>4. QED
      BY <3>2, <3>3
  <2>2. ASSUME NEW x, x \in digest PROVE Among(x, level)
    <3>1. PICK i \in 1..k : x \in level[i]
      BY <1>8, <2>2
    <3>2. i \in 1..Len(level)
      BY <1>4, <1>5
    <3>3. QED
      BY <3>1, <3>2 DEF Among
  <2>3. ASSUME NEW x, Among(x, level') PROVE Among(x, level)
    <3>1. PICK i \in 1..(Len(level) - k) : x \in level'[i]
      BY <1>9, <2>3 DEF Among
    <3>2. k + i \in 1..Len(level) /\ x \in level[k + i]
      BY <1>4, <1>5, <1>9, <3>1
    <3>3. QED
      BY <3>2 DEF Among
  <2>4. QED
    BY <2>1, <2>2, <2>3
<1>14. NothingLost'
  <2>1. GoneInto' = GoneInto /\ Pending' = Pending
    BY <1>2 DEF GoneInto, Pending
  <2>2. QED
    BY <1>2, <1>3, <1>12, <1>13, <2>1 DEF NothingLost
<1>15. Ascending(next) /\ Ascending(level) /\ AllEarlier(next, level)
  BY <1>3 DEF PartsInOrder
<1>16. Ascending(next')
  <2>1. SUFFICES ASSUME NEW i \in 1..Len(next'), NEW j \in 1..Len(next'), i < j
                 PROVE  Earlier(next'[i], next'[j])
    BY DEF Ascending
  <2>2. i \in 1..Len(next)
    BY <1>5, <1>10, <2>1
  <2>3. CASE j \in 1..Len(next)
    BY <1>10, <1>15, <2>1, <2>2, <2>3 DEF Ascending
  <2>4. CASE j = Len(next) + 1
    <3>1. \A y \in digest : \E m \in 1..Len(level) : y \in level[m]
      BY <1>4, <1>5, <1>8
    <3>2. \A y \in digest : \A x \in next[i] : x < y
      BY <1>15, <2>2, <3>1 DEF AllEarlier, Earlier
    <3>3. QED
      BY <1>10, <2>2, <2>4, <3>2 DEF Earlier
  <2>5. QED
    BY <1>5, <1>10, <2>3, <2>4
<1>17. Ascending(level')
  <2>1. SUFFICES ASSUME NEW i \in 1..(Len(level) - k), NEW j \in 1..(Len(level) - k), i < j
                 PROVE  Earlier(level'[i], level'[j])
    BY <1>9 DEF Ascending
  <2>2. k + i \in 1..Len(level) /\ k + j \in 1..Len(level) /\ k + i < k + j
    BY <1>4, <1>5, <2>1
  <2>3. Earlier(level[k + i], level[k + j])
    BY <1>15, <2>2 DEF Ascending
  <2>4. QED
    BY <1>9, <2>3
<1>18. AllEarlier(next', level')
  <2>1. SUFFICES ASSUME NEW i \in 1..Len(next'), NEW j \in 1..(Len(level) - k)
                 PROVE  Earlier(next'[i], level[k + j])
    BY <1>9 DEF AllEarlier
  <2>2. k + j \in 1..Len(level)
    BY <1>4, <1>5
  <2>3. CASE i \in 1..Len(next)
    BY <1>10, <1>15, <2>2, <2>3 DEF AllEarlier
  <2>4. CASE i = Len(next) + 1
    <3>1. \A x \in digest : \E m \in 1..k : x \in level[m]
      BY <1>8
    <3>2. \A m \in 1..k : m \in 1..Len(level) /\ m < k + j
      BY <1>4, <1>5
    <3>3. \A m \in 1..k : Earlier(level[m], level[k + j])
      BY <1>15, <2>2, <3>2 DEF Ascending
    <3>4. QED
      BY <1>10, <2>4, <3>1, <3>3 DEF Earlier
  <2>5. QED
    BY <1>5, <1>10, <2>3, <2>4
<1>19. Pending' => ~Among(0, next') /\ ~Among(0, level')
  BY <1>2, <1>3, <1>12, <1>13 DEF Pending, PartsInOrder
<1>20. PartsInOrder'
  BY <1>16, <1>17, <1>18, <1>19 DEF PartsInOrder
<1>21. QED
  BY <1>2, <1>3, <1>11, <1>14, <1>20 DEF ReduceInv

LEMMA EndLevelKeepsInv ==
  ASSUME ReduceAssumption, ReduceInv, EndLevel
  PROVE  ReduceInv'
<1> DEFINE S == SUBSET (0..summaries)
<1>1. /\ next \in Seq(S) /\ summaries \in Nat
  BY DEF ReduceInv, ReduceTypeOK, ReduceAssumption
<1>2. /\ reducing \in {"digest", "merge"} /\ level = <<>>
      /\ level' = Digests /\ next' = <<>>
      /\ reducing' = IF Len(Digests) > 1 THEN "merge" ELSE "reduced"
      /\ summaries' = summaries /\ accumulated' = accumulated /\ tries' = tries
  BY DEF EndLevel
<1>3. summaries >= 1 /\ tries <= 1 /\ NothingLost /\ PartsInOrder
  BY <1>2 DEF ReduceInv
<1>4. ~Pending' /\ GoneInto' = GoneInto
  BY <1>2 DEF Pending, GoneInto
<1>5. \A x \in 0..summaries : x \in GoneInto <=> (Pending /\ x = 0) \/ Among(x, next)
  BY <1>2, <1>3, EmptyDigests DEF NothingLost
<1>6. Accumulator = IF Pending THEN <<{0}>> ELSE <<>>
  BY DEF Accumulator, Pending
<1>7. {0} \in S
  BY <1>1
<1> HIDE DEF S
<1>8. /\ Accumulator \in Seq(S) /\ Ascending(Accumulator)
      /\ \A x : Among(x, Accumulator) <=> Pending /\ x = 0
  <2>1. CASE Pending
    <3>1. Accumulator = <<{0}>>
      BY <1>6, <2>1
    <3>2. <<{0}>> \in Seq(S) /\ Ascending(<<{0}>>) /\ \A x : Among(x, <<{0}>>) <=> x \in {0}
      BY <1>7, SingleDigest
    <3>3. QED
      BY <2>1, <3>1, <3>2
  <2>2. CASE ~Pending
    <3>1. Accumulator = <<>>
      BY <1>6, <2>2
    <3>2. <<>> \in Seq(S) /\ Ascending(<<>>) /\ \A x : ~Among(x, <<>>)
      BY EmptyDigests
    <3>3. QED
      BY <2>2, <3>1, <3>2
  <2>3. QED
    BY <2>1, <2>2
<1>9. AllEarlier(Accumulator, next)
  <2>1. SUFFICES ASSUME NEW i \in 1..Len(Accumulator), NEW j \in 1..Len(next),
                        NEW x \in Accumulator[i], NEW y \in next[j]
                 PROVE  x < y
    BY DEF AllEarlier, Earlier
  <2>2. Among(x, Accumulator) /\ Among(y, next)
    BY <2>1 DEF Among
  <2>3. Pending /\ x = 0
    BY <1>8, <2>2
  <2>4. y \in 0..summaries
    BY <1>1, <2>1 DEF S
  <2>5. y # 0
    BY <1>3, <2>2, <2>3 DEF PartsInOrder
  <2>6. QED
    BY <2>3, <2>4, <2>5
<1>10. /\ level' \in Seq(S)
       /\ \A x : Among(x, level') <=> (Pending /\ x = 0) \/ Among(x, next)
       /\ Ascending(level')
  <2>1. level' = Accumulator \o next
    BY <1>2 DEF Digests
  <2>2. level' \in Seq(S)
    BY <1>1, <1>8, <2>1, ConcatPositions
  <2>3. \A x : Among(x, level') <=> Among(x, Accumulator) \/ Among(x, next)
    BY <1>1, <1>8, <2>1, AmongConcat
  <2>4. Ascending(level')
    BY <1>1, <1>3, <1>8, <1>9, <2>1, AscendingConcat DEF PartsInOrder
  <2>5. QED
    BY <1>8, <2>2, <2>3, <2>4
<1>11. /\ next' \in Seq(S)
       /\ Ascending(next') /\ AllEarlier(next', level') /\ \A x : ~Among(x, next')
  BY <1>2, EmptyDigests
<1>12. ReduceTypeOK'
  <2>1. level' \in Seq(SUBSET (0..summaries')) /\ next' \in Seq(SUBSET (0..summaries'))
    BY <1>2, <1>10, <1>11 DEF S
  <2>2. reducing' \in {"merge", "reduced"}
    BY <1>2
  <2>3. QED
    BY <1>2, <2>1, <2>2 DEF ReduceInv, ReduceTypeOK
<1>13. NothingLost'
  BY <1>2, <1>4, <1>5, <1>10, <1>11 DEF NothingLost
<1>14. PartsInOrder'
  BY <1>4, <1>10, <1>11 DEF PartsInOrder
<1>15. ASSUME reducing' = "reduced" PROVE level' = <<GoneInto>>
  <2>1. Len(level') \in Nat /\ ~ (Len(level') > 1)
    BY <1>2, <1>10, <1>15
  <2>2. 1 \in 0..summaries /\ 1 \in GoneInto
    BY <1>1, <1>3 DEF GoneInto
  <2>3. Among(1, level')
    BY <1>5, <1>10, <2>2
  <2>4. Len(level') = 1
    <3>1. PICK i \in 1..Len(level') : 1 \in level'[i]
      BY <2>3 DEF Among
    <3>2. \A m \in Nat : i \in 1..m /\ ~ (m > 1) => m = 1
      OBVIOUS
    <3>3. QED
      BY <2>1, <3>1, <3>2
  <2>5. level' = <<level'[1]>> /\ level'[1] \in S
    BY <1>10, <2>4, OnlyDigest
  <2>6. \A x : Among(x, level') <=> x \in level'[1]
    BY <2>4 DEF Among
  <2>7. \A x \in 0..summaries : x \in GoneInto <=> x \in level'[1]
    BY <1>5, <1>10, <2>6
  <2>8. GoneInto \in SUBSET (0..summaries)
    BY GoneIntoRange DEF ReduceInv
  <2>9. level'[1] = GoneInto
    BY <2>5, <2>7, <2>8 DEF S
  <2>10. QED
    BY <2>5, <2>9
<1>16. QED
  BY <1>2, <1>3, <1>4, <1>12, <1>13, <1>14, <1>15 DEF ReduceInv

(* An answer that is not valid only changes tries and reducing. *)
LEMMA FailedAnswerKeepsInv ==
  ASSUME ReduceInv, InvalidAnswer \/ SynthesisFails
  PROVE  ReduceInv'
<1>1. /\ reducing \in {"digest", "merge"}
      /\ reducing' \in {reducing, "failed"}
      /\ summaries' = summaries /\ accumulated' = accumulated /\ level' = level /\ next' = next
  BY DEF InvalidAnswer, SynthesisFails, Synthesizing
<1>2. tries \in 0..1 /\ tries' \in {tries, tries + 1} /\ (tries = 1 /\ tries' = 2 => reducing' = "failed")
  BY <1>1 DEF InvalidAnswer, SynthesisFails, ReduceInv, ReduceTypeOK
<1>3. ReduceTypeOK'
  <2>1. tries' \in 0..2
    BY <1>2
  <2>2. reducing' \in {"digest", "merge", "failed"}
    BY <1>1
  <2>3. QED
    BY <1>1, <2>1, <2>2 DEF ReduceInv, ReduceTypeOK
<1>4. CASE reducing' = "failed"
  BY <1>3, <1>4 DEF ReduceInv
<1>5. CASE reducing' = reducing /\ reducing' # "failed"
  <2>1. tries' <= 1
    BY <1>2, <1>5
  <2>2. NothingLost' = NothingLost /\ PartsInOrder' = PartsInOrder
    BY <1>1, <1>5 DEF NothingLost, PartsInOrder, GoneInto, Pending
  <2>3. QED
    BY <1>1, <1>3, <1>5, <2>1, <2>2 DEF ReduceInv
<1>6. QED
  BY <1>1, <1>4, <1>5

LEMMA ReductionGoneGivesInv ==
  ASSUME ReduceAssumption, ReductionGone
  PROVE  ReduceInv'
<1>1. /\ summaries' = 0 /\ accumulated' = FALSE /\ level' = <<>> /\ next' = <<>>
      /\ tries' = 0 /\ reducing' = "idle"
  BY DEF ReductionGone
<1>2. level' \in Seq(SUBSET (0..summaries')) /\ next' \in Seq(SUBSET (0..summaries'))
  BY <1>1
<1>3. summaries' \in 0..MaxSummaries
  BY <1>1, ReduceAssumption DEF ReduceAssumption
<1>4. tries' \in 0..2
  BY <1>1
<1>5. accumulated' \in BOOLEAN
  BY <1>1, Zenon
<1>6. ReduceTypeOK'
  BY <1>1, <1>2, <1>3, <1>4, <1>5, Zenon DEF ReduceTypeOK
<1>7. QED
  BY <1>1, <1>6 DEF ReduceInv

LEMMA ReduceInvStep == ReduceAssumption /\ ReduceInv /\ [ReduceNext]_reduceVars => ReduceInv'
<1> SUFFICES ASSUME ReduceAssumption, ReduceInv, [ReduceNext]_reduceVars
             PROVE  ReduceInv'
  OBVIOUS
<1>1. ASSUME NEW n \in 0..MaxSummaries, NEW accumulator \in BOOLEAN, CallReduce(n, accumulator)
      PROVE  ReduceInv'
  BY <1>1, CallReduceKeepsInv
<1>2. CASE ValidAnswer
  BY <1>2, ValidAnswerKeepsInv
<1>3. CASE InvalidAnswer \/ SynthesisFails
  BY <1>3, FailedAnswerKeepsInv
<1>4. CASE EndLevel
  BY <1>4, EndLevelKeepsInv
<1>5. CASE TakeDigest
  BY <1>5, ReductionGoneGivesInv DEF TakeDigest
<1>6. CASE UNCHANGED reduceVars
  BY <1>6 DEF ReduceInv, ReduceTypeOK, NothingLost, PartsInOrder, GoneInto, Pending, reduceVars
<1>7. QED
  BY <1>1, <1>2, <1>3, <1>4, <1>5, <1>6 DEF ReduceNext, ReduceStep

-----------------------------------------------------------------------------
(* What the parts say, said of the whole. *)
LEMMA KeepsOrderFromInv == ReduceInv => ReductionKeepsOrder
<1> SUFFICES ASSUME ReduceInv, reducing \in {"digest", "merge", "reduced"}
             PROVE  /\ UNION {AtHand[i] : i \in 1..Len(AtHand)} = GoneInto
                    /\ \A i, j \in 1..Len(AtHand) : i < j => Earlier(AtHand[i], AtHand[j])
                    /\ reducing = "reduced" => level = <<GoneInto>>
  BY DEF ReductionKeepsOrder
<1> DEFINE S == SUBSET (0..summaries)
           before == Accumulator \o next
<1>1. /\ level \in Seq(S) /\ next \in Seq(S) /\ summaries \in Nat
      /\ GoneInto \in S
  BY GoneIntoRange DEF ReduceInv, ReduceTypeOK
<1>2. Accumulator = IF Pending THEN <<{0}>> ELSE <<>>
  BY DEF Accumulator, Pending
<1>3. {0} \in S
  BY <1>1
<1> HIDE DEF S
<1>4. /\ Accumulator \in Seq(S) /\ Ascending(Accumulator)
      /\ \A x : Among(x, Accumulator) <=> Pending /\ x = 0
  <2>1. CASE Pending
    <3>1. <<{0}>> \in Seq(S) /\ Ascending(<<{0}>>) /\ \A x : Among(x, <<{0}>>) <=> x \in {0}
      BY <1>3, SingleDigest
    <3>2. QED
      BY <1>2, <2>1, <3>1
  <2>2. CASE ~Pending
    <3>1. <<>> \in Seq(S) /\ Ascending(<<>>) /\ \A x : ~Among(x, <<>>)
      BY EmptyDigests
    <3>2. QED
      BY <1>2, <2>2, <3>1
  <2>3. QED
    BY <2>1, <2>2
<1>5. /\ before \in Seq(S) /\ AtHand = before \o level
      /\ \A x : Among(x, before) <=> (Pending /\ x = 0) \/ Among(x, next)
  BY <1>1, <1>4, ConcatPositions, AmongConcat DEF AtHand
<1>6. /\ AtHand \in Seq(S)
      /\ \A x : Among(x, AtHand) <=> (Pending /\ x = 0) \/ Among(x, next) \/ Among(x, level)
  <2> HIDE DEF before
  <2>1. QED
    BY <1>1, <1>5, ConcatPositions, AmongConcat
<1>7. CASE reducing \in {"digest", "merge"}
  <2>1. NothingLost /\ PartsInOrder
    BY <1>7 DEF ReduceInv
  <2>2. \A x \in 0..summaries : x \in GoneInto <=> Among(x, AtHand)
    BY <1>6, <2>1 DEF NothingLost
  <2>3. \A i \in 1..Len(AtHand) : AtHand[i] \in S
    BY <1>6
  <2>4. UNION {AtHand[i] : i \in 1..Len(AtHand)} = GoneInto
    BY <1>1, <2>2, <2>3 DEF Among, S
  <2>5. AllEarlier(Accumulator, next) /\ AllEarlier(Accumulator, level)
    <3>1. SUFFICES ASSUME NEW x, NEW y \in 0..summaries, Among(x, Accumulator),
                          Among(y, next) \/ Among(y, level)
                   PROVE  x < y
      <4>1. \A i \in 1..Len(next) : next[i] \in SUBSET (0..summaries)
        BY <1>1 DEF S
      <4>2. \A i \in 1..Len(level) : level[i] \in SUBSET (0..summaries)
        BY <1>1 DEF S
      <4>3. QED
        BY <3>1, <4>1, <4>2 DEF AllEarlier, Earlier, Among
    <3>2. Pending /\ x = 0
      BY <1>4, <3>1
    <3>3. y # 0
      BY <2>1, <3>1, <3>2 DEF PartsInOrder
    <3>4. QED
      BY <3>2, <3>3
  <2>6. Ascending(before)
    BY <1>1, <1>4, <2>1, <2>5, AscendingConcat DEF PartsInOrder
  <2>7. AllEarlier(before, level)
    <3>1. SUFFICES ASSUME NEW i \in 1..Len(before), NEW j \in 1..Len(level)
                   PROVE  Earlier(before[i], level[j])
      BY DEF AllEarlier
    <3>2. Len(before) = Len(Accumulator) + Len(next) /\ Len(Accumulator) \in Nat /\ Len(next) \in Nat
      BY <1>1, <1>4, ConcatPositions
    <3>3. CASE i <= Len(Accumulator)
      <4>1. i \in 1..Len(Accumulator) /\ before[i] = Accumulator[i]
        BY <1>1, <1>4, <3>2, <3>3, ConcatPositions
      <4>2. QED
        BY <2>5, <4>1 DEF AllEarlier
    <3>4. CASE ~ (i <= Len(Accumulator))
      <4>1. /\ i - Len(Accumulator) \in 1..Len(next)
            /\ before[i] = next[i - Len(Accumulator)]
        BY <1>1, <1>4, <3>2, <3>4, ConcatEnd
      <4>2. QED
        BY <2>1, <4>1 DEF AllEarlier, PartsInOrder
    <3>5. QED
      BY <3>3, <3>4
  <2>8. Ascending(AtHand)
    <3> HIDE DEF before
    <3>1. QED
      BY <1>1, <1>5, <2>1, <2>6, <2>7, AscendingConcat DEF PartsInOrder
  <2>9. QED
    BY <1>7, <2>4, <2>8 DEF Ascending
<1>8. CASE reducing = "reduced"
  <2>1. next = <<>> /\ level = <<GoneInto>> /\ ~Pending
    BY <1>8 DEF ReduceInv, Pending
  <2>2. AtHand = <<GoneInto>>
    <3>1. Accumulator = <<>>
      BY <1>2, <2>1
    <3>2. QED
      BY <2>1, <3>1 DEF AtHand
  <2>3. Len(AtHand) = 1 /\ AtHand[1] = GoneInto
    BY <2>2
  <2>4. \A i \in 1..Len(AtHand) : i = 1
    BY <2>3
  <2>5. QED
    BY <2>1, <2>3, <2>4
<1>9. QED
  BY <1>7, <1>8

LEMMA ReduceIsInv == ReduceSpec => []ReduceInv
<1>1. QED
  BY ReduceInvInit, ReduceInvStep, ReduceAssumption, PTL DEF ReduceSpec

(* What a digest holds are summaries of the call and its accumulator. *)
THEOREM ReduceTypeCorrect == ReduceSpec => []ReduceTypeOK
<1>1. ReduceInv => ReduceTypeOK
  BY DEF ReduceInv
<1>2. QED
  BY <1>1, ReduceIsInv, PTL

(* For every batch size of two or more, every number of summaries, with or  *)
(* without an accumulator: no summary is lost or used twice on any level,   *)
(* each prompt lists the digests in event-log order, and the result is made *)
(* of everything (workers/cag.py:202-246).                                  *)
THEOREM NothingLostInReduction == ReduceSpec => []ReductionKeepsOrder
<1>1. QED
  BY KeepsOrderFromInv, ReduceIsInv, PTL

-----------------------------------------------------------------------------
(* Why a reduction ends. *)

LEMMA AccumulatorSize ==
  /\ Len(Accumulator) \in 0..1
  /\ reducing = "merge" => Len(Accumulator) = 0
<1>1. Accumulator = <<{0}>> \/ Accumulator = <<>>
  BY DEF Accumulator
<1>2. Len(<<{0}>>) = 1 /\ Len(<<>>) = 0
  OBVIOUS
<1>3. QED
  BY <1>1, <1>2 DEF Accumulator

(* Rounded up, half of what is left after a batch of two or more, or of all *)
(* there was, is less.                                                      *)
LEMMA HalfOfRest ==
  ASSUME NEW n \in Nat, NEW k \in 1..n, k >= 2 \/ k = n
  PROVE  /\ (n + 1) \div 2 \in Nat /\ (n - k + 1) \div 2 \in Nat
         /\ (n - k + 1) \div 2 + 1 <= (n + 1) \div 2
OBVIOUS

LEMMA HalfIsLess ==
  ASSUME NEW n \in Nat, n > 1
  PROVE  (n + 1) \div 2 \in Nat /\ (n + 1) \div 2 < n
OBVIOUS

LEMMA ValidAnswerDescends ==
  ASSUME ReduceAssumption, ReduceInv, ValidAnswer
  PROVE  StillToMake' <= StillToMake /\ Len(level') < Len(level)
<1> DEFINE S == SUBSET (0..summaries)
           digest == UNION {level[i] : i \in 1..Taken}
<1>1. level \in Seq(S) /\ next \in Seq(S)
  BY DEF ReduceInv, ReduceTypeOK
<1>2. /\ level # <<>> /\ next' = Append(next, digest)
      /\ level' = SubSeq(level, Taken + 1, Len(level))
      /\ UNCHANGED <<accumulated, reducing>>
  BY DEF ValidAnswer, Synthesizing
<1> HIDE DEF S, digest
<1>3. Taken \in 1..Len(level)
  BY <1>1, <1>2, TakenRange
<1>4. Len(level') = Len(level) - Taken
  BY <1>1, <1>2, <1>3, LevelRest
<1>5. Len(next') = Len(next) + 1 /\ Len(next) \in Nat /\ Len(level) \in Nat
  BY <1>1, <1>2
<1>6. Taken >= 2 \/ Taken = Len(level)
  BY <1>5 DEF Taken, ReduceAssumption
<1>7. Accumulator' = Accumulator
  BY <1>2 DEF Accumulator
<1>8. /\ (Len(level) + 1) \div 2 \in Nat /\ (Len(level) - Taken + 1) \div 2 \in Nat
      /\ (Len(level) - Taken + 1) \div 2 + 1 <= (Len(level) + 1) \div 2
  BY <1>3, <1>5, <1>6, HalfOfRest
<1>9. StillToMake' <= StillToMake
  BY <1>4, <1>5, <1>7, <1>8, AccumulatorSize DEF StillToMake
<1>10. QED
  BY <1>3, <1>4, <1>5, <1>9

LEMMA EndLevelDescends ==
  ASSUME ReduceInv, EndLevel, reducing' = "merge"
  PROVE  StillToMake' \in Nat /\ StillToMake' < StillToMake
<1> DEFINE S == SUBSET (0..summaries)
<1>1. next \in Seq(S) /\ summaries \in Nat
  BY DEF ReduceInv, ReduceTypeOK
<1>2. level = <<>> /\ level' = Accumulator \o next /\ next' = <<>>
  BY DEF EndLevel, Digests
<1>3. Len(Accumulator \o next) > 1
  BY DEF EndLevel, Digests
<1>4. Accumulator \in Seq(S)
  <2>1. {0} \in S
    BY <1>1
  <2>2. <<{0}>> \in Seq(S) /\ <<>> \in Seq(S)
    BY <2>1, SingleDigest, EmptyDigests
  <2>3. Accumulator = <<{0}>> \/ Accumulator = <<>>
    BY DEF Accumulator
  <2>4. QED
    BY <2>2, <2>3
<1>5. Len(level') = Len(Accumulator) + Len(next) /\ Len(level') \in Nat /\ Len(level') > 1
  BY <1>1, <1>2, <1>3, <1>4, ConcatPositions
<1>6. Len(Accumulator') = 0 /\ Len(next') = 0 /\ Len(level) = 0
  BY <1>2 DEF Accumulator
<1>7. (Len(level') + 1) \div 2 \in Nat /\ (Len(level') + 1) \div 2 < Len(level')
  BY <1>5, HalfIsLess
<1>8. (0 + 1) \div 2 = 0
  OBVIOUS
<1>9. QED
  BY <1>5, <1>6, <1>7, <1>8 DEF StillToMake

LEMMA StepDescends == ReduceAssumption /\ ReduceInv /\ [ReduceNext]_reduceVars => [Descends]_reduceVars
<1>1. SUFFICES ASSUME ReduceAssumption, ReduceInv, ReduceNext,
                      reducing \in {"digest", "merge"}, reducing' \in {"digest", "merge"}
               PROVE  /\ StillToMake' <= StillToMake
                      /\ \/ StillToMake' < StillToMake
                         \/ Len(level') < Len(level)
                         \/ Len(level') = Len(level) /\ tries = 0 /\ tries' = 1
  BY DEF Descends
<1>2. /\ Len(Accumulator) \in Nat /\ Len(next) \in Nat
      /\ Len(level) \in Nat /\ (Len(level) + 1) \div 2 \in Nat
  BY <1>1, AccumulatorSize DEF ReduceInv, ReduceTypeOK
<1>3. StillToMake \in Nat
  BY <1>2 DEF StillToMake
<1>4. ~ \E n \in 0..MaxSummaries, accumulator \in BOOLEAN : CallReduce(n, accumulator)
  BY <1>1 DEF CallReduce
<1>5. ~ TakeDigest /\ ~ SynthesisFails
  BY <1>1 DEF TakeDigest, SynthesisFails
<1>6. CASE ValidAnswer
  BY <1>1, <1>6, ValidAnswerDescends
<1>7. CASE InvalidAnswer
  <2>1. UNCHANGED <<accumulated, level, next>> /\ tries' = tries + 1
    BY <1>7 DEF InvalidAnswer
  <2>2. tries \in 0..1 /\ tries # 1
    BY <1>1, <1>7 DEF InvalidAnswer, ReduceInv, ReduceTypeOK
  <2>3. reducing' = reducing
    BY <1>7, <2>2 DEF InvalidAnswer
  <2>4. StillToMake' = StillToMake
    BY <2>1, <2>3 DEF StillToMake, Accumulator
  <2>5. QED
    BY <1>3, <2>1, <2>2, <2>4
<1>8. CASE EndLevel
  <2>1. reducing' = "merge"
    BY <1>1, <1>8 DEF EndLevel
  <2>2. StillToMake' \in Nat /\ StillToMake' < StillToMake
    BY <1>1, <1>8, <2>1, EndLevelDescends
  <2>3. QED
    BY <1>3, <2>2
<1>9. QED
  BY <1>1, <1>4, <1>5, <1>6, <1>7, <1>8 DEF ReduceNext, ReduceStep

(* For every batch size of two or more: each answer of the LLM, valid or    *)
(* not, and each end of a level makes a reduction that goes on smaller.     *)
THEOREM ReductionsDescend == ReduceSpec => ReductionDescends
<1>1. QED
  BY StepDescends, ReduceIsInv, ReduceAssumption, PTL DEF ReduceSpec, ReductionDescends
=============================================================================
