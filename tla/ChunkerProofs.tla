---------------------------- MODULE ChunkerProofs ----------------------------
(* Theorems about Chunker, for all lengths, sizes and overlaps.             *)
EXTENDS Chunker, TLAPS

(* Why nothing is left out: while the loop runs, every word before the next *)
(* window is in a chunk; with too large an overlap the window never leaves  *)
(* the beginning, so that the loop does not end and there is nothing to     *)
(* show.  And every chunk has moved the window by a word at least.          *)
LoopInvariant ==
  chunking = "looping" =>
    /\ words >= 1
    /\ overlap >= 0 /\ overlap <= size =>
          /\ start >= 0
          /\ \A w \in 0..(words - 1) : w < start => InSomeChunk(w)
    /\ overlap >= size => start <= 0
    /\ overlap < size => Len(chunks) <= start

ChunkerInv ==
  /\ ChunkerTypeOK
  /\ LoopInvariant
  /\ ChunksCoverText
  /\ ChunksBounded

-----------------------------------------------------------------------------
(* Lemmas. *)

LEMMA SliceOfWords ==
  ASSUME NEW a, NEW b
  PROVE  Slice(a, b) \in SUBSET (0..(words - 1))
BY DEF Slice

(* Where no index is negative, a slice is what it looks like. *)
LEMMA SliceHolds ==
  ASSUME NEW a \in Int, NEW b \in Int, a >= 0, b >= 0,
         NEW w \in 0..(words - 1), a <= w, w < b
  PROVE  w \in Slice(a, b)
BY DEF Slice, Index

LEMMA OneChunk ==
  ASSUME NEW S, NEW c \in SUBSET S
  PROVE  <<c>> \in Seq(SUBSET S) /\ Len(<<c>>) = 1 /\ <<c>>[1] = c
OBVIOUS

LEMMA NoChunks ==
  ASSUME NEW S
  PROVE  <<>> \in Seq(S) /\ Len(<<>>) = 0
OBVIOUS

LEMMA AppendedChunks ==
  ASSUME NEW S, chunks \in Seq(SUBSET S), NEW c \in SUBSET S, chunks' = Append(chunks, c)
  PROVE  /\ chunks' \in Seq(SUBSET S)
         /\ Len(chunks') = Len(chunks) + 1
         /\ chunks'[Len(chunks) + 1] = c
         /\ \A i \in 1..Len(chunks) : chunks'[i] = chunks[i]
OBVIOUS

-----------------------------------------------------------------------------
LEMMA ChunkerInvInit == ChunkerInit => ChunkerInv
<1> SUFFICES ASSUME ChunkerInit PROVE ChunkerInv
  OBVIOUS
<1> USE DEF ChunkerInit
<1>1. ChunkerTypeOK
  BY DEF ChunkerTypeOK
<1>2. LoopInvariant
  BY DEF LoopInvariant
<1>3. ChunksCoverText
  BY DEF ChunksCoverText
<1>4. ChunksBounded
  BY DEF ChunksBounded
<1>5. QED
  BY <1>1, <1>2, <1>3, <1>4 DEF ChunkerInv

LEMMA CallChunkerKeepsInv ==
  ASSUME ChunkerAssumption, ChunkerInv,
         NEW n \in Lengths, NEW s \in Sizes, NEW o \in Overlaps, NEW strategy \in Strategies,
         CallChunker(n, s, o, strategy)
  PROVE  ChunkerInv'
<1>1. n \in Nat /\ s \in Int /\ o \in Int
  BY DEF ChunkerAssumption
<1>2. words' = n /\ size' = s /\ overlap' = o /\ start' = 0
  BY DEF CallChunker
<1>3. \/ chunks' = <<>> /\ chunking' = "raised"
      \/ n = 0 /\ chunks' = <<>> /\ chunking' = "chunked"
      \/ n \in 1..s /\ chunks' = <<0..(n - 1)>> /\ chunking' = "chunked"
      \/ n > 0 /\ chunks' = <<>> /\ chunking' = "looping"
  BY DEF CallChunker
<1> DEFINE all == 0..(n - 1)
<1>4. chunks' = <<>> \/ (n \in 1..s /\ chunks' = <<all>>)
  BY <1>3
<1>41. chunks' \in Seq(SUBSET all) /\ Len(chunks') <= n
  <2> HIDE DEF all
  <2>1. CASE chunks' = <<>>
    <3>1. chunks' \in Seq(SUBSET all) /\ Len(chunks') = 0
      BY <2>1, NoChunks
    <3>2. QED
      BY <1>1, <3>1
  <2>2. CASE n \in 1..s /\ chunks' = <<all>>
    <3>1. chunks' \in Seq(SUBSET all) /\ Len(chunks') = 1
      BY <2>2, OneChunk
    <3>2. n >= 1
      BY <1>1, <2>2
    <3>3. QED
      BY <3>1, <3>2
  <2>3. QED
    BY <1>4, <2>1, <2>2
<1>42. ChunkerTypeOK'
  <2>1. chunking' \in {"raised", "chunked", "looping"}
    BY <1>3
  <2>2. QED
    BY <1>2, <1>41, <2>1 DEF ChunkerTypeOK
<1>5. LoopInvariant'
  <2>1. CASE chunking' = "looping"
    <3>1. n >= 1 /\ chunks' = <<>>
      BY <1>1, <1>3, <2>1
    <3>2. Len(chunks') = 0
      BY <3>1
    <3>3. QED
      BY <1>1, <1>2, <3>1, <3>2 DEF LoopInvariant
  <2>2. CASE chunking' # "looping"
    BY <2>2 DEF LoopInvariant
  <2>3. QED
    BY <2>1, <2>2
<1>6. ChunksCoverText'
  <2>1. CASE chunking' = "chunked"
    <3>1. CASE n = 0
      BY <1>2, <3>1 DEF ChunksCoverText
    <3>2. CASE n \in 1..s /\ chunks' = <<0..(n - 1)>>
      <4>1. Len(chunks') = 1 /\ chunks'[1] = 0..(n - 1)
        BY <3>2
      <4>2. QED
        BY <1>2, <4>1 DEF ChunksCoverText, InSomeChunk
    <3>3. QED
      BY <1>3, <2>1, <3>1, <3>2
  <2>2. CASE chunking' # "chunked"
    BY <2>2 DEF ChunksCoverText
  <2>3. QED
    BY <2>1, <2>2
<1>7. ChunksBounded'
  BY <1>2, <1>41 DEF ChunksBounded
<1>8. QED
  BY <1>42, <1>5, <1>6, <1>7 DEF ChunkerInv

LEMMA NextWindowKeepsInv ==
  ASSUME ChunkerAssumption, ChunkerInv, NextWindow
  PROVE  ChunkerInv'
<1> DEFINE window == Slice(start, start + size)
<1>1. /\ words \in Nat /\ size \in Int /\ overlap \in Int /\ start \in Int
      /\ chunks \in Seq(SUBSET (0..(words - 1)))
  BY DEF ChunkerInv, ChunkerTypeOK, ChunkerAssumption
<1>2. /\ chunking = "looping" /\ start < words
      /\ chunks' = Append(chunks, window)
      /\ start' = start + (size - overlap)
      /\ words' = words /\ size' = size /\ overlap' = overlap /\ chunking' = chunking
  BY DEF NextWindow, Advance
<1>3. /\ words >= 1
      /\ overlap >= 0 /\ overlap <= size =>
            /\ start >= 0
            /\ \A w \in 0..(words - 1) : w < start => InSomeChunk(w)
      /\ overlap >= size => start <= 0
      /\ overlap < size => Len(chunks) <= start
  BY <1>2 DEF ChunkerInv, LoopInvariant
<1>4. window \in SUBSET (0..(words - 1))
  BY SliceOfWords
<1>5. /\ chunks' \in Seq(SUBSET (0..(words - 1)))
      /\ Len(chunks') = Len(chunks) + 1
      /\ chunks'[Len(chunks) + 1] = window
      /\ \A i \in 1..Len(chunks) : chunks'[i] = chunks[i]
  <2> HIDE DEF window
  <2>1. QED
    BY <1>1, <1>2, <1>4, AppendedChunks
<1>6. Len(chunks) \in Nat
  BY <1>1
<1> HIDE DEF window
<1>7. ChunkerTypeOK'
  <2>1. start' \in Int
    BY <1>1, <1>2
  <2>2. QED
    BY <1>2, <1>5, <2>1 DEF ChunkerInv, ChunkerTypeOK
<1>8. ASSUME overlap >= 0, overlap <= size, NEW w \in 0..(words - 1), w < start'
      PROVE  InSomeChunk(w)'
  <2>1. CASE w < start
    <3>1. PICK i \in 1..Len(chunks) : w \in chunks[i]
      BY <1>3, <1>8, <2>1 DEF InSomeChunk
    <3>2. i \in 1..Len(chunks') /\ w \in chunks'[i]
      BY <1>5, <1>6, <3>1
    <3>3. QED
      BY <3>2 DEF InSomeChunk
  <2>2. CASE ~ (w < start)
    <3>1. start >= 0 /\ start <= w /\ w < start + size
      BY <1>1, <1>2, <1>3, <1>8, <2>2
    <3>2. start + size >= 0 /\ start + size \in Int
      BY <1>1, <3>1
    <3>3. w \in window
      BY <1>1, <3>1, <3>2, SliceHolds DEF window
    <3>4. Len(chunks) + 1 \in 1..Len(chunks') /\ w \in chunks'[Len(chunks) + 1]
      BY <1>5, <1>6, <3>3
    <3>5. QED
      BY <3>4 DEF InSomeChunk
  <2>3. QED
    BY <2>1, <2>2
<1>9. LoopInvariant'
  <2>1. overlap >= 0 /\ overlap <= size => start' >= 0
    BY <1>1, <1>2, <1>3
  <2>2. overlap >= size => start' <= 0
    BY <1>1, <1>2, <1>3
  <2>3. overlap < size => Len(chunks') <= start'
    BY <1>1, <1>2, <1>3, <1>5, <1>6
  <2>4. overlap >= 0 /\ overlap <= size =>
           \A w \in 0..(words - 1) : w < start' => InSomeChunk(w)'
    BY <1>8
  <2>5. QED
    BY <1>2, <1>3, <2>1, <2>2, <2>3, <2>4 DEF LoopInvariant
<1>10. ChunksCoverText'
  BY <1>2 DEF ChunksCoverText
<1>11. ChunksBounded'
  <2>1. overlap < size => Len(chunks') <= words
    BY <1>1, <1>2, <1>3, <1>5, <1>6
  <2>2. QED
    BY <1>2, <2>1 DEF ChunksBounded
<1>12. QED
  BY <1>7, <1>9, <1>10, <1>11 DEF ChunkerInv

LEMMA EndChunkingKeepsInv ==
  ASSUME ChunkerAssumption, ChunkerInv, EndChunking
  PROVE  ChunkerInv'
<1>1. words \in Nat /\ size \in Int /\ overlap \in Int /\ start \in Int
  BY DEF ChunkerInv, ChunkerTypeOK, ChunkerAssumption
<1>2. /\ chunking = "looping" /\ start >= words /\ chunking' = "chunked"
      /\ words' = words /\ size' = size /\ overlap' = overlap /\ start' = start
      /\ chunks' = chunks
  BY DEF EndChunking
<1>3. ChunkerTypeOK'
  BY <1>2 DEF ChunkerInv, ChunkerTypeOK
<1>4. LoopInvariant'
  BY <1>2 DEF LoopInvariant
<1>5. ChunksCoverText'
  <2>1. SUFFICES ASSUME overlap >= 0, NEW w \in 0..(words - 1)
                 PROVE  InSomeChunk(w)
    BY <1>2 DEF ChunksCoverText, InSomeChunk
  <2>2. overlap <= size
    BY <1>1, <1>2 DEF ChunkerInv, LoopInvariant
  <2>3. w < start
    BY <1>1, <1>2
  <2>4. QED
    BY <1>2, <2>1, <2>2, <2>3 DEF ChunkerInv, LoopInvariant
<1>6. ChunksBounded'
  BY <1>2 DEF ChunkerInv, ChunksBounded
<1>7. QED
  BY <1>3, <1>4, <1>5, <1>6 DEF ChunkerInv

LEMMA ChunkingGoneGivesInv ==
  ASSUME ChunkingGone
  PROVE  ChunkerInv'
<1>1. words' = 0 /\ size' = 0 /\ overlap' = 0 /\ start' = 0 /\ chunks' = <<>> /\ chunking' = "idle"
  BY DEF ChunkingGone
<1>2. ChunkerTypeOK'
  BY <1>1 DEF ChunkerTypeOK
<1>3. LoopInvariant' /\ ChunksCoverText' /\ ChunksBounded'
  BY <1>1 DEF LoopInvariant, ChunksCoverText, ChunksBounded
<1>4. QED
  BY <1>2, <1>3 DEF ChunkerInv

LEMMA ChunkerInvStep == ChunkerAssumption /\ ChunkerInv /\ [ChunkerNext]_chunkerVars => ChunkerInv'
<1> SUFFICES ASSUME ChunkerAssumption, ChunkerInv, [ChunkerNext]_chunkerVars
             PROVE  ChunkerInv'
  OBVIOUS
<1>1. ASSUME NEW n \in Lengths, NEW s \in Sizes, NEW o \in Overlaps, NEW strategy \in Strategies,
             CallChunker(n, s, o, strategy)
      PROVE  ChunkerInv'
  BY <1>1, CallChunkerKeepsInv
<1>2. CASE NextWindow
  BY <1>2, NextWindowKeepsInv
<1>3. CASE EndChunking
  BY <1>3, EndChunkingKeepsInv
<1>4. CASE TakeChunks
  BY <1>4, ChunkingGoneGivesInv DEF TakeChunks
<1>5. CASE UNCHANGED chunkerVars
  BY <1>5 DEF ChunkerInv, ChunkerTypeOK, LoopInvariant, ChunksCoverText, ChunksBounded,
              InSomeChunk, chunkerVars
<1>6. QED
  BY <1>1, <1>2, <1>3, <1>4, <1>5 DEF ChunkerNext, ChunkerStep

-----------------------------------------------------------------------------
LEMMA ChunkerIsInv == ChunkerSpec => []ChunkerInv
<1>1. QED
  BY ChunkerInvInit, ChunkerInvStep, ChunkerAssumption, PTL DEF ChunkerSpec

(* A chunk is a set of words of the text, whatever the configuration.       *)
THEOREM ChunkerTypeCorrect == ChunkerSpec => []ChunkerTypeOK
<1>1. ChunkerInv => ChunkerTypeOK
  BY DEF ChunkerInv
<1>2. QED
  BY <1>1, ChunkerIsInv, PTL

(* chunk_text leaves no word out, for every length, size and overlap that   *)
(* is not negative (chunker.py:44-52).                                      *)
THEOREM NoWordIsLost == ChunkerSpec => []ChunksCoverText
<1>1. ChunkerInv => ChunksCoverText
  BY DEF ChunkerInv
<1>2. QED
  BY <1>1, ChunkerIsInv, PTL

(* With an overlap smaller than the chunk the loop makes no more chunks     *)
(* than there are words, so that it ends.                                   *)
THEOREM ChunkingIsBounded == ChunkerSpec => []ChunksBounded
<1>1. ChunkerInv => ChunksBounded
  BY DEF ChunkerInv
<1>2. QED
  BY <1>1, ChunkerIsInv, PTL
=============================================================================
