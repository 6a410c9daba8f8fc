------------------------------- MODULE Chunker -------------------------------
(***************************************************************************)
(* ingestion/chunker.py: chunk_text.  A text is the number of its words;   *)
(* a chunk is the set of the positions of its words.  A worker takes size  *)
(* and overlap from the project's configuration, which nothing validates.  *)
(* A turn of the while loop is a step, so that a loop that never ends is   *)
(* a behaviour that never gets out of it.                                  *)
(***************************************************************************)
EXTENDS Integers, Sequences

CONSTANTS
    Lengths,    \* the numbers of words of the texts
    Sizes,      \* chunk_size, as configured
    Overlaps,   \* overlap, as configured
    MaxChunks   \* bound on the chunks of a loop that does not end

ASSUME ChunkerAssumption ==
    /\ Lengths \subseteq Nat
    /\ Sizes \subseteq Int
    /\ Overlaps \subseteq Int
    /\ MaxChunks \in Nat

VARIABLES
    words,      \* len(words)
    size,       \* chunk_size
    overlap,
    start,      \* where the next window begins
    chunks,     \* the chunks so far
    chunking    \* how far the call is

chunkerVars == <<words, size, overlap, start, chunks, chunking>>

Strategies == {"naive", "contextual", "late"}

ChunkerInit ==
    /\ words = 0
    /\ size = 0
    /\ overlap = 0
    /\ start = 0
    /\ chunks = <<>>
    /\ chunking = "idle"

-----------------------------------------------------------------------------
(* A blank text has no chunk, a short one is a chunk, a long one is cut up. *)
(* Two of the three strategies are not implemented.                        *)
CallChunker(n, s, o, strategy) ==
    /\ chunking = "idle"
    /\ words' = n
    /\ size' = s
    /\ overlap' = o
    /\ start' = 0
    /\ \/ /\ strategy # "naive"
          /\ chunks' = <<>> /\ chunking' = "raised"
       \/ /\ strategy = "naive" /\ n = 0
          /\ chunks' = <<>> /\ chunking' = "chunked"
       \/ /\ strategy = "naive" /\ n \in 1..s
          /\ chunks' = <<0..(n - 1)>> /\ chunking' = "chunked"
       \/ /\ strategy = "naive" /\ n > 0 /\ n > s
          /\ chunks' = <<>> /\ chunking' = "looping"

(* words[first : end]: a negative index counts from the end. *)
Index(i) == IF i >= 0 THEN i ELSE IF words + i > 0 THEN words + i ELSE 0

Slice(first, end) == {w \in 0..(words - 1) : Index(first) <= w /\ w < Index(end)}

(* Mutant of Advance: the next window leaves the overlap out, not in. *)
Advance_PastOverlap == start + size + overlap

Advance == start + (size - overlap)

NextWindow ==
    /\ chunking = "looping"
    /\ start < words
    /\ Len(chunks) < MaxChunks
    /\ chunks' = Append(chunks, Slice(start, start + size))
    /\ start' = Advance
    /\ UNCHANGED <<words, size, overlap, chunking>>

EndChunking ==
    /\ chunking = "looping"
    /\ start >= words
    /\ chunking' = "chunked"
    /\ UNCHANGED <<words, size, overlap, start, chunks>>

ChunkingGone ==
    /\ words' = 0 /\ size' = 0 /\ overlap' = 0 /\ start' = 0
    /\ chunks' = <<>>
    /\ chunking' = "idle"

(* The caller has the chunks, or the exception. *)
TakeChunks == chunking \in {"chunked", "raised"} /\ ChunkingGone

ChunkerStep == NextWindow \/ EndChunking

ChunkerNext ==
    \/ \E n \in Lengths, s \in Sizes, o \in Overlaps, strategy \in Strategies :
          CallChunker(n, s, o, strategy)
    \/ ChunkerStep
    \/ TakeChunks

ChunkerSpec == ChunkerInit /\ [][ChunkerNext]_chunkerVars

-----------------------------------------------------------------------------
ChunkerTypeOK ==
    /\ words \in Lengths \cup {0}
    /\ size \in Sizes \cup {0}
    /\ overlap \in Overlaps \cup {0}
    /\ start \in Int
    /\ chunks \in Seq(SUBSET (0..(words - 1)))
    /\ chunking \in {"idle", "looping", "chunked", "raised"}

InSomeChunk(w) == \E i \in 1..Len(chunks) : w \in chunks[i]

(* Whatever size and overlap a project asks for, as long as the overlap is  *)
(* not negative: chunking that comes to an end has left no word out.        *)
(* chunker.py:44-52.                                                       *)
ChunksCoverText ==
    chunking = "chunked" /\ overlap >= 0 => \A w \in 0..(words - 1) : InSomeChunk(w)

(* With an overlap smaller than the chunk there are at most as many chunks  *)
(* as words: the loop ends.                                                *)
ChunksBounded == overlap < size => Len(chunks) <= words
=============================================================================
