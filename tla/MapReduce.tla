------------------------------ MODULE MapReduce ------------------------------
(***************************************************************************)
(* workers/cag.py: _hierarchical_reduce, which a rebuild calls with the    *)
(* window of summaries and, for a compaction, the latest full state as the *)
(* accumulator.  Summaries are the numbers 1..n in event-log order, the    *)
(* accumulator is 0, a digest is the set of what went into it.  A step is  *)
(* one answer of the LLM (_synthesize_prompt) or the end of a level.       *)
(***************************************************************************)
EXTENDS Integers, Sequences

CONSTANTS
    BatchSize,      \* _REBUILD_BATCH_SIZE
    MaxSummaries    \* bound on the summaries of a call

ASSUME ReduceAssumption ==
    /\ BatchSize \in Nat \ {0, 1}   \* 40 in the code; with 1 no level shrinks
    /\ MaxSummaries \in Nat

VARIABLES
    summaries,      \* how many summaries the call was given
    accumulated,    \* whether it was given an accumulator
    level,          \* what is left of the current level, earliest first
    next,           \* the digests made from it so far (next_level)
    tries,          \* the answers to the current prompt that were not valid
    reducing        \* how far the call is

reduceVars == <<summaries, accumulated, level, next, tries, reducing>>

ReduceInit ==
    /\ summaries = 0
    /\ accumulated = FALSE
    /\ level = <<>>
    /\ next = <<>>
    /\ tries = 0
    /\ reducing = "idle"

-----------------------------------------------------------------------------
(* Without summaries the accumulator is the answer, or there is none. *)
CallReduce(n, accumulator) ==
    /\ reducing = "idle"
    /\ summaries' = n
    /\ accumulated' = accumulator
    /\ next' = <<>>
    /\ tries' = 0
    /\ level' = IF n = 0 /\ accumulator THEN <<{0}>> ELSE [i \in 1..n |-> {i}]
    /\ reducing' = IF n > 0 THEN "digest" ELSE IF accumulator THEN "reduced" ELSE "failed"

Synthesizing == reducing \in {"digest", "merge"} /\ level # <<>>

(* Mutant of Taken: batches of one. *)
Taken_One == 1

(* How many of the level the next prompt takes. *)
Taken == IF Len(level) < BatchSize THEN Len(level) ELSE BatchSize

(* A valid answer is a digest of the batch (or of the merged digests). *)
ValidAnswer ==
    /\ Synthesizing
    /\ next' = Append(next, UNION {level[i] : i \in 1..Taken})
    /\ level' = SubSeq(level, Taken + 1, Len(level))
    /\ tries' = 0
    /\ UNCHANGED <<summaries, accumulated, reducing>>

(* An answer that is no JSON, or not of the schema, is asked for once more. *)
InvalidAnswer ==
    /\ Synthesizing
    /\ tries' = tries + 1
    /\ reducing' = IF tries = 1 THEN "failed" ELSE reducing
    /\ UNCHANGED <<summaries, accumulated, level, next>>

(* The prompt is over the token budget, or the LLM call raises. *)
SynthesisFails ==
    /\ Synthesizing
    /\ reducing' = "failed"
    /\ UNCHANGED <<summaries, accumulated, level, next, tries>>

Accumulator == IF reducing = "digest" /\ accumulated THEN <<{0}>> ELSE <<>>

(* Mutant of Digests: the accumulator as if it were the latest. *)
Digests_AccumulatorLast == next \o Accumulator

(* The accumulator is inserted before the digests of the first level. *)
Digests == Accumulator \o next

EndLevel ==
    /\ reducing \in {"digest", "merge"}
    /\ level = <<>>
    /\ level' = Digests
    /\ next' = <<>>
    /\ reducing' = IF Len(Digests) > 1 THEN "merge" ELSE "reduced"
    /\ UNCHANGED <<summaries, accumulated, tries>>

ReductionGone ==
    /\ summaries' = 0
    /\ accumulated' = FALSE
    /\ level' = <<>> /\ next' = <<>>
    /\ tries' = 0
    /\ reducing' = "idle"

(* The caller has the result, or the exception. *)
TakeDigest == reducing \in {"reduced", "failed"} /\ ReductionGone

ReduceStep == ValidAnswer \/ InvalidAnswer \/ SynthesisFails \/ EndLevel

ReduceNext ==
    \/ \E n \in 0..MaxSummaries, accumulator \in BOOLEAN : CallReduce(n, accumulator)
    \/ ReduceStep
    \/ TakeDigest

ReduceSpec == ReduceInit /\ [][ReduceNext]_reduceVars

-----------------------------------------------------------------------------
ReduceTypeOK ==
    /\ summaries \in 0..MaxSummaries
    /\ accumulated \in BOOLEAN
    /\ level \in Seq(SUBSET (0..summaries))
    /\ next \in Seq(SUBSET (0..summaries))
    /\ tries \in 0..2
    /\ reducing \in {"idle", "digest", "merge", "reduced", "failed"}

(* Everything at hand, in the order it has in the prompts. *)
AtHand == Accumulator \o next \o level

GoneInto == (1..summaries) \cup (IF accumulated THEN {0} ELSE {})

Earlier(a, b) == \A x \in a, y \in b : x < y

(* Through all levels of digests and merges no summary and no accumulator   *)
(* is lost or used twice, and a prompt lists them from the earliest to the  *)
(* latest: "LATER digests supersede EARLIER digests on conflict"            *)
(* (cag_prompts.py:156-157), so that the order decides what is current.     *)
ReductionKeepsOrder ==
    reducing \in {"digest", "merge", "reduced"} =>
        /\ UNION {AtHand[i] : i \in 1..Len(AtHand)} = GoneInto
        /\ \A i, j \in 1..Len(AtHand) : i < j => Earlier(AtHand[i], AtHand[j])
        /\ reducing = "reduced" => level = <<GoneInto>>

(* Digests a level can still lead to: one for each answer, and a level of n *)
(* digests takes (n + 1) \div 2 answers at most.                            *)
StillToMake == Len(Accumulator) + Len(next) + (Len(level) + 1) \div 2

Descends ==
    {reducing, reducing'} \subseteq {"digest", "merge"} =>
        /\ StillToMake' <= StillToMake
        /\ \/ StillToMake' < StillToMake
           \/ Len(level') < Len(level)
           \/ Len(level') = Len(level) /\ tries = 0 /\ tries' = 1

(* Why the loops end, whatever the LLM answers: while they go on, each      *)
(* answer and each end of a level brings the one digest nearer.  A prompt   *)
(* shortens its level; only an answer that is not valid leaves things as    *)
(* they are, and it is the first one to its prompt.                         *)
(* workers/cag.py:217-244 and 265-290.  Batches of one would break it.      *)
ReductionDescends == [][Descends]_reduceVars
=============================================================================
