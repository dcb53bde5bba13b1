--------------------------- MODULE AcceptedLineage ---------------------------
(***************************************************************************)
(* What the evolution engine promises a reader of its checkpoint: one line *)
(* of candidate trees that all passed the correctness gate, each scoring   *)
(* at least as well as the one before (an exact tie is accepted), and a    *)
(* count of decided attempts that only grows.  Crashes, interrupted        *)
(* attempts and everything git does are invisible at this level.           *)
(***************************************************************************)
EXTENDS Integers, Sequences

CONSTANTS
    Sound,      \* trees a digest can name: no .git entry, no special file
    Scores      \* evaluator scores, ordered by the target's comparator

VARIABLES
    line,       \* the accepted trees with their scores, the seed first
    decided     \* attempts with a published decision

Version == [tree : Sound, score : Scores]

LineageInit == line = <<>> /\ decided = 0

AcceptSeed(v) ==
    /\ line = <<>>
    /\ line' = <<v>>
    /\ UNCHANGED decided

Accept(v) ==
    /\ line # <<>>
    /\ line[Len(line)].score <= v.score
    /\ line' = Append(line, v)
    /\ decided' = decided + 1

Reject ==
    /\ line # <<>>
    /\ decided' = decided + 1
    /\ UNCHANGED line

LineageNext == (\E v \in Version : AcceptSeed(v) \/ Accept(v)) \/ Reject

LineageSpec == LineageInit /\ [][LineageNext]_<<line, decided>>
=============================================================================
