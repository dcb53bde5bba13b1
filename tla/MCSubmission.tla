---------------------------- MODULE MCSubmission ----------------------------
(***************************************************************************)
(* Submission with two games, enough for a bank that is complete and not   *)
(* perfect and for a replay that stops half way.                           *)
(***************************************************************************)
EXTENDS Submission, TLC

Symmetry == Permutations(Games)
=============================================================================
