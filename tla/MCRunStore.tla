----------------------------- MODULE MCRunStore -----------------------------
(***************************************************************************)
(* RunStore with two commands at a time on two runs, one of which may be   *)
(* the warm child of the other.                                            *)
(***************************************************************************)
EXTENDS RunStore

Symmetry == Permutations(Runs) \cup Permutations(Commands)
=============================================================================
