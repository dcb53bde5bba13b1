---------------------------- MODULE MCEvolution ----------------------------
(***************************************************************************)
(* Evolution with a seed, one other sound tree, one with a .git entry and  *)
(* one that cannot be hashed; two scores, two attempts, and two lines in   *)
(* the step log: enough for a record glued to a torn one, and for an       *)
(* attempt that a crash makes the engine redo.                             *)
(***************************************************************************)
EXTENDS Evolution
=============================================================================
