-------------------------- MODULE MCProviderRounds --------------------------
(***************************************************************************)
(* ProviderRounds on a ceiling of 5 with holds of 2: two requests fit at   *)
(* once, a response that costs 3 overruns its hold and can block the       *)
(* follow-up of a peer.  Two rounds per turn are enough for a follow-up.   *)
(***************************************************************************)
EXTENDS ProviderRounds, TLC

Symmetry == Permutations(Workers)
=============================================================================
