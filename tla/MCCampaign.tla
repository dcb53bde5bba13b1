----------------------------- MODULE MCCampaign -----------------------------
(***************************************************************************)
(* Campaign with two attempts of two episodes and a game of two levels:    *)
(* enough for an attempt to win or be given up with a later one to come,   *)
(* for an episode to end inside the game, and for a session to be resumed. *)
(***************************************************************************)
EXTENDS Campaign
=============================================================================
