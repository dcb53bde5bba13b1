-------------------------------- MODULE Sums --------------------------------
(***************************************************************************)
(* Amounts added up in the order they are listed: the costs of a usage     *)
(* file (runtime/budget.py), the actions and weighted scores of a game     *)
(* (arc/scoring.py).  A recursive function, so that it can be reasoned     *)
(* about (SumsProofs).                                                     *)
(***************************************************************************)
EXTENDS Integers, Sequences

Total(amounts) ==
    LET sum[n \in 0..Len(amounts)] == IF n = 0 THEN 0 ELSE sum[n - 1] + amounts[n]
    IN  sum[Len(amounts)]
=============================================================================
