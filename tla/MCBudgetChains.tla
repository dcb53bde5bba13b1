--------------------------- MODULE MCBudgetChains ---------------------------
(***************************************************************************)
(* BudgetChains with two threads and three reservations under a ceiling    *)
(* that holds two; every write may be whole, unterminated or torn and the  *)
(* process may die between any two steps.                                  *)
(***************************************************************************)
EXTENDS BudgetChains, TLC

Symmetry == Permutations(Clients) \cup Permutations(Reservations)
=============================================================================
