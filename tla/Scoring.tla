------------------------------ MODULE Scoring ------------------------------
(***************************************************************************)
(* arc/scoring.py: the private action budget and the RHAE score of a game. *)
(*                                                                         *)
(* The code divides floats; here a score of 1.0 is the integer `Unit', a   *)
(* multiple of 20 (for the cap of 1.15) and of the square of every number  *)
(* of actions that is scored, so that every quotient below is exact.       *)
(***************************************************************************)
EXTENDS Sums

CONSTANTS
    Baselines,      \* human actions per level
    HardCap,        \* actions of a game whatever its baselines (2500)
    Unit            \* a score of 1.0

ASSUME ScoringAssumption ==
    /\ Baselines \in Seq(Nat \ {0}) /\ Baselines # <<>>
    /\ HardCap \in Nat \ {0}
    /\ Unit \in Nat \ {0} /\ Unit % 20 = 0

Multiplier == 5

Least(m, n) == IF m < n THEN m ELSE n

action_budget == Least(Multiplier * Total(Baselines), HardCap)

-----------------------------------------------------------------------------
\* Mutant of Charged: all the levels an action completes are charged the same actions.
ChargedAlike(acc, levels) ==
    LET gained == levels - Len(acc.completed) IN
    IF gained = 0 THEN [acc EXCEPT !.since = @ + 1]
    ELSE [completed |-> acc.completed \o [i \in 1..gained |-> acc.since + 1], since |-> 0]

\* One more action, after which `levels' are completed.  An action may complete several
\* levels: the first is charged everything since the last completion, the others nothing.
Charged(acc, levels) ==
    LET gained == levels - Len(acc.completed) IN
    IF gained = 0 THEN [acc EXCEPT !.since = @ + 1]
    ELSE [completed |-> acc.completed \o [i \in 1..gained |-> IF i = 1 THEN acc.since + 1 ELSE 0],
          since |-> 0]

\* Of the levels completed after every action; the unfinished tail is left out.
actions_per_completed_level(progress) ==
    LET after[n \in 0..Len(progress)] ==
            IF n = 0 THEN [completed |-> <<>>, since |-> 0] ELSE Charged(after[n - 1], progress[n])
    IN  after[Len(progress)].completed

\* The square of the ratio, at most 1.15; a level without an action of its own is worth
\* nothing.
level_rhae(baseline, actions) ==
    IF actions = 0 THEN 0
    ELSE Least((baseline * baseline * Unit) \div (actions * actions), (23 * Unit) \div 20)

Weights == [level \in DOMAIN Baselines |-> level]

\* The weighted mean in `Unit's times the total weight, under the ceiling of the levels
\* that score at all.
score_game(actions) ==
    LET scores == [level \in DOMAIN actions |-> level_rhae(Baselines[level], actions[level])]
        earned == [level \in DOMAIN actions |-> level * scores[level]]
        ceiling == [level \in DOMAIN actions |-> IF scores[level] > 0 THEN level * Unit ELSE 0]
    IN  Least(Total(earned), Total(ceiling))

Perfect == Unit * Total(Weights)
=============================================================================
