----------------------------- MODULE PlayProofs -----------------------------
(***************************************************************************)
(* Proofs about one game, for every game (whatever its actions, frames and *)
(* legal actions), every trace length and every threshold: play never runs *)
(* ahead of the durable trace, and the durable trace is a play.            *)
(***************************************************************************)
EXTENDS Play, SumsProofs, FiniteSetTheorems

-----------------------------------------------------------------------------
\* Scores.

LEMMA BudgetIsNat ==
  action_budget \in Nat
<1>1. Baselines \in Seq(Nat)
  BY ScoringAssumption
<1>2. PICK n \in Nat : n = Total(Baselines)
  BY <1>1, TotalIsNat
<1> QED
  BY <1>2, ScoringAssumption DEF action_budget, Least, Multiplier

LEMMA DivIsNat ==
  ASSUME NEW x \in Nat, NEW y \in Nat \ {0}
  PROVE  x \div y \in Nat
OBVIOUS

LEMMA TimesIsNat ==
  ASSUME NEW x \in Nat, NEW y \in Nat
  PROVE  x * y \in Nat /\ (x * y = 0 => x = 0 \/ y = 0)
OBVIOUS

\* A level scores a number, and nothing if no action is its own.
LEMMA LevelScores ==
  ASSUME NEW b \in Nat, NEW n \in Nat
  PROVE  level_rhae(b, n) \in Nat /\ (n = 0 => level_rhae(b, n) = 0)
<1>0. Unit \in Nat
  BY ScoringAssumption
<1>1. CASE n = 0
  BY <1>1 DEF level_rhae
<1>2. CASE n # 0
  <2>1. PICK x \in Nat : x = b * b
    BY TimesIsNat
  <2>2. PICK y \in Nat : y = x * Unit
    BY <1>0, TimesIsNat
  <2>3. PICK z \in Nat \ {0} : z = n * n
    BY <1>2, TimesIsNat
  <2>4. PICK c \in Nat : c = 23 * Unit
    BY <1>0
  <2>5. y \div z \in Nat /\ c \div 20 \in Nat
    BY <2>2, <2>3, <2>4, DivIsNat
  <2>6. level_rhae(b, n) = Least(y \div z, c \div 20)
    BY <1>2, <2>1, <2>2, <2>3, <2>4 DEF level_rhae
  <2> QED
    BY <1>2, <2>5, <2>6 DEF Least
<1> QED
  BY <1>1, <1>2

\* No score is above the perfect one, which needs every level, each with actions of its own.
LEMMA PerfectIsWhole ==
  ASSUME NEW actions \in Seq(Nat), Len(actions) <= Len(Baselines)
  PROVE  /\ score_game(actions) <= Perfect
         /\ score_game(actions) = Perfect =>
               /\ Len(actions) = Len(Baselines)
               /\ \A level \in DOMAIN actions : actions[level] > 0
<1> DEFINE m == Len(Baselines)
           k == Len(actions)
           scores == [level \in DOMAIN actions |-> level_rhae(Baselines[level], actions[level])]
           earned == [level \in DOMAIN actions |-> level * scores[level]]
           ceiling == [level \in DOMAIN actions |-> IF scores[level] > 0 THEN level * Unit ELSE 0]
<1>1. /\ m \in Nat /\ k \in 0..m /\ DOMAIN actions = 1..k
      /\ \A level \in 1..k : Baselines[level] \in Nat /\ actions[level] \in Nat
      /\ Unit \in Nat \ {0} /\ Weights = [level \in 1..m |-> level]
  BY ScoringAssumption DEF Weights
<1>2. scores \in [1..k -> Nat] /\ \A level \in 1..k : actions[level] = 0 => scores[level] = 0
  BY <1>1, LevelScores
<1>3. score_game(actions) = Least(Total(earned), Total(ceiling))
  BY DEF score_game
<1> HIDE DEF scores, m, k
<1>4. earned \in [1..k -> Nat]
  <2>1. \A level \in 1..k : level \in Nat /\ scores[level] \in Nat
    BY <1>1, <1>2
  <2>2. \A level \in 1..k : level * scores[level] \in Nat
    BY <2>1, TimesIsNat
  <2> QED
    BY <1>1, <2>2
<1>5. /\ ceiling \in [1..k -> Nat]
      /\ \A level \in 1..k : /\ ceiling[level] <= level * Unit
                             /\ scores[level] = 0 => ceiling[level] = 0
  <2>1. \A level \in 1..m : level * Unit \in Nat /\ level * Unit # 0
    <3>1. \A level \in 1..m : level \in Nat /\ level # 0
      BY <1>1
    <3> QED
      BY <1>1, <3>1, TimesIsNat
  <2> DEFINE Weight(level) == level * Unit
  <2>2. \A level \in 1..k : Weight(level) \in Nat
    BY <1>1, <2>1
  <2>3. ceiling = [level \in 1..k |-> IF scores[level] > 0 THEN Weight(level) ELSE 0]
    BY <1>1
  <2> HIDE DEF Weight, ceiling
  <2>4. /\ ceiling \in [1..k -> Nat]
        /\ \A level \in 1..k : /\ ceiling[level] <= Weight(level)
                               /\ scores[level] = 0 => ceiling[level] = 0
    BY <1>1, <1>2, <2>2, <2>3
  <2> QED
    BY <2>4 DEF Weight
<1> HIDE DEF earned, ceiling
<1>6. earned \in Seq(Nat) /\ ceiling \in Seq(Nat) /\ Len(ceiling) = k /\ Weights \in Seq(Nat)
      /\ Len(Weights) = m
  BY <1>1, <1>4, <1>5, SeqDef
<1>7. PICK f \in [0..k -> Nat] : Sums(f, ceiling, k) /\ Total(ceiling) = f[k]
  BY <1>6, TotalIsSum
<1>8. PICK g \in [0..m -> Nat] : Sums(g, Weights, m) /\ Total(Weights) = g[m]
  BY <1>6, TotalIsSum
\* The perfect sums, and the score's with nothing for the levels that are missing.
<1> DEFINE full == [n \in 1..m |-> n * Unit]
           fulls == [n \in 0..m |-> Unit * g[n]]
           padded == [n \in 1..m |-> IF n <= k THEN ceiling[n] ELSE 0]
           sums == [n \in 0..m |-> IF n <= k THEN f[n] ELSE f[k]]
<1>9. full \in [1..m -> Nat] /\ (\A n \in 1..m : full[n] = n * Unit /\ full[n] > 0)
  <2>1. \A n \in 1..m : n \in Nat /\ n # 0
    BY <1>1
  <2>2. \A n \in 1..m : n * Unit \in Nat /\ n * Unit # 0
    BY <1>1, <2>1, TimesIsNat
  <2> DEFINE Weight(n) == n * Unit
  <2>3. \A n \in 1..m : Weight(n) \in Nat /\ Weight(n) > 0
    BY <2>2
  <2>4. full = [n \in 1..m |-> Weight(n)]
    OBVIOUS
  <2> HIDE DEF Weight, full
  <2>5. full \in [1..m -> Nat] /\ (\A n \in 1..m : full[n] = Weight(n) /\ full[n] > 0)
    BY <2>3, <2>4
  <2> QED
    BY <2>5 DEF Weight
<1>10. fulls \in [0..m -> Nat] /\ Sums(fulls, full, m) /\ fulls[m] = Perfect
  <2>1. \A n \in 0..m : g[n] \in Nat /\ Unit * g[n] \in Nat
    BY <1>1, <1>8, TimesIsNat
  <2>2. fulls[0] = 0
    BY <1>1, <1>8 DEF Sums
  <2>3. ASSUME NEW n \in 1..m PROVE fulls[n] = fulls[n - 1] + full[n]
    <3>1. n \in 0..m /\ n - 1 \in 0..m /\ n \in Nat /\ g[n - 1] \in Nat
      BY <1>1, <1>8
    <3>2. g[n] = g[n - 1] + n
      BY <1>1, <1>8 DEF Sums
    <3>3. PICK x \in Nat : x = g[n - 1]
      BY <3>1
    <3>4. Unit * (x + n) = Unit * x + n * Unit
      BY <1>1, <3>1
    <3>5. fulls[n] = Unit * (x + n) /\ fulls[n - 1] = Unit * x /\ full[n] = n * Unit
      BY <3>1, <3>2, <3>3
    <3> QED
      BY <3>4, <3>5
  <2>4. fulls[m] = Perfect
    BY <1>1, <1>8 DEF Perfect
  <2>5. fulls \in [0..m -> Nat]
    <3>1. \A n \in 0..m : fulls[n] \in Nat
      BY <2>1
    <3> QED
      BY <3>1
  <2> HIDE DEF fulls, full
  <2> QED
    BY <2>2, <2>3, <2>4, <2>5 DEF Sums
<1>11. /\ padded \in [1..m -> Nat] /\ sums \in [0..m -> Nat]
       /\ Sums(sums, padded, m) /\ sums[m] = Total(ceiling)
  <2>1. padded \in [1..m -> Nat] /\ sums \in [0..m -> Nat] /\ sums[m] = Total(ceiling)
    BY <1>1, <1>5, <1>7
  <2>2. sums[0] = 0
    BY <1>1, <1>7 DEF Sums
  <2>3. ASSUME NEW n \in 1..m PROVE sums[n] = sums[n - 1] + padded[n]
    <3>1. CASE n <= k
      <4>1. sums[n] = f[n] /\ sums[n - 1] = f[n - 1] /\ padded[n] = ceiling[n] /\ n \in 1..k
        BY <1>1, <3>1
      <4> QED
        BY <1>7, <4>1 DEF Sums
    <3>2. CASE n > k
      <4>1. sums[n] = f[k] /\ sums[n - 1] = f[k] /\ padded[n] = 0 /\ f[k] \in Nat
        BY <1>1, <1>7, <3>2
      <4> QED
        BY <4>1
    <3> QED
      BY <1>1, <3>1, <3>2
  <2> HIDE DEF sums, padded
  <2> QED
    BY <2>1, <2>2, <2>3 DEF Sums
<1>12. \A n \in 1..m : padded[n] <= full[n] /\ (n <= k => padded[n] = ceiling[n]) /\ (n > k => padded[n] = 0)
  <2> SUFFICES ASSUME NEW n \in 1..m
               PROVE  padded[n] <= full[n] /\ (n <= k => padded[n] = ceiling[n]) /\ (n > k => padded[n] = 0)
    OBVIOUS
  <2>1. full[n] = n * Unit /\ full[n] \in Nat
    BY <1>9
  <2> HIDE DEF full
  <2>2. n <= k => ceiling[n] <= full[n]
    BY <1>1, <1>5, <2>1
  <2> QED
    BY <1>1, <1>5, <2>1, <2>2
<1> HIDE DEF full, fulls, padded, sums
<1>13. sums[m] <= fulls[m] /\ (sums[m] = fulls[m] => padded = full)
  <2>1. m \in Nat /\ NoMore(padded, full, m)
    BY <1>1, <1>12 DEF NoMore
  <2>2. /\ padded \in [1..m -> Nat] /\ full \in [1..m -> Nat]
        /\ sums \in [0..m -> Nat] /\ fulls \in [0..m -> Nat]
        /\ Sums(sums, padded, m) /\ Sums(fulls, full, m)
    BY <1>9, <1>10, <1>11
  <2> QED
    BY <2>1, <2>2, SumsBelow
<1>14. PICK x \in Nat : x = Total(earned)
  BY <1>6, TotalIsNat
<1>15. PICK y \in Nat : y = Total(ceiling)
  BY <1>6, TotalIsNat
<1>16. Perfect \in Nat
  BY <1>1, <1>10
<1>17. score_game(actions) <= Perfect /\ (score_game(actions) = Perfect => padded = full)
  BY <1>3, <1>10, <1>11, <1>13, <1>14, <1>15, <1>16 DEF Least
<1>18. ASSUME padded = full PROVE k = m /\ \A level \in 1..k : actions[level] > 0
  <2>1. \A n \in 1..m : padded[n] > 0
    BY <1>9, <1>18
  <2>0. m \in Nat /\ k \in 0..m
    BY <1>1
  <2>2. \A n \in 1..m : n <= k
    BY <1>12, <2>0, <2>1
  <2>3. k = m
    <3>0. m # 0 => m \in 1..m
      BY <2>0
    <3>1. m # 0 => m <= k
      BY <2>2, <3>0, Zenon
    <3> QED
      BY <2>0, <3>1
  <2>4. ASSUME NEW level \in 1..k PROVE actions[level] > 0
    <3>0. level \in 1..m /\ level <= k
      BY <2>0, <2>3
    <3>1. ceiling[level] # 0
      <4>1. padded[level] > 0
        BY <2>1, <3>0
      <4> QED
        BY <1>12, <3>0, <4>1
    <3> QED
      BY <1>1, <1>2, <1>5, <3>1
  <2> QED
    BY <2>3, <2>4
<1> QED
  BY <1>1, <1>17, <1>18 DEF m, k

Accs == [completed : Seq(Nat), since : Nat]
NoneYet == [completed |-> <<>>, since |-> 0]

\* The levels completed after n actions.
Reached(progress, n) == IF n = 0 THEN 0 ELSE progress[n]
Completes(progress, n) == Reached(progress, n) > Reached(progress, n - 1)

\* What one more action charges.
LEMMA ChargedActions ==
  ASSUME NEW acc \in Accs, NEW levels \in Nat
  PROVE  LET then == Charged(acc, levels)
             had == Len(acc.completed)
         IN /\ then \in Accs
            /\ levels = had => /\ then.completed = acc.completed
                               /\ then.since = acc.since + 1
            /\ levels > had => /\ Len(then.completed) = levels
                               /\ Total(then.completed) = Total(acc.completed) + acc.since + 1
                               /\ then.since = 0
<1> DEFINE c == acc.completed
           had == Len(c)
           more == acc.since + 1
           zeros == [i \in 1..(levels - had) |-> IF i = 1 THEN more ELSE 0]
<1>1. c \in Seq(Nat) /\ had \in Nat /\ more \in Nat /\ acc.since \in Nat
      /\ acc = [completed |-> c, since |-> acc.since]
  BY DEF Accs
<1>2. Charged(acc, levels) = IF levels - had = 0 THEN [acc EXCEPT !.since = @ + 1]
                             ELSE [completed |-> c \o zeros, since |-> 0]
  BY DEF Charged
<1>3. CASE levels = had
  <2>1. Charged(acc, levels) = [completed |-> c, since |-> more]
    BY <1>1, <1>2, <1>3
  <2> HIDE DEF c, more
  <2> QED
    BY <1>1, <1>3, <2>1 DEF Accs, c, more
<1>4. CASE levels > had
  <2>1. PICK k \in Nat \ {0} : k = levels - had
    BY <1>1, <1>4
  <2> DEFINE all == c \o zeros
  <2>2. all \in Seq(Nat) /\ Len(all) = had + k /\ Total(all) = Total(c) + more
    BY <1>1, <2>1, TotalWithZeros
  <2>3. Charged(acc, levels) = [completed |-> all, since |-> 0]
    BY <1>1, <1>2, <1>4
  <2> HIDE DEF c, all, zeros
  <2>4. Total(c) \in Nat /\ had + k = levels
    BY <1>1, <2>1, TotalIsNat
  <2> QED
    BY <1>1, <1>4, <2>2, <2>3, <2>4 DEF Accs, c
<1>5. CASE levels < had
  <2>1. PICK n \in Nat : zeros \in [1..n -> Nat]
    <3>1. zeros \in [1..0 -> Nat]
      BY <1>1, <1>5
    <3> QED
      BY <3>1
  <2>2. zeros \in Seq(Nat)
    BY <2>1, SeqDef
  <2> HIDE DEF zeros
  <2>3. c \o zeros \in Seq(Nat)
    BY <1>1, <2>2
  <2>4. Charged(acc, levels) = [completed |-> c \o zeros, since |-> 0]
    BY <1>1, <1>2, <1>5
  <2> QED
    BY <1>1, <1>5, <2>3, <2>4 DEF Accs
<1> QED
  BY <1>1, <1>3, <1>4, <1>5

\* The recursive function of actions_per_completed_level charges action by action.
LEMMA ChargesFollow ==
  ASSUME NEW progress \in Seq(Nat)
  PROVE  \E f \in [0..Len(progress) -> Accs] :
            /\ f[0] = NoneYet
            /\ \A n \in 1..Len(progress) : f[n] = Charged(f[n - 1], progress[n])
            /\ actions_per_completed_level(progress) = f[Len(progress)].completed
<1> DEFINE m == Len(progress)
           step == [n \in 1..m |-> [acc \in Accs |-> Charged(acc, progress[n])]]
           After(f) == [n \in 0..m |-> IF n = 0 THEN [completed |-> <<>>, since |-> 0]
                                       ELSE Charged(f[n - 1], progress[n])]
           after == CHOOSE f : f = After(f)
<1>1. m \in Nat /\ \A n \in 1..m : progress[n] \in Nat
  OBVIOUS
<1>2. actions_per_completed_level(progress) = after[m].completed
  BY DEF actions_per_completed_level
<1> HIDE DEF m
<1>3. \A n \in 1..m : \A acc \in Accs : Charged(acc, progress[n]) \in Accs
  BY <1>1, ChargedActions
<1>4. /\ step \in Steps(m, Accs)
      /\ \A n \in 1..m : \A acc \in Accs : step[n][acc] = Charged(acc, progress[n])
  BY <1>3 DEF Steps
<1>5. NoneYet \in Accs
  BY DEF NoneYet, Accs
<1> HIDE DEF step
<1>6. PICK f \in [0..m -> Accs] : Follows(f, NoneYet, m, step)
  BY <1>1, <1>4, <1>5, RecursionExists
<1>7. f[0] = NoneYet /\ \A n \in 1..m : f[n] = Charged(f[n - 1], progress[n])
  <2>1. \A n \in 1..m : f[n - 1] \in Accs
    BY <1>1
  <2> QED
    BY <1>4, <1>6, <2>1 DEF Follows
<1>8. f = After(f)
  <2>1. \A n \in 0..m : f[n] = After(f)[n]
    BY <1>1, <1>7 DEF NoneYet
  <2>2. f = [n \in 0..m |-> f[n]]
    OBVIOUS
  <2>3. After(f) = [n \in 0..m |-> After(f)[n]]
    OBVIOUS
  <2> QED
    BY <2>1, <2>2, <2>3
<1>9. after = After(after)
  <2> HIDE DEF After
  <2> QED
    BY <1>8
<1> HIDE DEF after
<1>10. after[0] = NoneYet /\ (\A n \in 1..m : after[n] = Charged(after[n - 1], progress[n]))
       /\ after = [n \in 0..m |-> after[n]]
  <2>1. \A n \in 0..m : after[n] = After(after)[n]
    BY <1>9
  <2>2. \A n \in 1..m : n \in 0..m /\ n # 0
    BY <1>1
  <2>3. 0 \in 0..m
    BY <1>1
  <2> QED
    BY <1>9, <2>1, <2>2, <2>3 DEF NoneYet
<1>11. after \in [0..m -> Accs]
  <2>1. \A n \in 1..m : after[n - 1] \in Accs => after[n] = step[n][after[n - 1]]
    BY <1>4, <1>10
  <2>2. Staying(after, NoneYet, m, step, Accs)
    BY <1>10, <2>1 DEF Staying
  <2> QED
    BY <1>1, <1>4, <1>5, <2>2, RecursionStays
<1> QED
  BY <1>2, <1>10, <1>11 DEF m

LEMMA OneMoreAction ==
  ASSUME NEW x \in Nat, NEW since \in Nat, NEW n \in Nat, x + since = n
  PROVE  x + (since + 1) = n + 1
OBVIOUS

\* What n actions have charged.
ChargedSoFar(p, acc, n) ==
    LET last == Total(acc.completed) IN
    /\ Len(acc.completed) = Reached(p, n)
    /\ last + acc.since = n
    /\ (last = 0 /\ Reached(p, n) = 0) \/ (last \in 1..n /\ Completes(p, last))
    /\ \A i \in 1..n : Completes(p, i) => i <= last

\* The levels of a game that never loses one are charged the actions up to the last
\* completion.
LEMMA ChargesAreActions ==
  ASSUME NEW p \in Seq(Nat),
         \A n \in 1..Len(p) : Reached(p, n) >= Reached(p, n - 1)
  PROVE  LET charged == actions_per_completed_level(p)
             last == Total(charged)
         IN /\ charged \in Seq(Nat) /\ Len(charged) = Reached(p, Len(p))
            /\ \/ last = 0 /\ charged = <<>>
               \/ last \in 1..Len(p) /\ Completes(p, last)
            /\ \A n \in 1..Len(p) : Completes(p, n) => n <= last
<1> DEFINE m == Len(p)
<1>1. m \in Nat /\ \A n \in 1..m : p[n] \in Nat
  OBVIOUS
<1>2. PICK f \in [0..m -> Accs] :
            /\ f[0] = NoneYet
            /\ \A n \in 1..m : f[n] = Charged(f[n - 1], p[n])
            /\ actions_per_completed_level(p) = f[m].completed
  BY ChargesFollow
<1> DEFINE In(n) == ChargedSoFar(p, f[n], n)
           T == {n \in Nat : n <= m => In(n)}
<1> HIDE DEF m
<1>3. \A n \in 0..m : Reached(p, n) \in Nat
  BY <1>1 DEF Reached
<1>4. In(0)
  <2>1. NoneYet.completed = <<>> /\ NoneYet.since = 0
    BY DEF NoneYet
  <2>2. Total(NoneYet.completed) = 0 /\ Len(NoneYet.completed) = 0
    <3>1. Len(<<>>) = 0
      OBVIOUS
    <3> QED
      BY <2>1, <3>1, TotalOfNone
  <2>3. ChargedSoFar(p, NoneYet, 0)
    <3>1. Reached(p, 0) = 0 /\ \A i \in 1..0 : Completes(p, i) => i <= 0
      BY DEF Reached
    <3>2. 0 + NoneYet.since = 0
      BY <2>1
    <3> DEFINE last == Total(NoneYet.completed)
    <3>3. last = 0
      BY <2>2
    <3> HIDE DEF last
    <3>4. /\ Len(NoneYet.completed) = Reached(p, 0)
          /\ last + NoneYet.since = 0
          /\ last = 0 /\ Reached(p, 0) = 0
          /\ \A i \in 1..0 : Completes(p, i) => i <= last
      BY <2>2, <3>1, <3>2, <3>3
    <3> QED
      BY <3>4 DEF ChargedSoFar, last
  <2> QED
    BY <1>2, <2>3
<1>5. ASSUME NEW n \in Nat, n + 1 <= m, In(n) PROVE In(n + 1)
  <2>1. n \in 0..m /\ n + 1 \in 1..m /\ (n + 1) - 1 = n /\ n + 1 # 0
    BY <1>1, <1>5
  <2>2. PICK acc \in Accs : acc = f[n]
    BY <2>1
  <2>3. PICK x \in Nat : x = Total(acc.completed)
    BY TotalIsNat DEF Accs
  <2>4. p[n + 1] \in Nat /\ acc.since \in Nat
    BY <1>1, <2>1 DEF Accs
  <2>5. PICK then \in Accs : then = f[n + 1] /\ then = Charged(acc, p[n + 1])
    BY <1>2, <2>1, <2>2, <2>4, ChargedActions
  <2>6. PICK y \in Nat : y = Total(then.completed)
    BY TotalIsNat DEF Accs
  <2>7. p[n + 1] = Reached(p, n + 1) /\ Reached(p, n + 1) >= Reached(p, n)
        /\ Reached(p, n) \in Nat /\ Reached(p, n + 1) \in Nat
    BY <1>3, <2>1 DEF Reached, m
  <2>8. /\ Len(acc.completed) = Reached(p, n) /\ x + acc.since = n
        /\ (x = 0 /\ Reached(p, n) = 0) \/ (x \in 1..n /\ Completes(p, x))
        /\ \A i \in 1..n : Completes(p, i) => i <= x
    <3>1. ChargedSoFar(p, acc, n)
      BY <1>5, <2>2
    <3> QED
      BY <2>3, <3>1 DEF ChargedSoFar
  <2>9. /\ Len(then.completed) = Reached(p, n + 1) /\ y + then.since = n + 1
        /\ (y = 0 /\ Reached(p, n + 1) = 0) \/ (y \in 1..(n + 1) /\ Completes(p, y))
        /\ \A i \in 1..(n + 1) : Completes(p, i) => i <= y
    <3>1. CASE Reached(p, n + 1) = Reached(p, n)
      <4>1. then.completed = acc.completed /\ then.since = acc.since + 1
        <5>1. p[n + 1] = Len(acc.completed)
          BY <2>7, <2>8, <3>1
        <5>2. PICK levels \in Nat : levels = p[n + 1]
          BY <2>4
        <5>3. then = Charged(acc, levels) /\ levels = Len(acc.completed)
          BY <2>5, <5>1, <5>2
        <5>4. then.completed = acc.completed /\ then.since = acc.since + 1
          BY <5>3, ChargedActions
        <5> QED
          BY <5>2, <5>4
      <4>2. y = x /\ ~Completes(p, n + 1)
        BY <2>1, <2>3, <2>6, <2>7, <3>1, <4>1 DEF Completes
      <4>3. ASSUME NEW i \in 1..(n + 1), Completes(p, i) PROVE i <= y
        <5>1. i \in 1..n
          BY <4>2, <4>3
        <5> QED
          BY <2>8, <4>2, <4>3, <5>1
      <4>4. (y = 0 /\ Reached(p, n + 1) = 0) \/ (y \in 1..(n + 1) /\ Completes(p, y))
        BY <2>8, <3>1, <4>2
      <4>5. Len(then.completed) = Reached(p, n + 1)
        BY <2>8, <3>1, <4>1
      <4>6. y + then.since = n + 1
        <5>1. x + acc.since = n
          BY <2>8
        <5>2. x + (acc.since + 1) = n + 1
          BY <2>4, <5>1, OneMoreAction
        <5> QED
          BY <4>1, <4>2, <5>2
      <4> QED
        BY <4>3, <4>4, <4>5, <4>6
    <3>2. CASE Reached(p, n + 1) > Reached(p, n)
      <4>1. /\ Len(then.completed) = p[n + 1]
            /\ Total(then.completed) = Total(acc.completed) + acc.since + 1
            /\ then.since = 0
        <5>1. p[n + 1] > Len(acc.completed)
          BY <2>7, <2>8, <3>2
        <5>2. PICK levels \in Nat : levels = p[n + 1]
          BY <2>4
        <5>3. then = Charged(acc, levels) /\ levels > Len(acc.completed)
          BY <2>5, <5>1, <5>2
        <5>4. /\ Len(then.completed) = levels
              /\ Total(then.completed) = Total(acc.completed) + acc.since + 1
              /\ then.since = 0
          BY <5>3, ChargedActions
        <5> QED
          BY <5>2, <5>4
      <4>2. y = n + 1
        BY <2>3, <2>4, <2>6, <2>8, <4>1
      <4>3. Completes(p, n + 1)
        BY <2>1, <3>2 DEF Completes
      <4> QED
        BY <2>7, <4>1, <4>2, <4>3
    <3> QED
      BY <2>7, <3>1, <3>2
  <2>10. ChargedSoFar(p, then, n + 1)
    BY <2>6, <2>9 DEF ChargedSoFar
  <2> QED
    BY <2>5, <2>10
<1> HIDE DEF In
<1>6. 0 \in T /\ \A n \in Nat : n \in T => n + 1 \in T
  <2>1. ASSUME NEW n \in Nat, n \in T, n + 1 <= m PROVE In(n + 1)
    <3>1. n <= m
      BY <1>1, <2>1
    <3> QED
      BY <1>5, <2>1, <3>1
  <2> QED
    BY <1>4, <2>1
<1> HIDE DEF T
<1>7. \A n \in Nat : n \in T
  BY <1>6, SetInduction
<1>8. In(m)
  BY <1>1, <1>7 DEF T
<1>9. PICK charged \in Seq(Nat) : charged = f[m].completed
  BY <1>1 DEF Accs
<1>10. PICK last \in Nat : last = Total(charged)
  BY TotalIsNat
<1>11. /\ Len(charged) = Reached(p, m)
       /\ (last = 0 /\ Reached(p, m) = 0) \/ (last \in 1..m /\ Completes(p, last))
       /\ \A i \in 1..m : Completes(p, i) => i <= last
  <2>1. PICK acc \in Accs : acc = f[m]
    BY <1>1
  <2>2. ChargedSoFar(p, acc, m) /\ acc.completed = charged
    BY <1>8, <1>9, <2>1 DEF In
  <2> QED
    BY <1>10, <2>2 DEF ChargedSoFar
<1>12. Reached(p, m) = 0 => charged = <<>>
  BY <1>11
<1> QED
  BY <1>2, <1>9, <1>10, <1>11, <1>12 DEF m

-----------------------------------------------------------------------------
\* The inductive invariant of the trace.

Records == [action : Actions, frame : Frames]

\* The frames a trace stands for.
Recorded(steps) == [n \in 1..(Len(steps) + 1) |-> FrameAt(steps, n - 1)]

\* The answer in the runtime is the game's, to a legal action: it is what Commit records.
AnswerIsPlayed ==
    rt.at = "stepped" =>
        /\ ~rt.fatal
        /\ rt.action \in Legal(Current) /\ Frame = Apply(Current, rt.action)

Durable ==
    rt.at # "none" /\ ~rt.fatal =>
        /\ file = "whole"
        /\ rt.at = "ready" => rt.history = Recorded(trace)
        /\ rt.at = "stepped" => rt.history = Append(Recorded(trace), Frame)

PlayInv ==
    /\ trace \in Seq(Records)
    /\ file \in {"absent", "whole", "torn"}
    /\ file = "absent" => trace = <<>>
    /\ rt.at \in {"none", "ready", "stepped"}
    /\ rt.at # "none" <=> host = "playing"
    /\ AnswerIsPlayed
    /\ Durable
    /\ Replays(trace)

-----------------------------------------------------------------------------
\* Traces.

LEMMA FramesOfTrace ==
  ASSUME NEW s \in Seq(Records), NEW n \in 0..Len(s)
  PROVE  FrameAt(s, n) \in Frames
<1>1. First \in Frames
  BY PlayAssumption
<1>2. CASE n = 0
  BY <1>1, <1>2 DEF FrameAt
<1>3. CASE n # 0
  <2>1. s[n] \in Records
    BY <1>3
  <2> QED
    BY <1>3, <2>1 DEF FrameAt, Records
<1> QED
  BY <1>2, <1>3

LEMMA RecordedFrames ==
  ASSUME NEW s \in Seq(Records)
  PROVE  /\ Recorded(s) \in Seq(Frames)
         /\ Len(Recorded(s)) = Len(s) + 1
         /\ Recorded(s)[Len(s) + 1] = FrameAt(s, Len(s))
<1>1. \A n \in 1..(Len(s) + 1) : FrameAt(s, n - 1) \in Frames
  BY FramesOfTrace
<1> QED
  BY <1>1 DEF Recorded

\* A record more is a frame more.
LEMMA OneMoreFrame ==
  ASSUME NEW s \in Seq(Records), NEW record \in Records
  PROVE  Recorded(Append(s, record)) = Append(Recorded(s), record.frame)
<1> DEFINE longer == Append(s, record)
<1>1. longer \in Seq(Records) /\ Len(longer) = Len(s) + 1
  OBVIOUS
<1>2. \A n \in 1..Len(s) : longer[n] = s[n]
  OBVIOUS
<1>3. longer[Len(s) + 1] = record
  OBVIOUS
<1> HIDE DEF longer
<1>4. \A n \in 1..(Len(s) + 1) : FrameAt(longer, n - 1) = FrameAt(s, n - 1)
  BY <1>2 DEF FrameAt
<1>5. FrameAt(longer, Len(s) + 1) = record.frame
  BY <1>3 DEF FrameAt
<1>6. /\ Recorded(s) \in Seq(Frames) /\ Len(Recorded(s)) = Len(s) + 1
      /\ Recorded(longer) \in Seq(Frames) /\ Len(Recorded(longer)) = Len(s) + 2
  BY <1>1, RecordedFrames
<1>7. record.frame \in Frames
  BY DEF Records
<1>8. /\ Append(Recorded(s), record.frame) \in Seq(Frames)
      /\ Len(Append(Recorded(s), record.frame)) = Len(s) + 2
  BY <1>6, <1>7
<1>9. ASSUME NEW n \in 1..(Len(s) + 2)
      PROVE  Recorded(longer)[n] = Append(Recorded(s), record.frame)[n]
  <2> DEFINE Same == Recorded(longer)[n] = Append(Recorded(s), record.frame)[n]
  <2> SUFFICES Same
    OBVIOUS
  <2>1. CASE n \in 1..(Len(s) + 1)
    <3>1. Recorded(longer)[n] = FrameAt(longer, n - 1)
      BY <1>1 DEF Recorded
    <3>2. Recorded(s)[n] = FrameAt(s, n - 1)
      BY <2>1 DEF Recorded
    <3>3. Append(Recorded(s), record.frame)[n] = Recorded(s)[n]
      BY <1>6, <1>7, <2>1
    <3> QED
      BY <1>4, <2>1, <3>1, <3>2, <3>3
  <2>2. CASE n = Len(s) + 2
    <3>1. Recorded(longer)[n] = FrameAt(longer, n - 1)
      BY <1>1, <2>2 DEF Recorded
    <3>2. Append(Recorded(s), record.frame)[n] = record.frame
      BY <1>6, <1>7, <2>2
    <3> QED
      BY <1>5, <2>2, <3>1, <3>2
  <2>3. Len(s) \in Nat
    OBVIOUS
  <2> HIDE DEF Same
  <2> QED
    BY <2>1, <2>2, <2>3
<1> QED
  BY <1>6, <1>8, <1>9 DEF longer

LEMMA OneMoreReplays ==
  ASSUME NEW s \in Seq(Records), Replays(s), NEW record \in Records,
         record.action \in Legal(FrameAt(s, Len(s))),
         record.frame = Apply(FrameAt(s, Len(s)), record.action)
  PROVE  Replays(Append(s, record))
<1> DEFINE longer == Append(s, record)
<1>1. Len(longer) = Len(s) + 1 /\ DOMAIN longer = 1..(Len(s) + 1)
  OBVIOUS
<1>2. \A n \in 1..Len(s) : longer[n] = s[n]
  OBVIOUS
<1>3. longer[Len(s) + 1] = record
  OBVIOUS
<1> HIDE DEF longer
<1>4. \A n \in 1..(Len(s) + 1) : FrameAt(longer, n - 1) = FrameAt(s, n - 1)
  BY <1>2 DEF FrameAt
<1>5. ASSUME NEW n \in 1..(Len(s) + 1)
      PROVE  /\ longer[n].action \in Legal(FrameAt(longer, n - 1))
             /\ longer[n].frame = Apply(FrameAt(longer, n - 1), longer[n].action)
  <2>1. CASE n \in 1..Len(s)
    BY <1>2, <1>4, <2>1 DEF Replays
  <2>2. CASE n = Len(s) + 1
    BY <1>3, <1>4, <2>2
  <2> QED
    BY <2>1, <2>2
<1> QED
  BY <1>1, <1>5 DEF Replays, longer

-----------------------------------------------------------------------------
\* Steps.

\* Between episodes, and when the process ends, there is no runtime.
LEMMA NoRuntimeStep ==
  ASSUME PlayInv, rt' = NoRuntime, host' # "playing",
         \/ UNCHANGED <<trace, file>>
         \/ file' = "torn" /\ UNCHANGED trace
         \/ trace' = <<>> /\ file' = "absent"
  PROVE  PlayInv'
<1>1. rt'.at = "none"
  BY DEF NoRuntime
<1>2. AnswerIsPlayed' /\ Durable'
  BY <1>1 DEF AnswerIsPlayed, Durable
<1>3. trace' \in Seq(Records) /\ Replays(trace')
  <2>1. CASE UNCHANGED trace
    BY <2>1 DEF PlayInv
  <2>2. CASE trace' = <<>>
    BY <2>2 DEF Replays
  <2> QED
    BY <2>1, <2>2
<1>4. file' \in {"absent", "whole", "torn"} /\ (file' = "absent" => trace' = <<>>)
  BY DEF PlayInv
<1> QED
  BY <1>1, <1>2, <1>3, <1>4 DEF PlayInv

\* A runtime is opened on the trace it will go on with.
LEMMA OpeningStep ==
  ASSUME PlayInv, Open \/ Reopen
  PROVE  PlayInv'
<1>1. CASE Reopen
  BY <1>1 DEF PlayInv, Reopen, Readable, AnswerIsPlayed, Durable, Recorded
<1>2. CASE Open /\ host' = "playing"
  <2>1. trace = <<>> /\ UNCHANGED trace
    BY <1>2 DEF PlayInv, Open
  <2>2. Recorded(trace) = <<First>>
    <3>1. trace \in Seq(Records) /\ Len(trace) = 0
      BY <2>1 DEF PlayInv
    <3>2. Recorded(trace) \in Seq(Frames) /\ Len(Recorded(trace)) = 1
      <4>1. /\ Recorded(trace) \in Seq(Frames)
            /\ Len(Recorded(trace)) = Len(trace) + 1
        BY <3>1, RecordedFrames, Zenon
      <4> QED
        BY <3>1, <4>1
    <3>3. Recorded(trace)[1] = First
      BY <3>1 DEF Recorded, FrameAt
    <3> QED
      BY <3>2, <3>3
  <2>3. /\ rt' = [at |-> "ready", history |-> <<First>>, fatal |-> FALSE, boundary |-> FALSE]
        /\ file' = "whole"
    BY <1>2 DEF Open, Die, Exit
  <2> QED
    BY <1>2, <2>1, <2>2, <2>3 DEF PlayInv, AnswerIsPlayed, Durable
<1>3. CASE Open /\ host' # "playing"
  BY <1>3, NoRuntimeStep DEF Open, Die, Exit
<1> QED
  BY <1>1, <1>2, <1>3

\* The answer of the game to a legal action.
LEMMA StepStep ==
  ASSUME PlayInv, NEW a \in Actions, Step(a)
  PROVE  PlayInv'
<1>1. /\ rt.history = Recorded(trace) /\ rt.at = "ready" /\ file = "whole"
      /\ trace \in Seq(Records)
  BY DEF PlayInv, Durable, Step
<1>2. Frame = Current
  BY <1>1, RecordedFrames DEF Frame, Current
<1>3. a \in Legal(Current) /\ Current \in Frames
  BY <1>1, <1>2, FramesOfTrace DEF Step, Current
<1>4. Apply(Current, a) \in Frames
  BY <1>3, PlayAssumption
<1>5. /\ rt' = [at |-> "stepped", history |-> Append(Recorded(trace), Apply(Current, a)),
                fatal |-> FALSE, boundary |-> FALSE, action |-> a]
      /\ UNCHANGED <<trace, file, host>>
  BY <1>1, <1>2 DEF Step
<1>6. Frame' = Apply(Current, a)
  BY <1>1, <1>4, <1>5, RecordedFrames DEF Frame
<1>7. Current' = Current
  BY <1>5 DEF Current
<1>8. AnswerIsPlayed'
  BY <1>3, <1>5, <1>6, <1>7 DEF AnswerIsPlayed
<1>9. Durable'
  BY <1>1, <1>5, <1>6 DEF Durable
<1> QED
  BY <1>5, <1>8, <1>9 DEF PlayInv, Step

\* What is played is a record, and lands as one.
LEMMA PlayedLands ==
  ASSUME PlayInv, rt.at = "stepped", trace' = Append(trace, Played)
  PROVE  /\ Played \in Records
         /\ trace' \in Seq(Records) /\ Replays(trace')
         /\ Recorded(trace') = rt.history
         /\ trace' # <<>>
<1>1. /\ trace \in Seq(Records) /\ Replays(trace)
      /\ rt.history = Append(Recorded(trace), Frame)
      /\ rt.action \in Legal(Current) /\ Frame = Apply(Current, rt.action)
  BY DEF PlayInv, AnswerIsPlayed, Durable
<1>2. Current \in Frames
  BY <1>1, FramesOfTrace DEF Current
<1>3. Frame \in Frames /\ rt.action \in Actions
  BY <1>1, <1>2, PlayAssumption
<1>4. Played \in Records /\ Played.frame = Frame /\ Played.action = rt.action
  BY <1>3 DEF Played, Records
<1>5. Replays(trace')
  BY <1>1, <1>4, OneMoreReplays DEF Current
<1>6. Recorded(trace') = rt.history
  BY <1>1, <1>4, OneMoreFrame
<1> QED
  BY <1>1, <1>4, <1>5, <1>6

LEMMA RecordStep ==
  ASSUME PlayInv, Commit \/ CommitFails \/ Crash
  PROVE  PlayInv'
<1>1. CASE Commit
  <2>1. /\ trace' \in Seq(Records) /\ Replays(trace') /\ Recorded(trace') = rt.history
    BY <1>1, PlayedLands DEF Commit
  <2>2. file = "whole"
    BY <1>1 DEF PlayInv, AnswerIsPlayed, Durable, Commit
  <2> QED
    BY <1>1, <2>1, <2>2 DEF PlayInv, Commit, Answered, AnswerIsPlayed, Durable
<1>2. CASE CommitFails
  <2>1. file = "whole"
    BY <1>2 DEF PlayInv, AnswerIsPlayed, Durable, CommitFails
  <2>2. trace' \in Seq(Records) /\ Replays(trace')
    BY <1>2, PlayedLands DEF PlayInv, CommitFails, Landed
  <2>3. file' \in {"whole", "torn"}
    BY <1>2, <2>1 DEF CommitFails, Landed
  <2> QED
    BY <1>2, <2>2, <2>3 DEF PlayInv, CommitFails, Answered, AnswerIsPlayed, Durable
<1>3. CASE Crash
  <2>1. rt' = NoRuntime /\ host' = "down"
    BY <1>3 DEF Crash, Die, Exit
  <2>2. CASE UNCHANGED <<trace, file>> \/ (file' = "torn" /\ UNCHANGED trace)
    BY <2>1, <2>2, NoRuntimeStep
  <2>3. CASE rt.at = "stepped" /\ trace' = Append(trace, Played) /\ UNCHANGED file
    <3>1. trace' \in Seq(Records) /\ Replays(trace')
      BY <2>3, PlayedLands
    <3>2. file = "whole"
      BY <2>3 DEF PlayInv, AnswerIsPlayed, Durable
    <3> QED
      BY <2>1, <2>3, <3>1, <3>2 DEF PlayInv, NoRuntime, AnswerIsPlayed, Durable
  <2> QED
    BY <1>3, <2>2, <2>3 DEF Crash, Landed
<1> QED
  BY <1>1, <1>2, <1>3

LEMMA StepFailsStep ==
  ASSUME PlayInv, StepFails
  PROVE  PlayInv'
BY DEF PlayInv, StepFails, Answered, AnswerIsPlayed, Durable

\* The campaign's own steps: they touch the runtime only to close it, and the trace only
\* to leave it for the next attempt's.
LEMMA LoopStep ==
  ASSUME PlayInv,
         \/ Resume \/ BeginAttempt \/ BeginEpisode \/ EndEpisode \/ EpisodeFails \/ Observe
         \/ SaveEpisode \/ AdvanceAttempt \/ Refuse
  PROVE  PlayInv'
<1>1. CASE EndEpisode \/ EpisodeFails \/ Refuse
  BY <1>1, NoRuntimeStep DEF EndEpisode, EpisodeFails, Refuse, Disposition, Exit
<1>2. CASE AdvanceAttempt
  BY <1>2 DEF PlayInv, AdvanceAttempt, AnswerIsPlayed, Durable, Replays
<1>3. CASE Resume \/ BeginAttempt \/ BeginEpisode \/ Observe \/ SaveEpisode
  <2>1. /\ UNCHANGED <<trace, file, rt>>
        /\ host # "playing" /\ host' # "playing"
    BY <1>3 DEF Resume, BeginAttempt, BeginEpisode, Observe, SaveEpisode, Disposition
  <2> QED
    BY <2>1 DEF PlayInv, AnswerIsPlayed, Durable
<1> QED
  BY <1>1, <1>2, <1>3

LEMMA PlayNextInv ==
  ASSUME PlayInv, [Next]_vars
  PROVE  PlayInv'
<1>1. CASE UNCHANGED vars
  BY <1>1 DEF vars, PlayInv, AnswerIsPlayed, Durable, Frame, Current
<1>2. CASE Next
  BY <1>2, OpeningStep, StepStep, RecordStep, StepFailsStep, LoopStep DEF Next
<1> QED
  BY <1>1, <1>2

LEMMA PlayInitInv ==
  ASSUME Init
  PROVE  PlayInv
BY DEF Init, NoRuntime, PlayInv, AnswerIsPlayed, Durable, Replays

\* arc/tools.py: a runtime that will take another action has recorded all the earlier ones,
\* for every game and every failure of the engine, of a record and of the process.
THEOREM PlayIsDurable == Spec => []PlayableIsDurable
<1>1. PlayInv => PlayableIsDurable
  BY DEF PlayInv, Durable, PlayableIsDurable, Recorded
<1> QED
  BY <1>1, PlayInitInv, PlayNextInv, PTL DEF Spec

\* arc/trace.py: the whole records of a trace are a play of the game at any moment, so that
\* a trace whose file is whole always loads and replays.
THEOREM TraceReplays == Spec => []Replays(trace)
<1>1. PlayInv => Replays(trace)
  BY DEF PlayInv
<1> QED
  BY <1>1, PlayInitInv, PlayNextInv, PTL DEF Spec

-----------------------------------------------------------------------------
\* The campaign's counters around the trace.

IsGame(g) ==
    /\ g = [attempt |-> g.attempt, episodes |-> g.episodes, actions |-> g.actions,
            levels |-> g.levels, idle |-> g.idle, errors |-> g.errors,
            supervisor |-> g.supervisor, redirect |-> g.redirect, banked |-> g.banked]
    /\ g.attempt \in 1..(Attempts + 1)
    /\ g.episodes \in 0..Episodes

InAttempt == {"episode", "opening", "playing", "ended", "observed", "over"}
InEpisode == {"opening", "playing", "ended"}

\* An attempt in progress is one of the attempts, an episode in progress one of its
\* episodes, and an action whose record is due is within the budget.
CountInv ==
    /\ IsGame(game) /\ IsGame(saved)
    /\ host \in {"down", "attempt"} \cup InAttempt
    /\ loop \in [left : 0..Episodes, actions : Nat, levels : Nat]
    /\ host \in InAttempt => game.attempt <= Attempts
    /\ host \in {"episode", "observed"} => loop.left + game.episodes <= Episodes
    /\ host \in InEpisode => loop.left + game.episodes < Episodes
    /\ Len(trace) <= action_budget
    /\ rt.at = "stepped" => Len(trace) < action_budget

\* A game that differs from g only in what its trace and its supervisor tell.
SameCounts(g, h) == IsGame(h) /\ h.attempt = g.attempt /\ h.episodes = g.episodes

LEMMA ReconciledCounts ==
  ASSUME NEW g, IsGame(g)
  PROVE  SameCounts(g, Reconciled(g))
<1> DEFINE a == Len(trace)
           b == Levels(trace)
<1> HIDE DEF a, b
<1>1. Reconciled(g) = [g EXCEPT !.actions = a, !.levels = b]
  BY DEF Reconciled, a, b
<1>2. Reconciled(g) = [attempt |-> g.attempt, episodes |-> g.episodes, actions |-> a,
            levels |-> b, idle |-> g.idle, errors |-> g.errors,
            supervisor |-> g.supervisor, redirect |-> g.redirect, banked |-> g.banked]
  BY <1>1 DEF IsGame
<1> QED
  BY <1>2 DEF IsGame, SameCounts

\* What _bank_if_complete leaves of the counters.
LEMMA DispositionCounts ==
  ASSUME NEW g, IsGame(g), NEW otherwise, Disposition(g, otherwise)
  PROVE  /\ SameCounts(g, game') /\ saved' = game'
         /\ host' \in {"down", "over", otherwise}
<1>1. game' = g \/ game' = [g EXCEPT !.banked = TRUE]
  BY DEF Disposition
<1>2. SameCounts(g, g)
  BY DEF SameCounts
<1>3. ASSUME NEW h, h = [g EXCEPT !.banked = TRUE] PROVE SameCounts(g, h)
  <2>1. h = [attempt |-> g.attempt, episodes |-> g.episodes, actions |-> g.actions,
            levels |-> g.levels, idle |-> g.idle, errors |-> g.errors,
            supervisor |-> g.supervisor, redirect |-> g.redirect, banked |-> TRUE]
    BY <1>3 DEF IsGame
  <2> QED
    BY <2>1 DEF IsGame, SameCounts
<1>4. SameCounts(g, game')
  BY <1>1, <1>2, <1>3
<1>5. saved' = game' /\ host' \in {"down", "over", otherwise}
  BY DEF Disposition
<1> QED
  BY <1>4, <1>5

LEMMA LevelsOfTrace ==
  ASSUME PlayInv
  PROVE  Levels(trace) \in Nat /\ Len(trace) \in Nat
<1>1. trace \in Seq(Records) /\ Len(trace) \in Nat
  BY DEF PlayInv
<1>2. FrameAt(trace, Len(trace)) \in Frames
  BY <1>1, FramesOfTrace
<1>3. Len(Baselines) \in Nat
  BY ScoringAssumption
<1> QED
  BY <1>1, <1>2, <1>3, PlayAssumption DEF Levels

LEMMA FreshCounts ==
  ASSUME NEW n \in 1..(Attempts + 1)
  PROVE  IsGame(FreshGame(n)) /\ FreshGame(n).attempt = n /\ FreshGame(n).episodes = 0
<1>1. Episodes \in Nat
  BY PlayAssumption
<1> QED
  BY <1>1 DEF IsGame, FreshGame

-----------------------------------------------------------------------------
\* Steps of the trace: an append only where the record of a legal action is due.
LEMMA TraceCounts ==
  ASSUME PlayInv, CountInv, (\E a \in Actions : Step(a)) \/ StepFails \/ Commit \/ CommitFails
  PROVE  CountInv'
<1>0. Len(trace) \in Nat /\ action_budget \in Nat
  BY LevelsOfTrace, BudgetIsNat
<1>1. UNCHANGED <<host, loop, game, saved>>
  BY DEF Step, StepFails, Commit, CommitFails
<1>2. Len(trace') <= action_budget /\ (rt'.at = "stepped" => Len(trace') < action_budget)
  <2>1. CASE \E a \in Actions : Step(a)
    <3>1. rt.at = "ready" /\ ~rt.fatal /\ action_count < action_budget /\ trace' = trace
      BY <2>1 DEF Step
    <3>2. rt.history = Recorded(trace) /\ trace \in Seq(Records)
      BY <3>1 DEF PlayInv, Durable
    <3>3. action_count = Len(trace)
      <4>1. Len(Recorded(trace)) = Len(trace) + 1
        BY <3>2, RecordedFrames
      <4> QED
        BY <1>0, <3>2, <4>1 DEF action_count
    <3> QED
      BY <1>0, <3>1, <3>3
  <2>2. CASE StepFails
    BY <2>2 DEF StepFails, Answered, CountInv
  <2>3. CASE Commit \/ CommitFails
    <3>1. Len(trace) < action_budget /\ rt'.at = "ready"
      BY <2>3 DEF Commit, CommitFails, Answered, CountInv
    <3>2. trace' = trace \/ trace' = Append(trace, Played)
      BY <2>3 DEF Commit, CommitFails, Landed
    <3>3. Len(trace') \in {Len(trace), Len(trace) + 1}
      BY <3>2 DEF PlayInv
    <3> QED
      BY <1>0, <3>1, <3>3
  <2> QED
    BY <2>1, <2>2, <2>3
<1> QED
  BY <1>1, <1>2 DEF CountInv, IsGame

\* The process ends, at whatever place: the counters are the checkpoint's again.
LEMMA ExitCounts ==
  ASSUME PlayInv, CountInv, Exit, loop' = loop, saved' = saved,
         trace' = trace \/ (rt.at = "stepped" /\ trace' = Append(trace, Played))
  PROVE  CountInv'
<1>0. Len(trace) \in Nat /\ action_budget \in Nat
  BY LevelsOfTrace, BudgetIsNat
<1>1. Len(trace') <= action_budget
  <2>1. CASE trace' = trace
    BY <2>1 DEF CountInv
  <2>2. CASE rt.at = "stepped" /\ trace' = Append(trace, Played)
    <3>1. Len(trace') = Len(trace) + 1 /\ Len(trace) < action_budget
      BY <2>2 DEF PlayInv, CountInv
    <3> QED
      BY <1>0, <3>1
  <2> QED
    BY <2>1, <2>2
<1>2. rt'.at = "none" /\ host' = "down" /\ game' = saved
  BY DEF Exit, NoRuntime
<1> QED
  BY <1>1, <1>2 DEF CountInv, InAttempt, InEpisode, IsGame

LEMMA OpenCounts ==
  ASSUME PlayInv, CountInv, Open \/ Reopen
  PROVE  CountInv'
<1>1. CASE Reopen \/ (Open /\ host' = "playing")
  <2>1. /\ UNCHANGED <<trace, loop, game, saved>>
        /\ host = "opening" /\ host' = "playing" /\ rt'.at = "ready"
    BY <1>1 DEF Open, Reopen, Die, Exit
  <2> QED
    BY <2>1 DEF CountInv, InAttempt, InEpisode, IsGame
<1>2. CASE Open /\ host' # "playing"
  BY <1>2, ExitCounts DEF Open, Die
<1> QED
  BY <1>1, <1>2

\* The steps of the campaign's loop.
LEMMA LoopCounts ==
  ASSUME PlayInv, CountInv,
         \/ Resume \/ BeginAttempt \/ BeginEpisode \/ EndEpisode \/ EpisodeFails \/ Observe
         \/ SaveEpisode \/ AdvanceAttempt
  PROVE  CountInv'
<1>0. /\ Len(trace) \in Nat /\ Levels(trace) \in Nat /\ action_budget \in Nat
      /\ Attempts \in Nat /\ Episodes \in Nat
  BY LevelsOfTrace, BudgetIsNat, PlayAssumption
<1>1. CASE Resume
  BY <1>1 DEF Resume, CountInv, InAttempt, InEpisode, IsGame
<1>2. CASE BeginAttempt
  <2> DEFINE g == Reconciled(game)
  <2>1. SameCounts(game, g)
    BY ReconciledCounts DEF CountInv
  <2>2. Disposition(g, "episode")
    BY <1>2 DEF BeginAttempt
  <2> HIDE DEF g
  <2>3. SameCounts(g, game') /\ saved' = game' /\ host' \in {"down", "over", "episode"}
    BY <2>1, <2>2, DispositionCounts DEF SameCounts
  <2>4. SameCounts(game, game')
    BY <2>1, <2>3 DEF SameCounts
  <2>5. loop' = [loop EXCEPT !.left = Episodes - game.episodes] /\ game.attempt <= Attempts
    BY <1>2 DEF BeginAttempt
  <2>6. Episodes - game.episodes \in 0..Episodes
    BY <1>0 DEF CountInv, IsGame
  <2>7. /\ loop' \in [left : 0..Episodes, actions : Nat, levels : Nat]
        /\ loop'.left = Episodes - game.episodes
    BY <2>5, <2>6 DEF CountInv
  <2>8. UNCHANGED <<trace, rt>>
    BY <1>2 DEF BeginAttempt
  <2>9. game'.episodes \in 0..Episodes /\ loop'.left + game'.episodes <= Episodes
    BY <1>0, <2>4, <2>7 DEF SameCounts, IsGame
  <2> QED
    BY <2>3, <2>4, <2>5, <2>7, <2>8, <2>9 DEF CountInv, InAttempt, InEpisode, SameCounts, IsGame
<1>3. CASE BeginEpisode
  <2>1. CASE loop.left > 0
    <3>1. SameCounts(game, Reconciled(game))
      BY ReconciledCounts DEF CountInv
    <3>2. /\ host = "episode" /\ host' = "opening"
          /\ loop' = [left |-> loop.left - 1, actions |-> Len(trace), levels |-> Levels(trace)]
          /\ game' = Reconciled(game) /\ saved' = Reconciled(game)
          /\ UNCHANGED <<trace, rt>>
      BY <1>3, <2>1 DEF BeginEpisode
    <3>3. loop.left \in 0..Episodes /\ game.episodes \in 0..Episodes
          /\ loop.left + game.episodes <= Episodes /\ game.attempt <= Attempts
      BY <3>2 DEF CountInv, IsGame, InAttempt
    <3>4. /\ loop' \in [left : 0..Episodes, actions : Nat, levels : Nat]
          /\ loop'.left + game.episodes < Episodes
      BY <1>0, <2>1, <3>2, <3>3
    <3> QED
      BY <3>1, <3>2, <3>3, <3>4 DEF CountInv, InAttempt, InEpisode, SameCounts, IsGame
  <2>2. CASE ~(loop.left > 0)
    BY <1>3, <2>2 DEF BeginEpisode, CountInv, InAttempt, InEpisode, IsGame
  <2> QED
    BY <2>1, <2>2
<1>4. CASE EndEpisode
  <2>1. host = "playing" /\ rt'.at = "none"
    BY <1>4 DEF EndEpisode, PlayInv, NoRuntime
  <2> QED
    BY <1>4, <2>1 DEF EndEpisode, CountInv, InAttempt, InEpisode, IsGame
<1>5. CASE EpisodeFails
  <2> DEFINE e == [game EXCEPT !.errors = @ + 1]
             g == Reconciled(e)
             otherwise == IF g.errors >= MaxErrors THEN "over" ELSE "episode"
  <2>1. SameCounts(game, e)
    <3>1. e = [attempt |-> game.attempt, episodes |-> game.episodes, actions |-> game.actions,
            levels |-> game.levels, idle |-> game.idle, errors |-> game.errors + 1,
            supervisor |-> game.supervisor, redirect |-> game.redirect, banked |-> game.banked]
      BY DEF CountInv, IsGame
    <3> HIDE DEF e
    <3> QED
      BY <3>1 DEF CountInv, IsGame, SameCounts
  <2>2. Disposition(g, otherwise) /\ UNCHANGED <<trace, loop>> /\ rt'.at = "none"
    BY <1>5 DEF EpisodeFails, NoRuntime
  <2>3. otherwise \in {"over", "episode"}
    OBVIOUS
  <2>4. host = "playing"
    BY <1>5 DEF EpisodeFails, PlayInv
  <2> HIDE DEF e
  <2>5. SameCounts(e, g)
    BY <2>1, ReconciledCounts DEF SameCounts
  <2> HIDE DEF g, otherwise
  <2>6. SameCounts(g, game') /\ saved' = game' /\ host' \in {"down", "over", "episode"}
    BY <2>2, <2>3, <2>5, DispositionCounts DEF SameCounts
  <2>7. SameCounts(game, game')
    BY <2>1, <2>5, <2>6 DEF SameCounts
  <2>8. loop'.left + game'.episodes <= Episodes /\ game'.attempt <= Attempts
    <3>1. loop.left \in 0..Episodes /\ game.episodes \in 0..Episodes
      BY DEF CountInv, IsGame
    <3>2. loop.left + game.episodes < Episodes /\ game.attempt <= Attempts
      BY <2>4 DEF CountInv, InAttempt, InEpisode
    <3> QED
      BY <1>0, <2>2, <2>7, <3>1, <3>2 DEF SameCounts
  <2> QED
    BY <2>2, <2>6, <2>7, <2>8 DEF CountInv, InAttempt, InEpisode, SameCounts, IsGame
<1>6. CASE Observe
  <2>1. SameCounts(game, Reconciled(game))
    BY ReconciledCounts DEF CountInv
  <2>2. \E supervisor, redirect, idle :
          game' = [Reconciled(game) EXCEPT
                     !.episodes = @ + 1, !.errors = 0, !.idle = idle,
                     !.supervisor = supervisor, !.redirect = redirect]
    <3>1. PICK verified \in BOOLEAN :
            LET delta == Len(trace) - loop.actions
                seen == IF file = "absent" THEN [supervisor |-> sup, redirect |-> NoRedirect]
                        ELSE Observed(sup, loop.actions, verified)
                closed == RecordEpisode(seen.supervisor, delta)
            IN game' = [Reconciled(game) EXCEPT
                          !.episodes = @ + 1, !.errors = 0,
                          !.idle = IF delta = 0 THEN @ + 1 ELSE 0,
                          !.supervisor = closed.supervisor,
                          !.redirect = IF seen.redirect # NoRedirect THEN seen.redirect
                                       ELSE closed.redirect]
      BY <1>6 DEF Observe
    <3> DEFINE delta == Len(trace) - loop.actions
               seen == IF file = "absent" THEN [supervisor |-> sup, redirect |-> NoRedirect]
                       ELSE Observed(sup, loop.actions, verified)
               closed == RecordEpisode(seen.supervisor, delta)
               idle == IF delta = 0 THEN Reconciled(game).idle + 1 ELSE 0
               supervisor == closed.supervisor
               redirect == IF seen.redirect # NoRedirect THEN seen.redirect
                           ELSE closed.redirect
               g == Reconciled(game)
    <3>2. game' = [g EXCEPT !.episodes = @ + 1, !.errors = 0, !.idle = idle,
                            !.supervisor = supervisor, !.redirect = redirect]
      BY <3>1
    <3> HIDE DEF idle, supervisor, redirect, g
    <3>3. \E s, r, i :
            game' = [g EXCEPT !.episodes = @ + 1, !.errors = 0, !.idle = i,
                              !.supervisor = s, !.redirect = r]
      BY <3>2
    <3> QED
      BY <3>3 DEF g
  <2>21. PICK supervisor, redirect, idle :
          game' = [Reconciled(game) EXCEPT
                     !.episodes = @ + 1, !.errors = 0, !.idle = idle,
                     !.supervisor = supervisor, !.redirect = redirect]
    BY <2>2
  <2>3. PICK g : g = Reconciled(game)
    OBVIOUS
  <2>4. game' = [attempt |-> g.attempt, episodes |-> g.episodes + 1, actions |-> g.actions,
            levels |-> g.levels, idle |-> idle, errors |-> 0,
            supervisor |-> supervisor, redirect |-> redirect, banked |-> g.banked]
    BY <2>1, <2>21, <2>3 DEF SameCounts, IsGame
  <2>5. game'.attempt = game.attempt /\ game'.episodes = game.episodes + 1
    BY <2>1, <2>3, <2>4 DEF SameCounts
  <2>6. host = "ended" /\ host' = "observed" /\ UNCHANGED <<trace, rt, loop, saved>>
    BY <1>6 DEF Observe
  <2>7. loop.left \in 0..Episodes /\ game.episodes \in 0..Episodes
        /\ loop.left + game.episodes < Episodes /\ game.attempt <= Attempts
        /\ game.attempt \in 1..(Attempts + 1)
    BY <2>6 DEF CountInv, IsGame, InAttempt, InEpisode
  <2>8. game'.episodes \in 0..Episodes /\ loop'.left + game'.episodes <= Episodes
    BY <1>0, <2>5, <2>6, <2>7
  <2>9. IsGame(game')
    BY <2>4, <2>5, <2>7, <2>8 DEF IsGame
  <2> QED
    BY <2>5, <2>6, <2>7, <2>8, <2>9 DEF CountInv, InAttempt, InEpisode, IsGame
<1>7. CASE SaveEpisode
  <2>1. host = "observed" /\ UNCHANGED <<trace, rt, loop>>
    BY <1>7 DEF SaveEpisode
  <2>2. \E otherwise \in {"over", "episode"} : Disposition(game, otherwise)
    BY <1>7 DEF SaveEpisode
  <2>3. SameCounts(game, game') /\ saved' = game' /\ host' \in {"down", "over", "episode"}
    BY <2>2, DispositionCounts DEF CountInv
  <2> QED
    BY <2>1, <2>3 DEF CountInv, InAttempt, InEpisode, SameCounts, IsGame
<1>8. CASE AdvanceAttempt
  <2>1. /\ host = "over" /\ host' = "attempt" /\ game' = FreshGame(game.attempt + 1)
        /\ saved' = game' /\ trace' = <<>> /\ UNCHANGED <<rt, loop>>
    BY <1>8 DEF AdvanceAttempt
  <2>2. game.attempt + 1 \in 1..(Attempts + 1)
    BY <1>0, <2>1 DEF CountInv, IsGame, InAttempt
  <2>3. IsGame(game')
    BY <2>1, <2>2, FreshCounts
  <2>4. rt.at = "none" /\ Len(trace') = 0
    BY <2>1 DEF PlayInv
  <2> QED
    BY <1>0, <2>1, <2>3, <2>4 DEF CountInv, InAttempt, InEpisode, IsGame
<1> QED
  BY <1>1, <1>2, <1>3, <1>4, <1>5, <1>6, <1>7, <1>8

LEMMA CountNext ==
  ASSUME PlayInv, CountInv, [Next]_vars
  PROVE  CountInv'
<1>1. CASE UNCHANGED vars
  BY <1>1 DEF vars, CountInv, IsGame
<1>2. CASE Refuse \/ Crash
  <2>1. trace' = trace \/ (rt.at = "stepped" /\ trace' = Append(trace, Played))
    BY <1>2 DEF Refuse, Crash, Landed
  <2> QED
    BY <1>2, <2>1, ExitCounts DEF Refuse, Crash, Die
<1> QED
  BY <1>1, <1>2, TraceCounts, OpenCounts, LoopCounts DEF Next

LEMMA CountInit ==
  ASSUME Init
  PROVE  CountInv
<1>1. IsGame(FreshGame(1))
  BY FreshCounts, PlayAssumption
<1>2. First.levels \in Nat
  <2>1. Len(Baselines) \in Nat
    BY ScoringAssumption
  <2> QED
    BY <2>1, PlayAssumption
<1>3. loop \in [left : 0..Episodes, actions : Nat, levels : Nat]
  BY <1>2, PlayAssumption DEF Init
<1>4. Len(trace) <= action_budget /\ rt.at = "none"
  BY BudgetIsNat DEF Init, NoRuntime
<1> QED
  BY <1>1, <1>3, <1>4 DEF Init, CountInv, InAttempt, InEpisode

\* A won game offers no action, so a replay cannot go past a win.
LEMMA WinIsLast ==
  ASSUME PlayInv
  PROVE  \A n \in DOMAIN trace : trace[n].frame.status = "WIN" => n = Len(trace)
<1> SUFFICES ASSUME NEW n \in DOMAIN trace, trace[n].frame.status = "WIN", n # Len(trace)
             PROVE  FALSE
  OBVIOUS
<1>1. trace \in Seq(Records) /\ Replays(trace)
  BY DEF PlayInv
<1>2. n \in 1..Len(trace) /\ n + 1 \in DOMAIN trace /\ n # 0 /\ (n + 1) - 1 = n
  BY <1>1
<1>3. FrameAt(trace, n) = trace[n].frame /\ FrameAt(trace, n) \in Frames
  BY <1>1, <1>2, FramesOfTrace DEF FrameAt
<1>4. trace[n + 1].action \in Legal(FrameAt(trace, n))
  BY <1>1, <1>2 DEF Replays
<1> QED
  BY <1>3, <1>4, PlayAssumption

\* arc/tools.py and arc/trace.py: the durable trace of an attempt is a play of the game
\* within the private budget that stops at a win, and the loop around it keeps to its
\* episodes and attempts, through failed steps, failed records, crashes and resumes.
THEOREM TraceStaysPlayed == Spec => []TraceIsPlayed
<1>1. PlayInv /\ CountInv => TraceIsPlayed
  <2> SUFFICES ASSUME PlayInv, CountInv PROVE TraceIsPlayed
    OBVIOUS
  <2>1. PlayTypeOK
    BY DEF PlayTypeOK, PlayInv, CountInv, IsGame, InAttempt, Records
  <2> QED
    BY <2>1, WinIsLast DEF TraceIsPlayed, PlayInv, CountInv
<1>2. Init => PlayInv /\ CountInv
  BY PlayInitInv, CountInit
<1>3. PlayInv /\ CountInv /\ [Next]_vars => PlayInv' /\ CountInv'
  BY PlayNextInv, CountNext
<1> QED
  BY <1>1, <1>2, <1>3, PTL DEF Spec

-----------------------------------------------------------------------------
\* The score of a play.

LEMMA PlayScores ==
  ASSUME PlayInv
  PROVE  ScoreIsEarned
<1> DEFINE m == Len(trace)
           charged == actions_per_completed_level(Progress)
           last == Total(charged)
           completing == {n \in DOMAIN trace :
                            trace[n].frame.levels > FrameAt(trace, n - 1).levels}
<1>1. trace \in Seq(Records) /\ m \in Nat /\ DOMAIN trace = 1..m /\ Replays(trace)
  BY DEF PlayInv
<1>2. \A n \in 0..m : /\ FrameAt(trace, n) \in Frames
                      /\ FrameAt(trace, n).levels \in 0..Len(Baselines)
  <2>1. \A n \in 0..m : FrameAt(trace, n) \in Frames
    BY <1>1, FramesOfTrace
  <2> QED
    BY <2>1, PlayAssumption
<1>3. Len(Baselines) \in Nat \ {0} /\ First.levels = 0
  BY ScoringAssumption, PlayAssumption
<1> HIDE DEF m
<1>4. \A n \in 1..m : n \in 0..m /\ FrameAt(trace, n) = trace[n].frame
  BY <1>1 DEF FrameAt
<1>5. Progress \in Seq(Nat) /\ Len(Progress) = m
  <2>1. \A n \in 1..m : trace[n].frame.levels \in Nat
    BY <1>2, <1>3, <1>4
  <2>2. Progress \in [1..m -> Nat]
    BY <1>1, <2>1 DEF Progress
  <2> QED
    BY <1>1, <2>2, SeqDef
<1>6. \A n \in 0..m : Reached(Progress, n) = FrameAt(trace, n).levels
  <2> SUFFICES ASSUME NEW n \in 0..m
               PROVE  Reached(Progress, n) = FrameAt(trace, n).levels
    OBVIOUS
  <2>1. CASE n = 0
    BY <1>3, <2>1 DEF Reached, FrameAt
  <2>2. CASE n # 0
    <3>1. n \in 1..m
      BY <1>1, <2>2
    <3> QED
      BY <1>1, <1>4, <2>2, <3>1 DEF Reached, Progress
  <2> QED
    BY <2>1, <2>2
<1>7. \A n \in 1..m : Reached(Progress, n) >= Reached(Progress, n - 1)
  <2> SUFFICES ASSUME NEW n \in 1..m
               PROVE  Reached(Progress, n) >= Reached(Progress, n - 1)
    OBVIOUS
  <2>1. n \in 0..m /\ n - 1 \in 0..m
    BY <1>1
  <2>2. PICK f \in Frames : f = FrameAt(trace, n - 1)
    BY <1>2, <2>1
  <2>3. trace[n].action \in Legal(f) /\ trace[n].frame = Apply(f, trace[n].action)
    BY <1>1, <2>2 DEF Replays
  <2>4. trace[n].frame.levels >= f.levels
    BY <2>3, PlayAssumption
  <2> QED
    BY <1>4, <1>6, <2>1, <2>2, <2>4
<1>8. completing = {n \in 1..m : Completes(Progress, n)}
  <2>1. \A n \in 1..m : n - 1 \in 0..m
    BY <1>1
  <2>2. \A n \in 1..m : Completes(Progress, n)
                           <=> trace[n].frame.levels > FrameAt(trace, n - 1).levels
    BY <1>4, <1>6, <2>1 DEF Completes
  <2> QED
    BY <1>1, <2>2
<1>9. /\ charged \in Seq(Nat) /\ Len(charged) = Reached(Progress, m)
      /\ \/ last = 0 /\ charged = <<>>
         \/ last \in 1..m /\ Completes(Progress, last)
      /\ \A n \in 1..m : Completes(Progress, n) => n <= last
  BY <1>5, <1>7, ChargesAreActions
<1> HIDE DEF charged, last, completing
<1>10. Len(charged) = Levels(trace) /\ Len(charged) <= Len(Baselines)
  <2>1. m \in 0..m
    BY <1>1
  <2> QED
    BY <1>2, <1>3, <1>6, <1>9, <2>1 DEF Levels, m
<1>11. completing = {} => charged = <<>>
  BY <1>8, <1>9
<1>12. completing # {} => last \in completing /\ \A n \in completing : n <= last
  <2>1. ASSUME completing # {} PROVE last # 0
    <3>1. PICK n \in 1..m : Completes(Progress, n)
      BY <1>8, <2>1
    <3> QED
      BY <1>1, <1>9, <3>1
  <2> QED
    BY <1>8, <1>9, <2>1
<1>13. /\ Score <= Perfect
       /\ Score = Perfect => /\ Len(charged) = Len(Baselines)
                             /\ \A level \in DOMAIN charged : charged[level] > 0
  BY <1>9, <1>10, PerfectIsWhole DEF Score, charged
<1>14. Len(charged) = Len(Baselines) => Won
  <2> SUFFICES ASSUME Len(charged) = Len(Baselines) PROVE Won
    OBVIOUS
  <2>1. Current \in Frames /\ Current.levels = Len(Baselines)
    BY <1>1, <1>2, <1>10 DEF Current, Levels, m
  <2>2. m # 0
    BY <1>3, <2>1 DEF Current, FrameAt, m
  <2> QED
    BY <1>1, <2>1, <2>2, PlayAssumption DEF Won, m
<1> QED
  BY <1>10, <1>11, <1>12, <1>13, <1>14 DEF ScoreIsEarned, charged, last, completing

\* arc/scoring.py and campaign_runner.py: the score of a game rests on actions that were
\* played, for every game, every trace and every table of baselines.
THEOREM ScoreStaysEarned == Spec => []ScoreIsEarned
BY PlayInitInv, PlayNextInv, PlayScores, PTL DEF Spec

-----------------------------------------------------------------------------
\* What a supervisor was shown.

Supervisors ==
    [noChange : Nat, noChangeFired : BOOLEAN, signature : Nat, deaths : Nat,
     deathFired : BOOLEAN, sinceProgress : Nat, sinceEvidence : Nat, plateauFired : BOOLEAN,
     zero : Nat, zeroFired : BOOLEAN, shown : Seq(Nat)]

Redirects == {NoRedirect, "NO_STATE_CHANGE", "REPEATED_DEATH", "PROGRESS_PLATEAU"}
Outcomes == [supervisor : Supervisors, redirect : Redirects]

\* The transitions that leave the cell, or the levels, as they were.
Unmoving(steps) ==
    {n \in 1..Len(steps) : FrameAt(steps, n).cell = FrameAt(steps, n - 1).cell}
Unadvancing(steps) ==
    {n \in 1..Len(steps) : FrameAt(steps, n).levels = FrameAt(steps, n - 1).levels}

\* Of 1..k the last `count' are in S, and no more.
Trails(count, k, S) ==
    /\ count \in 0..k
    /\ \A n \in 1..k : n > k - count => n \in S
    /\ count < k => k - count \notin S

ShownAll(s) == \A i \in DOMAIN s.shown : s.shown[i] = i

\* One transition after another, and stalls that are the trace's while none was skipped.
Faithful(steps, s) ==
    /\ \A i \in DOMAIN s.shown : s.shown[i] \in 1..Len(steps)
    /\ \A i, j \in DOMAIN s.shown : i < j => s.shown[i] < s.shown[j]
    /\ ShownAll(s) => /\ Trails(s.noChange, Len(s.shown), Unmoving(steps))
                      /\ Trails(s.sinceProgress, Len(s.shown), Unadvancing(steps))

\* Two supervisors that were shown the same and count the same.
Alike(s, t) ==
    t.shown = s.shown /\ t.noChange = s.noChange /\ t.sinceProgress = s.sinceProgress

LEMMA AlikeFaithful ==
  ASSUME NEW s, NEW t, NEW steps, Alike(s, t), Faithful(steps, s)
  PROVE  Faithful(steps, t)
BY DEF Alike, Faithful, ShownAll

LEMMA FreshIsFaithful ==
  ASSUME NEW steps, Len(steps) \in Nat
  PROVE  FreshSupervisor \in Supervisors /\ Faithful(steps, FreshSupervisor)
<1>1. FreshSupervisor \in Supervisors
  BY DEF FreshSupervisor, Supervisors
<1>2. /\ FreshSupervisor.shown = <<>> /\ FreshSupervisor.noChange = 0
      /\ FreshSupervisor.sinceProgress = 0
  BY DEF FreshSupervisor
<1>3. DOMAIN <<>> = {} /\ Len(<<>>) = 0
  OBVIOUS
<1>4. \A S : Trails(0, 0, S)
  BY DEF Trails
<1> QED
  BY <1>1, <1>2, <1>3, <1>4 DEF Faithful

LEMMA TrailsGoOn ==
  ASSUME NEW count, NEW k \in Nat, NEW S, Trails(count, k, S), NEW next,
         next = IF k + 1 \in S THEN count + 1 ELSE 0
  PROVE  Trails(next, k + 1, S)
<1>1. CASE k + 1 \in S
  <2>1. next = count + 1 /\ count \in 0..k
    BY <1>1 DEF Trails
  <2>2. \A n \in 1..(k + 1) : n > k - count => n \in S
    BY <1>1, <2>1 DEF Trails
  <2> QED
    BY <2>1, <2>2 DEF Trails
<1>2. CASE k + 1 \notin S
  BY <1>2 DEF Trails
<1> QED
  BY <1>1, <1>2

-----------------------------------------------------------------------------
\* record_transition

LEMMA CountedShows ==
  ASSUME NEW s \in Supervisors, NEW n \in Nat, NEW progress \in BOOLEAN,
         NEW evidence \in BOOLEAN, NEW unchanged,
         unchanged <=> FrameAt(trace, n).cell = FrameAt(trace, n - 1).cell
  PROVE  LET c == Counted(s, n, progress, evidence) IN
         /\ c \in Supervisors
         /\ c.shown = Append(s.shown, n)
         /\ c.noChange = IF unchanged THEN s.noChange + 1 ELSE 0
         /\ c.sinceProgress = IF progress THEN 0 ELSE s.sinceProgress + 1
<1> DEFINE same == FrameAt(trace, n).cell = FrameAt(trace, n - 1).cell
           death == FrameAt(trace, n).status = "GAME_OVER"
           sameDeath == death /\ s.signature = n
           shown == Append(s.shown, n)
           sinceProgress == IF progress THEN 0 ELSE s.sinceProgress + 1
           sinceEvidence == IF evidence THEN 0 ELSE s.sinceEvidence + 1
           plateauFired == s.plateauFired /\ ~progress /\ ~evidence
           noChange == IF same THEN s.noChange + 1 ELSE 0
           noChangeFired == s.noChangeFired /\ same
           signature == IF death THEN n ELSE s.signature
           deaths == IF sameDeath THEN s.deaths + 1 ELSE IF death THEN 1 ELSE s.deaths
           deathFired == s.deathFired /\ (death => sameDeath)
<1>1. s = [noChange |-> s.noChange, noChangeFired |-> s.noChangeFired,
           signature |-> s.signature, deaths |-> s.deaths, deathFired |-> s.deathFired,
           sinceProgress |-> s.sinceProgress, sinceEvidence |-> s.sinceEvidence,
           plateauFired |-> s.plateauFired, zero |-> s.zero, zeroFired |-> s.zeroFired,
           shown |-> s.shown]
  BY DEF Supervisors
<1>2. /\ s.noChange \in Nat /\ s.signature \in Nat /\ s.deaths \in Nat
      /\ s.sinceProgress \in Nat /\ s.sinceEvidence \in Nat /\ s.zero \in Nat
      /\ s.zeroFired \in BOOLEAN /\ s.shown \in Seq(Nat)
  BY DEF Supervisors
<1>3. /\ shown \in Seq(Nat) /\ sinceProgress \in Nat /\ sinceEvidence \in Nat
      /\ noChange \in Nat /\ signature \in Nat /\ deaths \in Nat
  BY <1>2
<1>4. plateauFired \in BOOLEAN /\ noChangeFired \in BOOLEAN /\ deathFired \in BOOLEAN
  OBVIOUS
<1>5. noChange = IF unchanged THEN s.noChange + 1 ELSE 0
  OBVIOUS
<1>6. Counted(s, n, progress, evidence)
        = [s EXCEPT !.shown = shown, !.sinceProgress = sinceProgress,
                    !.sinceEvidence = sinceEvidence, !.plateauFired = plateauFired,
                    !.noChange = noChange, !.noChangeFired = noChangeFired,
                    !.signature = signature, !.deaths = deaths, !.deathFired = deathFired]
  BY DEF Counted
<1> HIDE DEF shown, sinceEvidence, plateauFired, noChange, noChangeFired, signature,
             deaths, deathFired, sinceProgress
<1>7. Counted(s, n, progress, evidence)
        = [noChange |-> noChange, noChangeFired |-> noChangeFired, signature |-> signature,
           deaths |-> deaths, deathFired |-> deathFired, sinceProgress |-> sinceProgress,
           sinceEvidence |-> sinceEvidence, plateauFired |-> plateauFired, zero |-> s.zero,
           zeroFired |-> s.zeroFired, shown |-> shown]
  BY <1>1, <1>6
<1>8. Counted(s, n, progress, evidence) \in Supervisors
  BY <1>2, <1>3, <1>4, <1>7 DEF Supervisors
<1> QED
  BY <1>5, <1>7, <1>8 DEF shown, sinceProgress

\* The flag a redirect raises is no count.
LEMMA FiredIsAlike ==
  ASSUME NEW s \in Supervisors
  PROVE  /\ [s EXCEPT !.noChangeFired = TRUE] \in Supervisors
         /\ Alike(s, [s EXCEPT !.noChangeFired = TRUE])
         /\ [s EXCEPT !.deathFired = TRUE] \in Supervisors
         /\ Alike(s, [s EXCEPT !.deathFired = TRUE])
         /\ [s EXCEPT !.plateauFired = TRUE] \in Supervisors
         /\ Alike(s, [s EXCEPT !.plateauFired = TRUE])
         /\ Alike(s, s)
BY DEF Supervisors, Alike

LEMMA TransitionShows ==
  ASSUME NEW s \in Supervisors, NEW n \in Nat, NEW evidence \in BOOLEAN
  PROVE  LET r == RecordTransition(s, n, evidence) IN
         /\ r \in Outcomes
         /\ r.supervisor.shown = Append(s.shown, n)
         /\ r.supervisor.noChange = IF FrameAt(trace, n).cell = FrameAt(trace, n - 1).cell
                                    THEN s.noChange + 1 ELSE 0
         /\ r.supervisor.sinceProgress = IF FrameAt(trace, n).levels > FrameAt(trace, n - 1).levels
                                         THEN 0 ELSE s.sinceProgress + 1
<1> DEFINE unchanged == FrameAt(trace, n).cell = FrameAt(trace, n - 1).cell
           progress == FrameAt(trace, n).levels > FrameAt(trace, n - 1).levels
           r == RecordTransition(s, n, evidence)
<1>1. progress \in BOOLEAN
  OBVIOUS
<1> HIDE DEF progress, unchanged
<1>2. PICK c : c = Counted(s, n, progress, evidence)
  OBVIOUS
<1>3. /\ c \in Supervisors
      /\ c.shown = Append(s.shown, n)
      /\ c.noChange = IF unchanged THEN s.noChange + 1 ELSE 0
      /\ c.sinceProgress = IF progress THEN 0 ELSE s.sinceProgress + 1
  <2>1. unchanged <=> FrameAt(trace, n).cell = FrameAt(trace, n - 1).cell
    BY DEF unchanged
  <2> QED
    BY <1>1, <1>2, <2>1, CountedShows
<1>4. \E t \in Supervisors, redirect \in Redirects :
         Alike(c, t) /\ r = [supervisor |-> t, redirect |-> redirect]
  <2>1. \/ r = [supervisor |-> [c EXCEPT !.noChangeFired = TRUE], redirect |-> "NO_STATE_CHANGE"]
        \/ r = [supervisor |-> [c EXCEPT !.deathFired = TRUE], redirect |-> "REPEATED_DEATH"]
        \/ r = [supervisor |-> [c EXCEPT !.plateauFired = TRUE], redirect |-> "PROGRESS_PLATEAU"]
        \/ r = [supervisor |-> c, redirect |-> NoRedirect]
    BY <1>2, Zenon DEF RecordTransition, progress
  <2>2. {"NO_STATE_CHANGE", "REPEATED_DEATH", "PROGRESS_PLATEAU", NoRedirect} \subseteq Redirects
    BY DEF Redirects
  <2>3. \A t \in Supervisors, redirect \in Redirects :
           Alike(c, t) /\ r = [supervisor |-> t, redirect |-> redirect]
           => \E t1 \in Supervisors, d \in Redirects :
                 Alike(c, t1) /\ r = [supervisor |-> t1, redirect |-> d]
    OBVIOUS
  <2> HIDE DEF r
  <2> QED
    BY <1>3, <2>1, <2>2, <2>3, FiredIsAlike, Zenon
<1>5. PICK t \in Supervisors, redirect \in Redirects :
         Alike(c, t) /\ r = [supervisor |-> t, redirect |-> redirect]
  BY <1>4
<1> HIDE DEF r
<1>6. r \in Outcomes /\ r.supervisor = t
  BY <1>5 DEF Outcomes
<1>7. /\ t.shown = Append(s.shown, n)
      /\ t.noChange = IF unchanged THEN s.noChange + 1 ELSE 0
      /\ t.sinceProgress = IF progress THEN 0 ELSE s.sinceProgress + 1
  BY <1>3, <1>5 DEF Alike
<1> QED
  BY <1>6, <1>7 DEF r, unchanged, progress

\* What is known of a supervisor that was shown nothing after `upto'.
SeenUpTo(s, upto) ==
    /\ s \in Supervisors /\ Faithful(trace, s)
    /\ \A i \in DOMAIN s.shown : s.shown[i] <= upto

\* A game never loses a level.
LEMMA LevelsStay ==
  ASSUME PlayInv, NEW n \in 1..Len(trace)
  PROVE  /\ FrameAt(trace, n).levels \in Nat /\ FrameAt(trace, n - 1).levels \in Nat
         /\ FrameAt(trace, n).levels >= FrameAt(trace, n - 1).levels
<1>1. trace \in Seq(Records) /\ Len(trace) \in Nat /\ n \in DOMAIN trace
  BY DEF PlayInv
<1>2. n \in 0..Len(trace) /\ n - 1 \in 0..Len(trace) /\ n # 0
  BY <1>1
<1>3. FrameAt(trace, n) \in Frames
  BY <1>1, <1>2, FramesOfTrace
<1>4. PICK f \in Frames : f = FrameAt(trace, n - 1)
  BY <1>1, <1>2, FramesOfTrace
<1>5. Len(Baselines) \in Nat
  BY ScoringAssumption
<1>6. trace[n].action \in Legal(f) /\ trace[n].frame = Apply(f, trace[n].action)
  BY <1>1, <1>4 DEF PlayInv, Replays
<1>7. FrameAt(trace, n) = trace[n].frame
  BY <1>2 DEF FrameAt
<1>8. FrameAt(trace, n).levels >= f.levels
  BY <1>6, <1>7, PlayAssumption
<1> QED
  BY <1>3, <1>4, <1>5, <1>8, PlayAssumption

\* The next transition is seen after the earlier ones.
LEMMA TransitionIsFaithful ==
  ASSUME PlayInv, NEW s, NEW upto \in Nat, SeenUpTo(s, upto), upto + 1 <= Len(trace),
         NEW evidence \in BOOLEAN
  PROVE  LET r == RecordTransition(s, upto + 1, evidence) IN
         r \in Outcomes /\ SeenUpTo(r.supervisor, upto + 1)
<1>1. PICK n \in Nat : n = upto + 1
  OBVIOUS
<1>2. /\ s \in Supervisors /\ s.shown \in Seq(Nat) /\ Faithful(trace, s)
      /\ \A i \in DOMAIN s.shown : s.shown[i] <= upto
      /\ Len(trace) \in Nat /\ n \in 1..Len(trace)
  BY <1>1 DEF SeenUpTo, Supervisors, PlayInv
<1> DEFINE k == Len(s.shown)
           r == RecordTransition(s, n, evidence)
           still == FrameAt(trace, n).cell = FrameAt(trace, n - 1).cell
           progress == FrameAt(trace, n).levels > FrameAt(trace, n - 1).levels
<1>3. /\ r \in Outcomes /\ r.supervisor.shown = Append(s.shown, n)
      /\ r.supervisor.noChange = IF still THEN s.noChange + 1 ELSE 0
      /\ r.supervisor.sinceProgress = IF progress THEN 0 ELSE s.sinceProgress + 1
  BY <1>2, TransitionShows
<1>4. PICK t \in Supervisors : t = r.supervisor
  BY <1>3 DEF Outcomes
<1>5. /\ k \in Nat /\ DOMAIN s.shown = 1..k /\ DOMAIN t.shown = 1..(k + 1)
      /\ t.shown[k + 1] = n /\ \A i \in 1..k : t.shown[i] = s.shown[i]
      /\ Len(t.shown) = k + 1
      /\ \A i \in 1..k : s.shown[i] \in Nat
  <2>1. PICK u \in Seq(Nat) : u = s.shown
    BY <1>2
  <2>2. PICK v : v = t.shown
    OBVIOUS
  <2>3. v = Append(u, n)
    BY <1>3, <1>4, <2>1, <2>2
  <2>4. /\ Len(u) \in Nat /\ DOMAIN u = 1..Len(u) /\ \A i \in 1..Len(u) : u[i] \in Nat
        /\ v \in Seq(Nat) /\ Len(v) = Len(u) + 1 /\ v[Len(u) + 1] = n
        /\ \A i \in 1..Len(u) : v[i] = u[i]
    BY <1>2, <2>3, AppendProperties
  <2>5. DOMAIN v = 1..(Len(u) + 1)
    BY <2>4
  <2> QED
    BY <2>1, <2>2, <2>4, <2>5
<1>6. still <=> n \in Unmoving(trace)
  BY <1>2 DEF Unmoving
<1>7. ~progress <=> n \in Unadvancing(trace)
  BY <1>2, LevelsStay DEF Unadvancing
<1> HIDE DEF k, still, progress, r
<1>8. \A i \in 1..(k + 1) : t.shown[i] \in 1..Len(trace) /\ t.shown[i] <= n
  <2> SUFFICES ASSUME NEW i \in 1..(k + 1)
               PROVE  t.shown[i] \in 1..Len(trace) /\ t.shown[i] <= n
    OBVIOUS
  <2>1. CASE i = k + 1
    BY <1>2, <1>5, <2>1
  <2>2. CASE i \in 1..k
    <3>1. s.shown[i] <= upto /\ s.shown[i] \in 1..Len(trace)
      BY <1>2, <1>5, <2>2 DEF Faithful
    <3> QED
      BY <1>1, <1>2, <1>5, <2>2, <3>1
  <2> QED
    BY <1>5, <2>1, <2>2
<1>9. \A i, j \in 1..(k + 1) : i < j => t.shown[i] < t.shown[j]
  <2> SUFFICES ASSUME NEW i \in 1..(k + 1), NEW j \in 1..(k + 1), i < j
               PROVE  t.shown[i] < t.shown[j]
    OBVIOUS
  <2>1. i \in 1..k /\ t.shown[i] = s.shown[i] /\ s.shown[i] <= upto /\ s.shown[i] \in Nat
    <3>1. i \in 1..k
      BY <1>5
    <3>2. s.shown[i] <= upto
      BY <1>2, <1>5, <3>1
    <3> QED
      BY <1>5, <3>1, <3>2
  <2>2. CASE j = k + 1
    BY <1>1, <1>5, <2>1, <2>2
  <2>3. CASE j \in 1..k
    <3>1. s.shown[i] < s.shown[j]
      BY <1>2, <1>5, <2>1, <2>3 DEF Faithful
    <3> QED
      BY <1>5, <2>1, <2>3, <3>1
  <2> QED
    BY <1>5, <2>2, <2>3
<1>10. ASSUME ShownAll(t)
       PROVE  /\ Trails(t.noChange, k + 1, Unmoving(trace))
              /\ Trails(t.sinceProgress, k + 1, Unadvancing(trace))
  <2>1. n = k + 1 /\ ShownAll(s)
    <3>1. \A i \in 1..(k + 1) : t.shown[i] = i
      BY <1>5, <1>10 DEF ShownAll
    <3>2. n = k + 1
      BY <1>5, <3>1
    <3>3. \A i \in 1..k : s.shown[i] = i
      BY <1>5, <3>1
    <3> QED
      BY <1>5, <3>2, <3>3 DEF ShownAll
  <2>2. /\ Trails(s.noChange, k, Unmoving(trace))
        /\ Trails(s.sinceProgress, k, Unadvancing(trace))
    BY <1>2, <2>1 DEF Faithful, k
  <2>3. t.noChange = IF k + 1 \in Unmoving(trace) THEN s.noChange + 1 ELSE 0
    BY <1>3, <1>4, <1>6, <2>1
  <2>4. t.sinceProgress = IF k + 1 \in Unadvancing(trace) THEN s.sinceProgress + 1 ELSE 0
    BY <1>3, <1>4, <1>7, <2>1
  <2> QED
    BY <1>5, <2>2, <2>3, <2>4, TrailsGoOn
<1>11. Faithful(trace, t)
  BY <1>5, <1>8, <1>9, <1>10 DEF Faithful
<1>12. SeenUpTo(t, n)
  BY <1>5, <1>8, <1>11 DEF SeenUpTo
<1> QED
  BY <1>1, <1>3, <1>4, <1>12 DEF r

-----------------------------------------------------------------------------
\* _observe_supervisor

\* One more transition, unless one before it has redirected.
Watched(acc, n, evidence) ==
    IF acc.redirect # NoRedirect THEN acc ELSE RecordTransition(acc.supervisor, n, evidence)

\* The recursive function of Observed watches transition by transition.
LEMMA ObservedFollows ==
  ASSUME PlayInv, NEW s \in Supervisors, NEW start \in 0..Len(trace), NEW verified \in BOOLEAN
  PROVE  \E f \in [0..(Len(trace) - start) -> Outcomes] :
            /\ f[0] = [supervisor |-> s, redirect |-> NoRedirect]
            /\ \A i \in 1..(Len(trace) - start) :
                  f[i] = Watched(f[i - 1], start + i, verified /\ i = 1)
            /\ Observed(s, start, verified) = f[Len(trace) - start]
<1> DEFINE m == Len(trace) - start
           begin == [supervisor |-> s, redirect |-> NoRedirect]
           step == [i \in 1..m |-> [acc \in Outcomes |->
                                       Watched(acc, start + i, verified /\ i = 1)]]
           After(f) == [i \in 0..m |->
                          IF i = 0 THEN [supervisor |-> s, redirect |-> NoRedirect]
                          ELSE LET acc == f[i - 1] IN
                               IF acc.redirect # NoRedirect THEN acc
                               ELSE RecordTransition(acc.supervisor, start + i, verified /\ i = 1)]
           after == CHOOSE f : f = After(f)
<1>1. m \in Nat /\ start \in Nat
  BY DEF PlayInv
<1>2. Observed(s, start, verified) = after[m]
  BY DEF Observed
<1> HIDE DEF m
<1>3. \A i \in 1..m : \A acc \in Outcomes :
         Watched(acc, start + i, verified /\ i = 1) \in Outcomes
  <2> SUFFICES ASSUME NEW i \in 1..m, NEW acc \in Outcomes
               PROVE  Watched(acc, start + i, verified /\ i = 1) \in Outcomes
    OBVIOUS
  <2>1. PICK n \in Nat : n = start + i
    BY <1>1
  <2>2. PICK evidence \in BOOLEAN : evidence <=> (verified /\ i = 1)
    <3> DEFINE e == verified /\ i = 1
    <3>1. e \in BOOLEAN
      OBVIOUS
    <3> QED
      BY <3>1
  <2>3. acc.supervisor \in Supervisors
    BY DEF Outcomes
  <2>4. RecordTransition(acc.supervisor, n, evidence) \in Outcomes
    BY <2>3, TransitionShows
  <2> QED
    BY <2>1, <2>2, <2>4 DEF Watched
<1>4. /\ step \in Steps(m, Outcomes)
      /\ \A i \in 1..m : \A acc \in Outcomes :
            step[i][acc] = Watched(acc, start + i, verified /\ i = 1)
  BY <1>3 DEF Steps
<1>5. begin \in Outcomes
  BY DEF Outcomes, Redirects
<1> HIDE DEF step
<1>6. PICK f \in [0..m -> Outcomes] : Follows(f, begin, m, step)
  BY <1>1, <1>4, <1>5, RecursionExists
<1>7. f[0] = begin /\ \A i \in 1..m : f[i] = Watched(f[i - 1], start + i, verified /\ i = 1)
  <2>1. \A i \in 1..m : f[i - 1] \in Outcomes
    BY <1>1
  <2> QED
    BY <1>4, <1>6, <2>1 DEF Follows
<1>8. f = After(f)
  <2>1. \A i \in 0..m : f[i] = After(f)[i]
    BY <1>1, <1>7 DEF Watched
  <2>2. f = [i \in 0..m |-> f[i]]
    OBVIOUS
  <2>3. After(f) = [i \in 0..m |-> After(f)[i]]
    OBVIOUS
  <2> QED
    BY <2>1, <2>2, <2>3
<1>9. after = After(after)
  <2> HIDE DEF After
  <2> QED
    BY <1>8
<1> HIDE DEF after
<1>10. /\ after[0] = begin
       /\ \A i \in 1..m : after[i] = Watched(after[i - 1], start + i, verified /\ i = 1)
       /\ after = [i \in 0..m |-> after[i]]
  <2>1. \A i \in 0..m : after[i] = After(after)[i]
    BY <1>9
  <2>2. \A i \in 1..m : i \in 0..m /\ i # 0
    BY <1>1
  <2>3. 0 \in 0..m
    BY <1>1
  <2> QED
    BY <1>9, <2>1, <2>2, <2>3 DEF Watched
<1>11. after \in [0..m -> Outcomes]
  <2>1. \A i \in 1..m : after[i - 1] \in Outcomes => after[i] = step[i][after[i - 1]]
    BY <1>4, <1>10
  <2> HIDE DEF After, begin
  <2>2. Staying(after, begin, m, step, Outcomes)
    BY <1>10, <2>1 DEF Staying
  <2> QED
    BY <1>1, <1>4, <1>5, <2>2, RecursionStays
<1> QED
  BY <1>2, <1>10, <1>11 DEF m

\* The supervisor of an episode's end is faithful to the trace.
LEMMA ObservedIsFaithful ==
  ASSUME PlayInv, NEW start \in 0..Len(trace), NEW s, SeenUpTo(s, start),
         NEW verified \in BOOLEAN
  PROVE  /\ Observed(s, start, verified) \in Outcomes
         /\ SeenUpTo(Observed(s, start, verified).supervisor, Len(trace))
<1> DEFINE m == Len(trace) - start
<1>1. m \in Nat /\ start \in Nat /\ start + m = Len(trace) /\ Len(trace) \in Nat
      /\ s \in Supervisors
  BY DEF PlayInv, SeenUpTo
<1>2. PICK f \in [0..m -> Outcomes] :
            /\ f[0] = [supervisor |-> s, redirect |-> NoRedirect]
            /\ \A i \in 1..m : f[i] = Watched(f[i - 1], start + i, verified /\ i = 1)
            /\ Observed(s, start, verified) = f[m]
  BY <1>1, ObservedFollows
<1> HIDE DEF m
<1> DEFINE In(n) == SeenUpTo(f[n].supervisor, start + n)
           T == {n \in Nat : n <= m => In(n)}
<1>3. In(0)
  <2>1. f[0].supervisor = s /\ start + 0 = start
    BY <1>1, <1>2
  <2> QED
    BY <2>1
<1>4. ASSUME NEW n \in Nat, n + 1 <= m, In(n) PROVE In(n + 1)
  <2>1. n \in 0..m /\ n + 1 \in 1..m /\ (n + 1) - 1 = n
    BY <1>1, <1>4
  <2>2. PICK acc \in Outcomes : acc = f[n]
    BY <2>1
  <2>3. PICK upto \in Nat : upto = start + n
    BY <1>1
  <2>4. upto + 1 = start + (n + 1) /\ upto + 1 <= Len(trace)
    BY <1>1, <1>4, <2>3
  <2>5. SeenUpTo(acc.supervisor, upto)
    BY <1>4, <2>2, <2>3
  <2>6. PICK evidence \in BOOLEAN : evidence <=> (verified /\ n + 1 = 1)
    <3> DEFINE e == verified /\ n + 1 = 1
    <3>1. e \in BOOLEAN
      OBVIOUS
    <3> QED
      BY <3>1
  <2>7. f[n + 1] = Watched(acc, upto + 1, evidence)
    <3>1. f[n + 1] = Watched(acc, start + (n + 1), verified /\ n + 1 = 1)
      BY <1>2, <2>1, <2>2
    <3> QED
      BY <2>4, <2>6, <3>1 DEF Watched
  <2>8. SeenUpTo(f[n + 1].supervisor, upto + 1)
    <3>1. CASE acc.redirect # NoRedirect
      <4>1. f[n + 1] = acc
        BY <2>7, <3>1 DEF Watched
      <4>2. PICK t : t = acc.supervisor
        OBVIOUS
      <4>3. \A i \in DOMAIN t.shown : t.shown[i] \in Nat
        <5>1. t.shown \in Seq(Nat)
          BY <2>5, <4>2 DEF SeenUpTo, Supervisors
        <5> QED
          BY <5>1
      <4>4. SeenUpTo(t, upto + 1)
        BY <2>5, <4>2, <4>3 DEF SeenUpTo
      <4> QED
        BY <4>1, <4>2, <4>4
    <3>2. CASE acc.redirect = NoRedirect
      <4>1. f[n + 1] = RecordTransition(acc.supervisor, upto + 1, evidence)
        BY <2>7, <3>2 DEF Watched
      <4> QED
        BY <2>4, <2>5, <4>1, TransitionIsFaithful
    <3> QED
      BY <3>1, <3>2
  <2> QED
    BY <2>4, <2>8
<1> HIDE DEF In
<1>5. 0 \in T /\ \A n \in Nat : n \in T => n + 1 \in T
  <2>1. ASSUME NEW n \in Nat, n \in T, n + 1 <= m PROVE In(n + 1)
    <3>1. n <= m
      BY <1>1, <2>1
    <3> QED
      BY <1>4, <2>1, <3>1
  <2> QED
    BY <1>3, <2>1
<1> HIDE DEF T
<1>6. \A n \in Nat : n \in T
  BY <1>5, SetInduction
<1>7. In(m)
  BY <1>1, <1>6 DEF T
<1>8. f[m] \in Outcomes
  BY <1>1
<1> QED
  BY <1>1, <1>2, <1>7, <1>8 DEF In

-----------------------------------------------------------------------------
\* A longer trace.

LEMMA TrailsAlike ==
  ASSUME NEW count, NEW k \in Nat, NEW S, NEW T, Trails(count, k, S),
         \A n \in 1..k : n \in S <=> n \in T
  PROVE  Trails(count, k, T)
<1>1. \A n \in 1..k : n > k - count => n \in T
  BY DEF Trails
<1>2. ASSUME count < k PROVE k - count \notin T
  <2>1. k - count \in 1..k
    BY <1>2 DEF Trails
  <2> QED
    BY <1>2, <2>1 DEF Trails
<1> QED
  BY <1>1, <1>2 DEF Trails

LEMMA LongerIsFaithful ==
  ASSUME NEW steps \in Seq(Records), NEW record \in Records,
         NEW s \in Supervisors, Faithful(steps, s)
  PROVE  Faithful(Append(steps, record), s)
<1> DEFINE k == Len(s.shown)
           m == Len(steps)
<1>1. PICK longer : longer = Append(steps, record)
  OBVIOUS
<1>2. /\ m \in Nat /\ Len(longer) = m + 1 /\ \A n \in 1..m : longer[n] = steps[n]
  BY <1>1, AppendProperties
<1>3. s.shown \in Seq(Nat)
  BY DEF Supervisors
<1>4. k \in Nat /\ DOMAIN s.shown = 1..k
  BY <1>3
<1> HIDE DEF k
<1>5. \A n \in 0..m : FrameAt(longer, n) = FrameAt(steps, n)
  BY <1>2 DEF FrameAt
<1>6. \A n \in 1..m : /\ n \in Unmoving(steps) <=> n \in Unmoving(longer)
                      /\ n \in Unadvancing(steps) <=> n \in Unadvancing(longer)
  <2> HIDE DEF m
  <2>1. \A n \in 1..m : n - 1 \in 0..m /\ n \in 0..m /\ n \in 1..(m + 1)
    BY <1>2
  <2> QED
    BY <1>2, <1>5, <2>1 DEF Unmoving, Unadvancing, m
<1> HIDE DEF m
<1>7. ASSUME ShownAll(s)
      PROVE  /\ Trails(s.noChange, k, Unmoving(longer))
             /\ Trails(s.sinceProgress, k, Unadvancing(longer))
  <2>1. k <= m
    <3>1. CASE k = 0
      BY <1>2, <3>1
    <3>2. CASE k # 0
      <4>1. k \in DOMAIN s.shown
        BY <1>4, <3>2
      <4>2. s.shown[k] = k /\ s.shown[k] \in 1..m
        BY <1>7, <4>1 DEF ShownAll, Faithful, m
      <4> QED
        BY <1>2, <4>2
    <3> QED
      BY <3>1, <3>2
  <2>2. \A n \in 1..k : n \in 1..m
    BY <1>2, <1>4, <2>1
  <2>3. /\ Trails(s.noChange, k, Unmoving(steps))
        /\ Trails(s.sinceProgress, k, Unadvancing(steps))
    BY <1>7 DEF Faithful, k
  <2>4. /\ \A n \in 1..k : n \in Unmoving(steps) <=> n \in Unmoving(longer)
        /\ \A n \in 1..k : n \in Unadvancing(steps) <=> n \in Unadvancing(longer)
    BY <1>6, <2>2
  <2> QED
    BY <1>4, <2>3, <2>4, TrailsAlike
<1>8. \A i \in DOMAIN s.shown : s.shown[i] \in 1..Len(longer)
  <2>1. \A i \in DOMAIN s.shown : s.shown[i] \in 1..m
    BY DEF Faithful, m
  <2> QED
    BY <1>2, <2>1
<1>9. \A i, j \in DOMAIN s.shown : i < j => s.shown[i] < s.shown[j]
  BY DEF Faithful
<1> QED
  BY <1>1, <1>7, <1>8, <1>9 DEF Faithful, k

-----------------------------------------------------------------------------
\* The inductive invariant of the supervisor.

\* The one in memory and the checkpoint's are faithful to the trace; during an attempt the
\* loop's is the one in memory, and has seen nothing of the episode underway.
WatchInv ==
    /\ game.supervisor \in Supervisors /\ Faithful(trace, game.supervisor)
    /\ saved.supervisor \in Supervisors /\ Faithful(trace, saved.supervisor)
    /\ host \in InAttempt => sup = game.supervisor
    /\ host \in InEpisode =>
          /\ loop.actions \in 0..Len(trace)
          /\ \A i \in DOMAIN game.supervisor.shown : game.supervisor.shown[i] <= loop.actions

Onwards == trace' = trace \/ (rt.at = "stepped" /\ trace' = Append(trace, Played))

\* A trace that goes on leaves a supervisor faithful.
LEMMA OnwardsIsFaithful ==
  ASSUME PlayInv, Onwards
  PROVE  /\ Len(trace) \in Nat /\ Len(trace') \in Nat /\ Len(trace) <= Len(trace')
         /\ \A s \in Supervisors : Faithful(trace, s) => Faithful(trace', s)
<1>1. trace \in Seq(Records) /\ Len(trace) \in Nat
  BY DEF PlayInv
<1>2. CASE trace' = trace
  BY <1>1, <1>2
<1>3. CASE rt.at = "stepped" /\ trace' = Append(trace, Played)
  <2>1. Played \in Records
    BY <1>3, PlayedLands
  <2>2. Len(trace') = Len(trace) + 1
    BY <1>1, <1>3, <2>1
  <2>3. ASSUME NEW s \in Supervisors, Faithful(trace, s) PROVE Faithful(trace', s)
    BY <1>1, <1>3, <2>1, <2>3, LongerIsFaithful
  <2> QED
    BY <1>1, <2>2, <2>3
<1> QED
  BY <1>2, <1>3 DEF Onwards

\* Steps of the runtime.
LEMMA TraceWatched ==
  ASSUME PlayInv, WatchInv, Onwards, UNCHANGED <<host, loop, sup, game, saved>>
  PROVE  WatchInv'
<1>1. PICK s \in Supervisors : s = game.supervisor /\ Faithful(trace, s)
  BY DEF WatchInv
<1>2. PICK t \in Supervisors : t = saved.supervisor /\ Faithful(trace, t)
  BY DEF WatchInv
<1>3. game'.supervisor = s /\ saved'.supervisor = t
  BY <1>1, <1>2
<1>4. Faithful(trace', s) /\ Faithful(trace', t)
  BY <1>1, <1>2, OnwardsIsFaithful
<1>5. host' \in InEpisode =>
         /\ loop'.actions \in 0..Len(trace')
         /\ \A i \in DOMAIN s.shown : s.shown[i] <= loop'.actions
  <2> SUFFICES ASSUME host \in InEpisode
               PROVE  /\ loop.actions \in 0..Len(trace')
                      /\ \A i \in DOMAIN s.shown : s.shown[i] <= loop.actions
    OBVIOUS
  <2>1. loop.actions \in 0..Len(trace)
    BY DEF WatchInv
  <2>2. \A i \in DOMAIN s.shown : s.shown[i] <= loop.actions
    BY <1>1 DEF WatchInv
  <2>3. Len(trace) \in Nat /\ Len(trace') \in Nat /\ Len(trace) <= Len(trace')
    BY OnwardsIsFaithful
  <2> QED
    BY <2>1, <2>2, <2>3
<1>6. host' \in InAttempt => sup' = game'.supervisor
  BY DEF WatchInv, InAttempt
<1> QED
  BY <1>3, <1>4, <1>5, <1>6 DEF WatchInv, InAttempt, InEpisode

\* The process ends, at whatever place.
LEMMA ExitWatched ==
  ASSUME PlayInv, WatchInv, Onwards, Exit, saved' = saved
  PROVE  WatchInv'
<1>1. PICK t \in Supervisors : t = saved.supervisor /\ Faithful(trace, t)
  BY DEF WatchInv
<1>2. Faithful(trace', t)
  BY <1>1, OnwardsIsFaithful
<1>3. game'.supervisor = t /\ saved'.supervisor = t /\ host' = "down"
  BY <1>1 DEF Exit
<1> QED
  BY <1>2, <1>3 DEF WatchInv, InAttempt, InEpisode

\* The loop between episodes: the games keep a supervisor.
LEMMA LoopWatched ==
  ASSUME PlayInv, CountInv, WatchInv, UNCHANGED trace,
         game'.supervisor = game.supervisor,
         saved'.supervisor \in {game.supervisor, saved.supervisor},
         host' \notin InEpisode,
         host' \in InAttempt => sup' = game.supervisor
  PROVE  WatchInv'
<1>1. PICK s \in Supervisors : s = game.supervisor /\ Faithful(trace, s)
  BY DEF WatchInv
<1>2. PICK t \in Supervisors : t = saved'.supervisor /\ Faithful(trace, t)
  BY DEF WatchInv
<1>3. Faithful(trace', s) /\ Faithful(trace', t)
  BY <1>1, <1>2
<1>4. game'.supervisor = s
  BY <1>1
<1> QED
  BY <1>1, <1>2, <1>3, <1>4 DEF WatchInv, InAttempt, InEpisode

LEMMA ReconciledSupervisor ==
  ASSUME NEW g, IsGame(g)
  PROVE  Reconciled(g).supervisor = g.supervisor
<1> DEFINE a == Len(trace)
           b == Levels(trace)
<1>1. Reconciled(g) = [g EXCEPT !.actions = a, !.levels = b]
  BY DEF Reconciled
<1> HIDE DEF a, b
<1> QED
  BY <1>1 DEF IsGame

LEMMA DispositionSupervisor ==
  ASSUME NEW g, IsGame(g), NEW otherwise, Disposition(g, otherwise)
  PROVE  /\ game'.supervisor = g.supervisor /\ saved'.supervisor = g.supervisor
         /\ host' \in {"down", "over", otherwise}
<1>1. /\ game' = g \/ game' = [g EXCEPT !.banked = TRUE]
      /\ saved' = game' /\ host' \in {"down", "over", otherwise}
  BY DEF Disposition
<1>2. [g EXCEPT !.banked = TRUE].supervisor = g.supervisor
  BY DEF IsGame
<1> QED
  BY <1>1, <1>2

\* record_episode counts episodes, not transitions.
LEMMA EpisodeIsAlike ==
  ASSUME NEW s \in Supervisors, NEW count
  PROVE  /\ RecordEpisode(s, count).supervisor \in Supervisors
         /\ Alike(s, RecordEpisode(s, count).supervisor)
<1> DEFINE zero == IF count = 0 THEN s.zero + 1 ELSE 0
           fired == s.zeroFired /\ count = 0
           due == zero >= ZeroEpisodes /\ ~fired
           flag == fired \/ due
<1>1. zero \in Nat /\ flag \in BOOLEAN
  <2>1. s.zero \in Nat
    BY DEF Supervisors
  <2>2. zero \in Nat
    BY <2>1
  <2>3. flag \in BOOLEAN
    OBVIOUS
  <2> QED
    BY <2>2, <2>3
<1>2. RecordEpisode(s, count).supervisor = [s EXCEPT !.zero = zero, !.zeroFired = flag]
  BY DEF RecordEpisode
<1> HIDE DEF zero, flag
<1> QED
  BY <1>1, <1>2 DEF Supervisors, Alike

\* An episode that has been seen leaves a supervisor that is faithful to the whole trace.
LEMMA ObserveWatched ==
  ASSUME PlayInv, CountInv, WatchInv, Observe
  PROVE  WatchInv'
<1>1. PICK s : s = game.supervisor
  OBVIOUS
<1>2. PICK start \in 0..Len(trace) : start = loop.actions
  BY DEF WatchInv, Observe, InEpisode
<1>3. SeenUpTo(s, start) /\ sup = s
  BY <1>1, <1>2 DEF WatchInv, SeenUpTo, Observe, InEpisode, InAttempt
<1>4. PICK verified \in BOOLEAN :
         LET delta == Len(trace) - loop.actions
             seen == IF file = "absent" THEN [supervisor |-> sup, redirect |-> NoRedirect]
                     ELSE Observed(sup, loop.actions, verified)
             closed == RecordEpisode(seen.supervisor, delta)
         IN /\ sup' = closed.supervisor
            /\ game' = [Reconciled(game) EXCEPT
                          !.episodes = @ + 1, !.errors = 0,
                          !.idle = IF delta = 0 THEN @ + 1 ELSE 0,
                          !.supervisor = closed.supervisor,
                          !.redirect = IF seen.redirect # NoRedirect THEN seen.redirect
                                       ELSE closed.redirect]
  BY DEF Observe
<1> DEFINE delta == Len(trace) - loop.actions
           seen == IF file = "absent" THEN [supervisor |-> sup, redirect |-> NoRedirect]
                   ELSE Observed(sup, loop.actions, verified)
           closed == RecordEpisode(seen.supervisor, delta)
           redirect == IF seen.redirect # NoRedirect THEN seen.redirect ELSE closed.redirect
           g == Reconciled(game)
           idle == IF delta = 0 THEN g.idle + 1 ELSE 0
<1>5. seen.supervisor \in Supervisors /\ Faithful(trace, seen.supervisor)
  <2>1. CASE file = "absent"
    <3>1. seen.supervisor = s
      BY <1>3, <2>1
    <3> QED
      BY <1>3, <3>1 DEF SeenUpTo
  <2>2. CASE file # "absent"
    <3>1. seen = Observed(s, start, verified)
      BY <1>2, <1>3, <2>2
    <3>2. SeenUpTo(Observed(s, start, verified).supervisor, Len(trace))
      BY <1>3, ObservedIsFaithful
    <3> HIDE DEF seen
    <3> QED
      BY <3>1, <3>2 DEF SeenUpTo
  <2> QED
    BY <2>1, <2>2
<1>6. PICK u \in Supervisors : u = seen.supervisor /\ Faithful(trace, u)
  BY <1>5
<1>7. PICK t : t = closed.supervisor
  OBVIOUS
<1>8. t \in Supervisors /\ Faithful(trace, t)
  <2>1. PICK d : d = delta
    OBVIOUS
  <2>2. t = RecordEpisode(u, d).supervisor
    BY <1>6, <1>7, <2>1
  <2> QED
    BY <1>6, <2>2, EpisodeIsAlike, AlikeFaithful
<1>9. sup' = t
  BY <1>4, <1>7
<1>10. game'.supervisor = t
  <2>1. game' = [g EXCEPT !.episodes = @ + 1, !.errors = 0, !.idle = idle,
                          !.supervisor = t, !.redirect = redirect]
    BY <1>4, <1>7
  <2>2. IsGame(g)
    BY ReconciledCounts DEF CountInv, SameCounts
  <2> HIDE DEF g, idle, redirect
  <2> QED
    BY <2>1, <2>2 DEF IsGame
<1>11. host' = "observed" /\ UNCHANGED <<trace, saved>>
  BY DEF Observe
<1>12. PICK v \in Supervisors : v = saved.supervisor /\ Faithful(trace, v)
  BY DEF WatchInv
<1>13. Faithful(trace', t) /\ Faithful(trace', v) /\ saved'.supervisor = v
  BY <1>8, <1>11, <1>12
<1> QED
  BY <1>8, <1>9, <1>10, <1>11, <1>12, <1>13 DEF WatchInv, InAttempt, InEpisode

\* An episode begins after all that was played.
LEMMA BeginEpisodeWatched ==
  ASSUME PlayInv, CountInv, WatchInv, BeginEpisode
  PROVE  WatchInv'
<1>1. host = "episode" /\ UNCHANGED <<trace, sup>>
  BY DEF BeginEpisode
<1>2. sup = game.supervisor
  BY <1>1 DEF WatchInv, InAttempt
<1>3. CASE ~(loop.left > 0)
  <2>1. host' = "over" /\ UNCHANGED <<game, saved>>
    BY <1>3 DEF BeginEpisode
  <2> QED
    BY <1>1, <1>2, <2>1, LoopWatched DEF InEpisode
<1>4. CASE loop.left > 0
  <2>1. /\ host' = "opening" /\ loop'.actions = Len(trace)
        /\ game' = Reconciled(game) /\ saved' = Reconciled(game)
    BY <1>4 DEF BeginEpisode
  <2>2. PICK s \in Supervisors : s = game.supervisor /\ Faithful(trace, s)
    BY DEF WatchInv
  <2>3. PICK h : h = Reconciled(game)
    OBVIOUS
  <2>4. h.supervisor = s
    BY <2>2, <2>3, ReconciledSupervisor DEF CountInv
  <2>5. game'.supervisor = s /\ saved'.supervisor = s /\ sup' = s
    BY <1>1, <1>2, <2>1, <2>2, <2>3, <2>4
  <2>6. Faithful(trace', s)
    BY <1>1, <2>2
  <2>7. Len(trace) \in Nat /\ Len(trace') = Len(trace)
    BY <1>1 DEF PlayInv
  <2>8. \A i \in DOMAIN s.shown : s.shown[i] <= Len(trace)
    <3>1. \A i \in DOMAIN s.shown : s.shown[i] \in 1..Len(trace)
      BY <2>2 DEF Faithful
    <3> QED
      BY <2>7, <3>1
  <2> QED
    BY <2>1, <2>5, <2>6, <2>7, <2>8 DEF WatchInv, InAttempt, InEpisode
<1> QED
  BY <1>3, <1>4

LEMMA WatchNext ==
  ASSUME PlayInv, CountInv, WatchInv, [Next]_vars
  PROVE  WatchInv'
<1>1. CASE UNCHANGED vars
  BY <1>1, TraceWatched DEF vars, Onwards
<1>2. CASE \/ \E a \in Actions : Step(a)
           \/ StepFails \/ Commit \/ CommitFails
  BY <1>2, TraceWatched DEF Onwards, Step, StepFails, Commit, CommitFails, Landed
<1>3. CASE (Open /\ host' # "playing") \/ Refuse \/ Crash
  <2>1. Exit /\ saved' = saved /\ Onwards
    BY <1>3 DEF Open, Refuse, Crash, Die, Landed, Onwards
  <2> QED
    BY <2>1, ExitWatched
<1>4. CASE (Open /\ host' = "playing") \/ Reopen \/ EndEpisode
  <2>1. /\ UNCHANGED <<trace, loop, sup, game, saved>>
        /\ host \in InEpisode /\ host' \in InEpisode
    BY <1>4 DEF Open, Reopen, EndEpisode, Die, Exit, InEpisode, PlayInv
  <2> QED
    BY <2>1 DEF WatchInv, InAttempt, InEpisode
<1>5. CASE Resume
  BY <1>5, LoopWatched DEF Resume, InAttempt, InEpisode
<1>6. CASE BeginAttempt
  <2>1. IsGame(Reconciled(game)) /\ Reconciled(game).supervisor = game.supervisor
    BY ReconciledCounts, ReconciledSupervisor DEF CountInv, SameCounts
  <2>2. Disposition(Reconciled(game), "episode") /\ sup' = game.supervisor /\ UNCHANGED trace
    BY <1>6 DEF BeginAttempt
  <2>3. /\ game'.supervisor = game.supervisor /\ saved'.supervisor = game.supervisor
        /\ host' \in {"down", "over", "episode"}
    BY <2>1, <2>2, DispositionSupervisor
  <2> QED
    BY <2>2, <2>3, LoopWatched DEF InEpisode
<1>7. CASE BeginEpisode
  BY <1>7, BeginEpisodeWatched
<1>8. CASE EpisodeFails
  <2>1. PICK e : e = [game EXCEPT !.errors = @ + 1]
    OBVIOUS
  <2>2. IsGame(e) /\ e.supervisor = game.supervisor
    <3>1. e = [attempt |-> game.attempt, episodes |-> game.episodes, actions |-> game.actions,
            levels |-> game.levels, idle |-> game.idle, errors |-> game.errors + 1,
            supervisor |-> game.supervisor, redirect |-> game.redirect, banked |-> game.banked]
      BY <2>1 DEF CountInv, IsGame
    <3> QED
      BY <3>1 DEF CountInv, IsGame
  <2>3. IsGame(Reconciled(e)) /\ Reconciled(e).supervisor = game.supervisor
    BY <2>2, ReconciledCounts, ReconciledSupervisor DEF SameCounts
  <2>4. PICK failed : failed = Reconciled(e)
    OBVIOUS
  <2>5. \E otherwise \in {"over", "episode"} : Disposition(failed, otherwise)
    BY <1>8, <2>1, <2>4 DEF EpisodeFails
  <2>6. /\ game'.supervisor = game.supervisor /\ saved'.supervisor = game.supervisor
        /\ host' \in {"down", "over", "episode"}
    BY <2>3, <2>4, <2>5, DispositionSupervisor
  <2>7. host = "playing" /\ UNCHANGED <<trace, sup>>
    BY <1>8 DEF EpisodeFails, PlayInv
  <2>8. sup = game.supervisor
    BY <2>7 DEF WatchInv, InAttempt
  <2> QED
    BY <2>6, <2>7, <2>8, LoopWatched DEF InEpisode
<1>9. CASE Observe
  BY <1>9, ObserveWatched
<1>10. CASE SaveEpisode
  <2>1. \E otherwise \in {"over", "episode"} : Disposition(game, otherwise)
    BY <1>10 DEF SaveEpisode
  <2>2. /\ game'.supervisor = game.supervisor /\ saved'.supervisor = game.supervisor
        /\ host' \in {"down", "over", "episode"}
    BY <2>1, DispositionSupervisor DEF CountInv
  <2>3. sup = game.supervisor /\ UNCHANGED <<trace, sup>>
    BY <1>10 DEF SaveEpisode, WatchInv, InAttempt
  <2> QED
    BY <2>2, <2>3, LoopWatched DEF InEpisode
<1>11. CASE AdvanceAttempt
  <2>1. /\ game'.supervisor = FreshSupervisor /\ saved'.supervisor = FreshSupervisor
        /\ host' = "attempt" /\ trace' = <<>>
    BY <1>11 DEF AdvanceAttempt, FreshGame
  <2>2. Len(<<>>) = 0
    OBVIOUS
  <2>3. FreshSupervisor \in Supervisors /\ Faithful(<<>>, FreshSupervisor)
    BY <2>2, FreshIsFaithful
  <2> QED
    BY <2>1, <2>3 DEF WatchInv, InAttempt, InEpisode
<1> QED
  BY <1>1, <1>2, <1>3, <1>4, <1>5, <1>6, <1>7, <1>8, <1>9, <1>10, <1>11 DEF Next

LEMMA WatchInit ==
  ASSUME Init
  PROVE  WatchInv
<1>1. Len(<<>>) = 0
  OBVIOUS
<1>2. FreshSupervisor \in Supervisors /\ Faithful(<<>>, FreshSupervisor)
  BY <1>1, FreshIsFaithful
<1>3. game.supervisor = FreshSupervisor /\ saved.supervisor = FreshSupervisor
  BY DEF Init, FreshGame
<1> QED
  BY <1>2, <1>3 DEF Init, WatchInv, InAttempt, InEpisode

-----------------------------------------------------------------------------
\* The stalls of the trace.

\* The transitions that end the trace and are all in S are as many as the trail is long.
LEMMA TrailIsCounted ==
  ASSUME NEW m \in Nat, NEW count, NEW S, Trails(count, m, S)
  PROVE  LET stops == {n \in 1..m : n \notin S} IN
         Cardinality({n \in 1..m : \A i \in stops : i < n}) = count
<1> DEFINE stops == {n \in 1..m : n \notin S}
           low == m - count + 1
<1>1. count \in 0..m
  BY DEF Trails
<1>2. {n \in 1..m : \A i \in stops : i < n} = low..m
  <2>1. ASSUME NEW n \in 1..m, \A i \in stops : i < n PROVE n \in low..m
    <3>1. CASE count < m
      <4>1. m - count \in stops
        BY <1>1, <3>1 DEF Trails
      <4> QED
        BY <1>1, <2>1, <4>1
    <3>2. CASE count = m
      BY <1>1, <3>2
    <3> QED
      BY <1>1, <3>1, <3>2
  <2>2. ASSUME NEW n \in low..m PROVE n \in 1..m /\ \A i \in stops : i < n
    <3>1. n \in 1..m
      BY <1>1
    <3>2. ASSUME NEW i \in stops PROVE i < n
      <4>1. i \in 1..m /\ i \notin S
        OBVIOUS
      <4>2. ~(i > m - count)
        BY <4>1 DEF Trails
      <4> QED
        BY <1>1, <4>1, <4>2
    <3> QED
      BY <3>1, <3>2
  <2> HIDE DEF low, stops
  <2> QED
    BY <2>1, <2>2
<1>3. Cardinality(low..m) = count
  <2>1. low \in Int /\ m \in Int
    BY <1>1
  <2>2. Cardinality(low..m) = IF low > m THEN 0 ELSE m - low + 1
    BY <2>1, FS_Interval
  <2> QED
    BY <1>1, <2>2
<1> QED
  BY <1>2, <1>3

\* As many indices as there are, in order, are all of them.
LEMMA OrderedIsAll ==
  ASSUME NEW m \in Nat, NEW s \in [1..m -> 1..m],
         \A i, j \in 1..m : i < j => s[i] < s[j]
  PROVE  \A i \in 1..m : s[i] = i
<1> DEFINE Above(n) == s[n] >= n
           T == {n \in Nat : n \in 1..m => Above(n)}
           Below(n) == s[m - n] <= m - n
           U == {n \in Nat : n < m => Below(n)}
<1>0. \A i \in 1..m : s[i] \in 1..m
  OBVIOUS
<1>1. 0 \in T
  OBVIOUS
<1>2. ASSUME NEW n \in Nat, n \in T, n + 1 \in 1..m PROVE Above(n + 1)
  <2>1. CASE n = 0
    <3>1. s[1] \in 1..m
      BY <1>0, <1>2, <2>1
    <3> QED
      BY <2>1, <3>1
  <2>2. CASE n # 0
    <3>1. n \in 1..m /\ n < n + 1
      BY <1>2, <2>2
    <3>2. s[n] >= n /\ s[n] < s[n + 1] /\ s[n] \in Nat /\ s[n + 1] \in Nat
      BY <1>0, <1>2, <3>1
    <3> QED
      BY <3>2
  <2> QED
    BY <2>1, <2>2
<1>3. ASSUME m # 0 PROVE Below(0)
  <2>1. m \in 1..m /\ m - 0 = m
    BY <1>3
  <2>2. s[m] \in 1..m
    BY <1>0, <2>1
  <2> QED
    BY <2>1, <2>2
<1>4. ASSUME NEW n \in Nat, n \in U, n + 1 < m PROVE Below(n + 1)
  <2>1. m - n \in 1..m /\ m - (n + 1) \in 1..m /\ m - (n + 1) < m - n /\ n < m
    BY <1>4
  <2>2. s[m - n] <= m - n
    BY <1>4, <2>1
  <2>3. s[m - (n + 1)] < s[m - n] /\ s[m - n] \in Nat /\ s[m - (n + 1)] \in Nat
    BY <1>0, <2>1
  <2> QED
    BY <2>1, <2>2, <2>3
<1> HIDE DEF Above, Below
<1>5. \A n \in Nat : n \in T => n + 1 \in T
  BY <1>2
<1>6. 0 \in U
  BY <1>3
<1>7. \A n \in Nat : n \in U => n + 1 \in U
  BY <1>4
<1> HIDE DEF T, U
<1>8. \A n \in Nat : n \in T
  BY <1>1, <1>5, SetInduction
<1>9. \A n \in Nat : n \in U
  BY <1>6, <1>7, SetInduction
<1>10. ASSUME NEW i \in 1..m PROVE s[i] = i
  <2>1. i \in Nat /\ m - i \in Nat /\ m - i < m /\ m - (m - i) = i
    OBVIOUS
  <2>2. s[i] >= i
    BY <1>8, <2>1 DEF T, Above
  <2>3. Below(m - i)
    BY <1>9, <2>1 DEF U
  <2>4. s[i] <= i
    BY <2>1, <2>3 DEF Below
  <2> QED
    BY <1>0, <2>1, <2>2, <2>4
<1> QED
  BY <1>10

LEMMA WatchedIsCurrent ==
  ASSUME PlayInv, WatchInv
  PROVE  SupervisorIsCurrent
<1> DEFINE m == Len(trace)
<1>1. PICK s \in Supervisors : s = game.supervisor /\ Faithful(trace, s)
  BY DEF WatchInv
<1>2. trace \in Seq(Records) /\ m \in Nat /\ DOMAIN trace = 1..m
  BY DEF PlayInv
<1>3. /\ \A i \in DOMAIN s.shown : s.shown[i] \in DOMAIN trace
      /\ \A i, j \in DOMAIN s.shown : i < j => s.shown[i] < s.shown[j]
  BY <1>1, <1>2 DEF Faithful
<1>4. ASSUME Len(s.shown) = m
      PROVE  s.noChange = Trailing(Unmoved) /\ s.sinceProgress = Trailing(Unadvanced)
  <2>1. s.shown \in Seq(Nat)
    BY DEF Supervisors
  <2>2. DOMAIN s.shown = 1..m
    BY <1>4, <2>1
  <2>3. s.shown \in [1..m -> 1..m]
    BY <1>2, <1>3, <2>1, <2>2
  <2>4. ShownAll(s)
    <3>1. PICK u \in [1..m -> 1..m] : u = s.shown
      BY <2>3
    <3>2. \A i, j \in 1..m : i < j => u[i] < u[j]
      BY <1>3, <2>2, <3>1
    <3> HIDE DEF m
    <3>3. \A i \in 1..m : u[i] = i
      BY <1>2, <3>2, OrderedIsAll
    <3> QED
      BY <2>2, <3>1, <3>3 DEF ShownAll
  <2>5. /\ Trails(s.noChange, m, Unmoving(trace))
        /\ Trails(s.sinceProgress, m, Unadvancing(trace))
    BY <1>1, <1>4, <2>4 DEF Faithful
  <2>6. \A n \in 1..m : /\ n \in Unmoving(trace) <=> Unmoved(n)
                        /\ n \in Unadvancing(trace) <=> Unadvanced(n)
    <3>1. \A n \in 1..m : FrameAt(trace, n) = trace[n].frame
      BY <1>2 DEF FrameAt
    <3> QED
      BY <3>1 DEF Unmoving, Unadvancing, Unmoved, Unadvanced
  <2>7. s.noChange = Trailing(Unmoved)
    <3> DEFINE stops == {n \in 1..m : n \notin Unmoving(trace)}
    <3>1. stops = {n \in DOMAIN trace : ~Unmoved(n)}
      BY <1>2, <2>6
    <3>2. Cardinality({n \in 1..m : \A i \in stops : i < n}) = s.noChange
      BY <1>2, <2>5, TrailIsCounted
    <3> HIDE DEF stops, m
    <3> QED
      BY <1>2, <3>1, <3>2 DEF Trailing
  <2>8. s.sinceProgress = Trailing(Unadvanced)
    <3> DEFINE stops == {n \in 1..m : n \notin Unadvancing(trace)}
    <3>1. stops = {n \in DOMAIN trace : ~Unadvanced(n)}
      BY <1>2, <2>6
    <3>2. Cardinality({n \in 1..m : \A i \in stops : i < n}) = s.sinceProgress
      BY <1>2, <2>5, TrailIsCounted
    <3> HIDE DEF stops, m
    <3> QED
      BY <1>2, <3>1, <3>2 DEF Trailing
  <2> QED
    BY <2>7, <2>8
<1> QED
  BY <1>1, <1>3, <1>4 DEF SupervisorIsCurrent

\* runtime/supervisor.py and campaign_runner.py: whatever episodes fail and processes die, a
\* game's supervisor is shown the transitions of its attempt once and in order, and counts
\* the trace's own stalls while none was skipped.
THEOREM SupervisorStaysCurrent == Spec => []SupervisorIsCurrent
<1>1. Init => PlayInv /\ CountInv /\ WatchInv
  BY PlayInitInv, CountInit, WatchInit
<1>2. PlayInv /\ CountInv /\ WatchInv /\ [Next]_vars => PlayInv' /\ CountInv' /\ WatchInv'
  BY PlayNextInv, CountNext, WatchNext
<1>3. PlayInv /\ WatchInv => SupervisorIsCurrent
  BY WatchedIsCurrent
<1> QED
  BY <1>1, <1>2, <1>3, PTL DEF Spec
=============================================================================
