----------------------------- MODULE SumsProofs -----------------------------
(***************************************************************************)
(* Induction over numbers, that recursive functions exist, and what Total  *)
(* of a sequence is: cited wherever a model computes over a file or trace. *)
(***************************************************************************)
EXTENDS Sums, SequenceTheorems, WellFoundedInduction, TLAPS

\* A set of numbers with zero and the successor of each of its members has all of them.
LEMMA SetInduction ==
  ASSUME NEW T, 0 \in T, \A n \in Nat : n \in T => n + 1 \in T
  PROVE  \A n \in Nat : n \in T
<1> SUFFICES ASSUME Nat \ T # {} PROVE FALSE
  OBVIOUS
<1> DEFINE R == OpToRel(<, Nat)
<1>1. IsWellFoundedOn(R, Nat)
  BY NatLessThanWellFounded
<1>2. \A y, x \in Nat : y < x => <<y, x>> \in R
  BY DEF OpToRel
<1> HIDE DEF R
<1>3. PICK x \in Nat \ T : \A y \in Nat \ T : ~ (<<y, x>> \in R)
  BY <1>1, WFMin
<1>4. x # 0 /\ x - 1 \in Nat /\ x - 1 < x /\ (x - 1) + 1 = x
  OBVIOUS
<1> QED
  BY <1>2, <1>3, <1>4

\* f starts with a and goes through the first m steps.
Steps(m, A) == [1..m -> [A -> A]]
Follows(f, a, m, step) == f[0] = a /\ \A n \in 1..m : f[n] = step[n][f[n - 1]]

\* A recursion over numbers that stays in a set has a solution there.
LEMMA RecursionExists ==
  ASSUME NEW A, NEW a \in A, NEW m \in Nat, NEW step \in Steps(m, A)
  PROVE  \E f \in [0..m -> A] : Follows(f, a, m, step)
<1> DEFINE Solves(f, n) == f[0] = a /\ \A k \in 1..n : f[k] = step[k][f[k - 1]]
           Has(n) == \E f \in [0..n -> A] : Solves(f, n)
           T == {n \in Nat : n <= m => Has(n)}
<1>0. step \in [1..m -> [A -> A]]
  BY DEF Steps
<1>1. 0 \in T
  <2> DEFINE f == [n \in 0..0 |-> a]
  <2>1. f \in [0..0 -> A] /\ Solves(f, 0)
    OBVIOUS
  <2> QED
    BY <2>1
<1>2. ASSUME NEW n \in Nat, n \in T, n + 1 <= m PROVE Has(n + 1)
  <2>1. n <= m /\ n + 1 \in 1..m
    BY <1>2
  <2>2. PICK f \in [0..n -> A] : Solves(f, n)
    BY <1>2, <2>1
  <2> DEFINE more == step[n + 1][f[n]]
             g == [k \in 0..(n + 1) |-> IF k = n + 1 THEN more ELSE f[k]]
  <2>3. more \in A
    BY <1>0, <2>1, <2>2
  <2> HIDE DEF more
  <2>4. g \in [0..(n + 1) -> A]
    BY <2>2, <2>3
  <2>5. Solves(g, n + 1)
    <3>1. g[0] = a
      BY <2>2
    <3>2. ASSUME NEW k \in 1..(n + 1) PROVE g[k] = step[k][g[k - 1]]
      <4>1. CASE k = n + 1
        <5>1. g[k] = more /\ k - 1 = n /\ g[n] = f[n]
          BY <2>4, <4>1
        <5> QED
          BY <4>1, <5>1 DEF more
      <4>2. CASE k \in 1..n
        <5>1. g[k] = f[k] /\ g[k - 1] = f[k - 1]
          BY <4>2
        <5> QED
          BY <2>2, <4>2, <5>1
      <4> QED
        BY <4>1, <4>2
    <3> QED
      BY <3>1, <3>2
  <2> HIDE DEF Solves
  <2> QED
    BY <2>4, <2>5
<1> HIDE DEF Has
<1>3. \A n \in Nat : n \in T => n + 1 \in T
  BY <1>2
<1> HIDE DEF T
<1>4. \A n \in Nat : n \in T
  BY <1>1, <1>3, SetInduction
<1>5. Has(m)
  BY <1>4 DEF T
<1> QED
  BY <1>5 DEF Has, Follows

-----------------------------------------------------------------------------
\* Sums.

\* f has the partial sums of the first m amounts.
Sums(f, amounts, m) ==
    f[0] = 0 /\ \A n \in 1..m : f[n] = f[n - 1] + amounts[n]

\* Partial sums of sequences that begin alike are alike.
LEMMA SumsAgree ==
  ASSUME NEW f, NEW g, NEW a, NEW b, NEW m \in Nat, Sums(f, a, m), Sums(g, b, m),
         \A n \in 1..m : a[n] = b[n]
  PROVE  \A n \in 0..m : f[n] = g[n]
<1> DEFINE T == {n \in Nat : n \in 0..m => f[n] = g[n]}
<1>1. 0 \in T
  BY DEF Sums
<1>2. ASSUME NEW n \in Nat, n \in T, n + 1 \in 0..m PROVE f[n + 1] = g[n + 1]
  <2>1. n \in 0..m /\ n + 1 \in 1..m /\ (n + 1) - 1 = n
    BY <1>2
  <2>2. f[n] = g[n] /\ a[n + 1] = b[n + 1]
    BY <1>2, <2>1
  <2>3. f[n + 1] = f[n] + a[n + 1] /\ g[n + 1] = g[n] + b[n + 1]
    BY <2>1 DEF Sums
  <2> QED
    BY <2>2, <2>3
<1>3. \A n \in Nat : n \in T => n + 1 \in T
  BY <1>2
<1> HIDE DEF T
<1>4. \A n \in Nat : n \in T
  BY <1>1, <1>3, SetInduction
<1> QED
  BY <1>4 DEF T

LEMMA SumsExist ==
  ASSUME NEW a \in Seq(Nat)
  PROVE  \E f \in [0..Len(a) -> Nat] : Sums(f, a, Len(a))
<1> DEFINE m == Len(a)
           step == [n \in 1..m |-> [x \in Nat |-> x + a[n]]]
<1>1. m \in Nat /\ \A n \in 1..m : a[n] \in Nat
  OBVIOUS
<1> HIDE DEF m
<1>2. /\ step \in [1..m -> [Nat -> Nat]]
      /\ \A n \in 1..m, x \in Nat : step[n][x] = x + a[n]
  BY <1>1
<1> HIDE DEF step
<1>3. PICK f \in [0..m -> Nat] : Follows(f, 0, m, step)
  <2>1. step \in Steps(m, Nat)
    BY <1>2 DEF Steps
  <2> QED
    BY <1>1, <2>1, RecursionExists
<1>4. \A n \in 1..m : n - 1 \in 0..m
  BY <1>1
<1>5. Sums(f, a, m)
  BY <1>2, <1>3, <1>4 DEF Sums, Follows
<1> QED
  BY <1>5 DEF m

\* The recursive function of Total is one that has the partial sums.
LEMMA TotalIsSum ==
  ASSUME NEW a \in Seq(Nat)
  PROVE  \E f \in [0..Len(a) -> Nat] : Sums(f, a, Len(a)) /\ Total(a) = f[Len(a)]
<1> DEFINE Step(f) == [n \in 0..Len(a) |-> IF n = 0 THEN 0 ELSE f[n - 1] + a[n]]
           sum == CHOOSE f : f = Step(f)
<1>0. Len(a) \in Nat
  OBVIOUS
<1>1. Total(a) = sum[Len(a)]
  BY DEF Total
<1>2. PICK f \in [0..Len(a) -> Nat] : Sums(f, a, Len(a))
  BY SumsExist
<1>3. f = Step(f)
  BY <1>0, <1>2 DEF Sums
<1>4. sum = Step(sum)
  <2> HIDE DEF Step
  <2> QED
    BY <1>3
<1> HIDE DEF sum
<1>5. Sums(sum, a, Len(a))
  BY <1>0, <1>4 DEF Sums
<1>6. \A n \in 0..Len(a) : f[n] = sum[n]
  BY <1>0, <1>2, <1>5, SumsAgree
<1> QED
  BY <1>0, <1>1, <1>2, <1>6

LEMMA TotalIsNat ==
  ASSUME NEW a \in Seq(Nat)
  PROVE  Total(a) \in Nat
BY TotalIsSum

LEMMA TotalOfNone ==
  Total(<<>>) = 0
<1>1. <<>> \in Seq(Nat) /\ Len(<<>>) = 0
  OBVIOUS
<1>2. PICK f \in [0..0 -> Nat] : Sums(f, <<>>, 0) /\ Total(<<>>) = f[0]
  BY <1>1, TotalIsSum
<1> QED
  BY <1>2 DEF Sums

LEMMA TotalOfMore ==
  ASSUME NEW a \in Seq(Nat), NEW x \in Nat
  PROVE  Total(Append(a, x)) = Total(a) + x
<1> DEFINE b == Append(a, x)
           m == Len(a)
<1>1. /\ b \in Seq(Nat) /\ m \in Nat /\ Len(b) = m + 1
      /\ b[m + 1] = x /\ \A n \in 1..m : a[n] = b[n]
  BY AppendProperties
<1>2. PICK f : Sums(f, a, m) /\ Total(a) = f[m]
  BY TotalIsSum
<1> HIDE DEF b, m
<1>3. PICK g : Sums(g, b, m + 1) /\ Total(b) = g[m + 1]
  BY <1>1, TotalIsSum
<1>4. Sums(g, b, m) /\ g[m + 1] = g[m] + x
  BY <1>1, <1>3 DEF Sums
<1>5. f[m] = g[m]
  BY <1>1, <1>2, <1>4, SumsAgree
<1> QED
  BY <1>2, <1>3, <1>4, <1>5 DEF b

\* A recursive definition that agrees with the steps inside the set never leaves it.
Staying(f, a, m, step, A) ==
    /\ f = [n \in 0..m |-> f[n]] /\ f[0] = a
    /\ \A n \in 1..m : f[n - 1] \in A => f[n] = step[n][f[n - 1]]

LEMMA RecursionStays ==
  ASSUME NEW A, NEW a \in A, NEW m \in Nat, NEW step \in Steps(m, A), NEW f,
         Staying(f, a, m, step, A)
  PROVE  f \in [0..m -> A]
<1> DEFINE In(n) == f[n] \in A
           T == {n \in Nat : n <= m => In(n)}
<1>1. 0 \in T
  BY DEF Staying
<1>2. ASSUME NEW n \in Nat, n \in T, n + 1 <= m PROVE In(n + 1)
  <2>1. n <= m /\ n + 1 \in 1..m /\ (n + 1) - 1 = n
    BY <1>2
  <2>2. f[n] \in A
    BY <1>2, <2>1
  <2>3. f[n + 1] = step[n + 1][f[n]]
    BY <2>1, <2>2 DEF Staying
  <2> QED
    BY <2>1, <2>2, <2>3 DEF Steps
<1> HIDE DEF In
<1>3. \A n \in Nat : n \in T => n + 1 \in T
  BY <1>2
<1> HIDE DEF T
<1>4. \A n \in Nat : n \in T
  BY <1>1, <1>3, SetInduction
<1>5. \A n \in 0..m : f[n] \in A
  BY <1>4 DEF T, In
<1> QED
  BY <1>5 DEF Staying

\* An amount and as many zeros as one likes add the amount.
LEMMA TotalWithZeros ==
  ASSUME NEW a \in Seq(Nat), NEW x \in Nat, NEW k \in Nat \ {0}
  PROVE  LET all == a \o [i \in 1..k |-> IF i = 1 THEN x ELSE 0] IN
         all \in Seq(Nat) /\ Len(all) = Len(a) + k /\ Total(all) = Total(a) + x
<1> DEFINE z(n) == [i \in 1..n |-> IF i = 1 THEN x ELSE 0]
           Adds(n) == /\ a \o z(n) \in Seq(Nat) /\ Len(a \o z(n)) = Len(a) + n
                      /\ Total(a \o z(n)) = Total(a) + x
           T == {n \in Nat : n # 0 => Adds(n)}
<1>1. ASSUME NEW n \in Nat
      PROVE  /\ z(n) \in Seq(Nat) /\ Len(z(n)) = n
             /\ z(n + 1) = Append(z(n), IF n = 0 THEN x ELSE 0)
  <2>1. z(n) \in [1..n -> Nat] /\ z(n + 1) \in [1..(n + 1) -> Nat]
    OBVIOUS
  <2>2. z(n) \in Seq(Nat) /\ z(n + 1) \in Seq(Nat)
    BY <2>1, SeqDef
  <2>3. Len(z(n)) = n /\ Len(z(n + 1)) = n + 1
    BY <2>1, <2>2
  <2>4. PICK y \in Nat : y = IF n = 0 THEN x ELSE 0
    OBVIOUS
  <2>5. /\ Append(z(n), y) \in Seq(Nat) /\ Len(Append(z(n), y)) = n + 1
        /\ \A i \in 1..(n + 1) : Append(z(n), y)[i] = z(n + 1)[i]
    <3> DEFINE s == z(n)
               t == z(n + 1)
    <3>1. \A i \in 1..n : s[i] = t[i]
      OBVIOUS
    <3>2. t[n + 1] = y
      BY <2>4
    <3> HIDE DEF s, t
    <3>3. Append(s, y) \in Seq(Nat) /\ Len(Append(s, y)) = n + 1
          /\ \A i \in 1..(n + 1) : Append(s, y)[i] = t[i]
      BY <2>2, <2>3, <3>1, <3>2, AppendProperties DEF s
    <3> QED
      BY <3>3 DEF s, t
  <2> QED
    BY <2>2, <2>3, <2>4, <2>5, SeqEqual
<1> HIDE DEF z
<1>2. Adds(1)
  <2>0. 0 \in Nat /\ 0 + 1 = 1
    OBVIOUS
  <2>1. z(0) \in Seq(Nat) /\ Len(z(0)) = 0 /\ z(1) = Append(z(0), x)
    <3>1. z(0) \in Seq(Nat) /\ Len(z(0)) = 0 /\ z(0 + 1) = Append(z(0), IF 0 = 0 THEN x ELSE 0)
      BY <1>1, <2>0, Zenon
    <3> QED
      BY <2>0, <3>1
  <2>2. z(0) = <<>>
    BY <2>1
  <2>3. a \o Append(<<>>, x) = Append(a, x)
    OBVIOUS
  <2>4. /\ Append(a, x) \in Seq(Nat) /\ Len(Append(a, x)) = Len(a) + 1
        /\ Total(Append(a, x)) = Total(a) + x
    BY AppendProperties, TotalOfMore
  <2>5. a \o z(1) = Append(a, x)
    BY <2>1, <2>2, <2>3
  <2> HIDE DEF z
  <2> QED
    BY <2>4, <2>5
<1>3. ASSUME NEW n \in Nat, n # 0, Adds(n) PROVE Adds(n + 1)
  <2>1. z(n) \in Seq(Nat) /\ z(n + 1) = Append(z(n), 0)
    BY <1>1, <1>3
  <2>2. a \o Append(z(n), 0) = Append(a \o z(n), 0)
    BY <2>1
  <2> DEFINE b == a \o z(n)
  <2>3. b \in Seq(Nat) /\ Len(b) = Len(a) + n /\ Total(b) = Total(a) + x
    BY <1>3
  <2> HIDE DEF b
  <2>4. /\ Append(b, 0) \in Seq(Nat) /\ Len(Append(b, 0)) = Len(a) + (n + 1)
        /\ Total(Append(b, 0)) = Total(a) + x
    <3>1. Total(b) \in Nat /\ Total(a) \in Nat /\ 0 \in Nat
      BY <2>3, TotalIsNat
    <3>2. Total(Append(b, 0)) = Total(b) + 0
      BY <2>3, <3>1, TotalOfMore
    <3>3. Append(b, 0) \in Seq(Nat) /\ Len(Append(b, 0)) = Len(b) + 1
      BY <2>3, <3>1, AppendProperties
    <3> QED
      BY <2>3, <3>1, <3>2, <3>3
  <2> QED
    BY <2>1, <2>2, <2>4 DEF b
<1> HIDE DEF Adds
<1>4. 0 \in T /\ \A n \in Nat : n \in T => n + 1 \in T
  <2>1. ASSUME NEW n \in Nat, n \in T PROVE n + 1 \in T
    BY <1>2, <1>3, <2>1
  <2> QED
    BY <2>1
<1> HIDE DEF T
<1>5. \A n \in Nat : n \in T
  BY <1>4, SetInduction
<1> QED
  BY <1>5 DEF T, Adds, z

LEMMA SumsOfBelow ==
  ASSUME NEW x \in Nat, NEW y \in Nat, NEW u \in Nat, NEW v \in Nat, x <= y, u <= v
  PROVE  x + u <= y + v /\ (x + u = y + v => x = y /\ u = v)
OBVIOUS

NoMore(a, b, m) == \A n \in 1..m : a[n] <= b[n]

\* Of partial sums of smaller amounts the last is smaller, and equal only if every amount is.
LEMMA SumsBelow ==
  ASSUME NEW m \in Nat, NEW a \in [1..m -> Nat], NEW b \in [1..m -> Nat],
         NEW f \in [0..m -> Nat], NEW g \in [0..m -> Nat], Sums(f, a, m), Sums(g, b, m),
         NoMore(a, b, m)
  PROVE  f[m] <= g[m] /\ (f[m] = g[m] => a = b)
<1> DEFINE Below(n) == f[n] <= g[n] /\ (f[n] = g[n] => \A i \in 1..n : a[i] = b[i])
           T == {n \in Nat : n <= m => Below(n)}
<1>1. 0 \in T
  BY DEF Sums
<1>2. ASSUME NEW n \in Nat, n \in T, n + 1 <= m PROVE Below(n + 1)
  <2>1. n \in 0..m /\ n + 1 \in 1..m /\ (n + 1) - 1 = n
    BY <1>2
  <2>2. Below(n)
    BY <1>2, <2>1
  <2>3. f[n + 1] = f[n] + a[n + 1] /\ g[n + 1] = g[n] + b[n + 1] /\ a[n + 1] <= b[n + 1]
    BY <2>1 DEF Sums, NoMore
  <2>4. f[n] \in Nat /\ g[n] \in Nat /\ a[n + 1] \in Nat /\ b[n + 1] \in Nat
    BY <2>1
  <2>5. /\ f[n + 1] <= g[n + 1]
        /\ f[n + 1] = g[n + 1] => f[n] = g[n] /\ a[n + 1] = b[n + 1]
    <3>1. PICK x \in Nat, y \in Nat : x = f[n] /\ y = g[n] /\ x <= y
      BY <2>2, <2>4
    <3>2. PICK u \in Nat, v \in Nat : u = a[n + 1] /\ v = b[n + 1] /\ u <= v
      BY <2>3, <2>4
    <3>3. x + u <= y + v /\ (x + u = y + v => x = y /\ u = v)
      <4>1. x <= y /\ u <= v
        BY <3>1, <3>2
      <4> QED
        BY <4>1, SumsOfBelow
    <3> HIDE DEF Below
    <3> QED
      BY <2>3, <3>1, <3>2, <3>3
  <2>6. ASSUME f[n + 1] = g[n + 1], NEW i \in 1..(n + 1) PROVE a[i] = b[i]
    <3>1. CASE i = n + 1
      BY <2>5, <2>6, <3>1
    <3>2. CASE i \in 1..n
      BY <2>2, <2>5, <2>6, <3>2
    <3> QED
      BY <3>1, <3>2
  <2> QED
    BY <2>5, <2>6
<1> HIDE DEF Below
<1>3. \A n \in Nat : n \in T => n + 1 \in T
  BY <1>2
<1> HIDE DEF T
<1>4. \A n \in Nat : n \in T
  BY <1>1, <1>3, SetInduction
<1> QED
  BY <1>4 DEF T, Below
=============================================================================
