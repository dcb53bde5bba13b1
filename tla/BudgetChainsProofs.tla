------------------------- MODULE BudgetChainsProofs -------------------------
(***************************************************************************)
(* Proofs about the three files of the ledger, for every set of threads    *)
(* and of reservations and any prices: the files never come to say what    *)
(* their loader rejects, no granted hold is missing from readable books,   *)
(* and locks, appends, short writes and crashes implement BudgetLedger.    *)
(*                                                                         *)
(* The inductive invariant says what the holder of the lock may still      *)
(* append (Due), and of the reservations file that every id is reserved    *)
(* once, before it is released once (Orderly).                             *)
(***************************************************************************)
EXTENDS BudgetChains, SumsProofs, FiniteSetTheorems

-----------------------------------------------------------------------------
\* What the files say, as functions of their records.

CapRecords == [cap : Nat \ {0}]
UsageRecords == [id : Reservations \cup {NoReservation}, cost : Costs]
HoldRecords == [kind : {"reserve", "release"}, id : Reservations]

IdsIn(h, kind) == {e.id : e \in {f \in ToSet(h) : f.kind = kind}}
ConsumedIn(u) == {x.id : x \in ToSet(u)} \ {NoReservation}
CostsIn(u) == [i \in DOMAIN u |-> u[i].cost]
OverrunsIn(u) == [i \in DOMAIN u |-> Overrun(u[i])]

\* The replay succeeds: an id is reserved once, and then released once at most.
Orderly(h) ==
    /\ \A i, j \in DOMAIN h : h[i] = h[j] => i = j
    /\ \A j \in DOMAIN h : h[j].kind = "release" =>
          \E i \in 1..(j - 1) : h[i] = Entry("reserve", h[j].id)

UsedOnce(u) ==
    \A i, j \in DOMAIN u : i # j /\ u[i].id # NoReservation => u[i].id # u[j].id

Rising(v) == \A i \in 1..(Len(v) - 1) : v[i].cap < v[i + 1].cap

LEMMA EntryTyped ==
  ASSUME NEW e \in HoldRecords
  PROVE  /\ e = Entry(e.kind, e.id) /\ e.id \in Reservations
         /\ e.kind \in {"reserve", "release"}
BY DEF HoldRecords, Entry

LEMMA IdsAre ==
  ASSUME NEW h \in Seq(HoldRecords), NEW kind
  PROVE  /\ IdsIn(h, kind) \subseteq Reservations
         /\ \A r : r \in IdsIn(h, kind) <=> \E i \in DOMAIN h : h[i] = Entry(kind, r)
<1>1. \A i \in DOMAIN h : h[i] \in HoldRecords
  BY LenProperties
<1>2. ASSUME NEW r \in IdsIn(h, kind)
      PROVE  r \in Reservations /\ \E i \in DOMAIN h : h[i] = Entry(kind, r)
  <2>1. PICK i \in DOMAIN h : h[i].kind = kind /\ h[i].id = r
    BY <1>2 DEF IdsIn, ToSet
  <2>2. h[i] = Entry(h[i].kind, h[i].id) /\ h[i].id \in Reservations
    BY <1>1, EntryTyped
  <2> QED
    BY <2>1, <2>2
<1>3. ASSUME NEW r, NEW i \in DOMAIN h, h[i] = Entry(kind, r)
      PROVE  r \in IdsIn(h, kind)
  <2>1. h[i].kind = kind /\ h[i].id = r
    BY <1>3 DEF Entry
  <2> QED
    BY <2>1 DEF IdsIn, ToSet
<1> QED
  BY <1>2, <1>3

LEMMA MoreInSet ==
  ASSUME NEW S, NEW s \in Seq(S), NEW e \in S
  PROVE  /\ Append(s, e) \in Seq(S) /\ ToSet(Append(s, e)) = ToSet(s) \cup {e}
         /\ DOMAIN s = 1..Len(s) /\ DOMAIN Append(s, e) = 1..(Len(s) + 1)
         /\ Len(s) \in Nat /\ Len(Append(s, e)) = Len(s) + 1
         /\ Append(s, e)[Len(s) + 1] = e
         /\ \A i \in 1..Len(s) : Append(s, e)[i] = s[i]
<1> DEFINE t == Append(s, e)
<1>1. /\ t \in Seq(S) /\ Len(t) = Len(s) + 1 /\ t[Len(s) + 1] = e /\ Len(s) \in Nat
      /\ \A i \in 1..Len(s) : t[i] = s[i]
  BY AppendProperties
<1>2. DOMAIN s = 1..Len(s) /\ DOMAIN t = 1..(Len(s) + 1)
  BY <1>1, LenProperties
<1> HIDE DEF t
<1>3. ToSet(t) = ToSet(s) \cup {e}
  BY <1>1, <1>2 DEF ToSet
<1> QED
  BY <1>1, <1>2, <1>3 DEF t

LEMMA IdsMore ==
  ASSUME NEW h \in Seq(HoldRecords), NEW kind \in {"reserve", "release"}, NEW r \in Reservations
  PROVE  /\ IdsIn(Append(h, Entry(kind, r)), kind) = IdsIn(h, kind) \cup {r}
         /\ \A other \in {"reserve", "release"} \ {kind} :
               IdsIn(Append(h, Entry(kind, r)), other) = IdsIn(h, other)
<1> DEFINE e == Entry(kind, r)
           t == Append(h, e)
<1>1. e \in HoldRecords /\ e.kind = kind /\ e.id = r
  BY DEF Entry, HoldRecords
<1> HIDE DEF e
<1>2. ToSet(t) = ToSet(h) \cup {e}
  BY <1>1, MoreInSet
<1> HIDE DEF t
<1>3. IdsIn(t, kind) = IdsIn(h, kind) \cup {r}
  BY <1>1, <1>2 DEF IdsIn
<1>4. \A other \in {"reserve", "release"} \ {kind} : IdsIn(t, other) = IdsIn(h, other)
  BY <1>1, <1>2 DEF IdsIn
<1> QED
  BY <1>3, <1>4 DEF t, e

LEMMA OrderlyMore ==
  ASSUME NEW h \in Seq(HoldRecords), NEW e \in HoldRecords, Orderly(h),
         \A i \in DOMAIN h : h[i] # e,
         e.kind = "release" => \E i \in DOMAIN h : h[i] = Entry("reserve", e.id)
  PROVE  Orderly(Append(h, e))
<1> DEFINE t == Append(h, e)
           n == Len(h)
<1>1. /\ n \in Nat /\ DOMAIN h = 1..n /\ DOMAIN t = 1..(n + 1) /\ t[n + 1] = e
      /\ \A i \in 1..n : t[i] = h[i]
  BY MoreInSet
<1> HIDE DEF t, n
<1>2. ASSUME NEW i \in DOMAIN t, NEW j \in DOMAIN t, t[i] = t[j] PROVE i = j
  <2>1. i \in 1..n \/ i = n + 1
    BY <1>1
  <2>2. j \in 1..n \/ j = n + 1
    BY <1>1
  <2> QED
    BY <1>1, <1>2, <2>1, <2>2 DEF Orderly
<1>3. ASSUME NEW j \in DOMAIN t, t[j].kind = "release"
      PROVE  \E i \in 1..(j - 1) : t[i] = Entry("reserve", t[j].id)
  <2>1. CASE j = n + 1
    <3>1. PICK i \in 1..n : h[i] = Entry("reserve", e.id)
      BY <1>1, <1>3, <2>1
    <3>2. i \in 1..(j - 1) /\ t[i] = h[i] /\ t[j] = e
      BY <1>1, <2>1, <3>1
    <3> QED
      BY <3>1, <3>2
  <2>2. CASE j \in 1..n
    <3>1. h[j].kind = "release" /\ t[j] = h[j]
      BY <1>1, <1>3, <2>2
    <3>2. PICK i \in 1..(j - 1) : h[i] = Entry("reserve", h[j].id)
      BY <1>1, <2>2, <3>1 DEF Orderly
    <3>3. i \in 1..n
      BY <1>1, <2>2
    <3> QED
      BY <1>1, <3>1, <3>2, <3>3
  <2> QED
    BY <1>1, <2>1, <2>2
<1> QED
  BY <1>2, <1>3 DEF Orderly, t

LEMMA UsedOnceMore ==
  ASSUME NEW u \in Seq(UsageRecords), NEW x \in UsageRecords, UsedOnce(u),
         x.id # NoReservation => x.id \notin ConsumedIn(u)
  PROVE  UsedOnce(Append(u, x))
<1> DEFINE t == Append(u, x)
           n == Len(u)
<1>1. /\ n \in Nat /\ DOMAIN u = 1..n /\ DOMAIN t = 1..(n + 1) /\ t[n + 1] = x
      /\ \A i \in 1..n : t[i] = u[i]
  BY MoreInSet
<1>2. \A i \in 1..n : u[i].id # NoReservation => u[i].id # x.id
  <2>1. \A i \in 1..n : u[i].id # NoReservation => u[i].id \in ConsumedIn(u)
    BY <1>1 DEF ConsumedIn, ToSet
  <2> QED
    BY <2>1
<1> HIDE DEF t, n
<1>3. ASSUME NEW i \in DOMAIN t, NEW j \in DOMAIN t, i # j, t[i].id # NoReservation
      PROVE  t[i].id # t[j].id
  <2>1. i \in 1..n \/ i = n + 1
    BY <1>1
  <2>2. j \in 1..n \/ j = n + 1
    BY <1>1
  <2>3. CASE i \in 1..n /\ j \in 1..n
    BY <1>1, <1>3, <2>3 DEF UsedOnce
  <2>4. CASE i = n + 1 /\ j \in 1..n
    <3>1. t[i].id = x.id /\ t[j].id = u[j].id
      BY <1>1, <2>4
    <3> QED
      BY <1>2, <1>3, <2>4, <3>1
  <2>5. CASE i \in 1..n /\ j = n + 1
    <3>1. t[j].id = x.id /\ t[i].id = u[i].id
      BY <1>1, <2>5
    <3> QED
      BY <1>2, <1>3, <2>5, <3>1
  <2> QED
    BY <1>3, <2>1, <2>2, <2>3, <2>4, <2>5
<1> QED
  BY <1>3 DEF UsedOnce, t

LEMMA RecordAmounts ==
  \A y \in UsageRecords : y.cost \in Nat /\ Overrun(y) \in Nat
<1>1. ASSUME NEW y \in UsageRecords PROVE y.cost \in Nat
  BY ChainsAssumption DEF UsageRecords
<1>2. ASSUME NEW y \in UsageRecords PROVE Overrun(y) \in Nat
  <2>1. y.cost \in Nat /\ Turn \in Nat
    BY <1>1, ChainsAssumption
  <2>2. y.cost > Turn => y.cost - Turn \in Nat
    BY <2>1
  <2> QED
    BY <2>1, <2>2 DEF Overrun
<1> QED
  BY <1>1, <1>2

LEMMA UsageMore ==
  ASSUME NEW u \in Seq(UsageRecords), NEW id \in Reservations \cup {NoReservation},
         NEW cost \in Costs
  PROVE  /\ ConsumedIn(Append(u, Usage(id, cost))) = ConsumedIn(u) \cup ({id} \ {NoReservation})
         /\ CostsIn(u) \in Seq(Nat) /\ OverrunsIn(u) \in Seq(Nat)
         /\ CostsIn(Append(u, Usage(id, cost))) = Append(CostsIn(u), cost)
         /\ OverrunsIn(Append(u, Usage(id, cost))) = Append(OverrunsIn(u), Overrun(Usage(id, cost)))
         /\ cost \in Nat /\ Overrun(Usage(id, cost)) \in Nat
<1> DEFINE x == Usage(id, cost)
           t == Append(u, x)
           n == Len(u)
<1>1. x \in UsageRecords /\ x.id = id /\ x.cost = cost
  BY DEF Usage, UsageRecords
<1>2. \A y \in UsageRecords : y.cost \in Nat /\ Overrun(y) \in Nat
  BY RecordAmounts
<1> HIDE DEF x
<1>3. /\ n \in Nat /\ DOMAIN u = 1..n /\ DOMAIN t = 1..(n + 1) /\ t[n + 1] = x
      /\ ToSet(t) = ToSet(u) \cup {x} /\ \A i \in 1..n : t[i] = u[i]
  BY <1>1, MoreInSet
<1>4. \A i \in 1..n : u[i] \in UsageRecords
  BY LenProperties
<1> HIDE DEF t, n
<1>5. ConsumedIn(t) = ConsumedIn(u) \cup ({id} \ {NoReservation})
  BY <1>1, <1>3 DEF ConsumedIn
<1>6. CostsIn(u) \in [1..n -> Nat] /\ OverrunsIn(u) \in [1..n -> Nat]
  BY <1>2, <1>3, <1>4 DEF CostsIn, OverrunsIn
<1>7. CostsIn(u) \in Seq(Nat) /\ OverrunsIn(u) \in Seq(Nat)
  BY <1>3, <1>6, SeqDef
<1>8. Len(CostsIn(u)) = n /\ Len(OverrunsIn(u)) = n
  BY <1>3, <1>6, <1>7, LenProperties
<1>9. CostsIn(t) \in [1..(n + 1) -> Nat] /\ OverrunsIn(t) \in [1..(n + 1) -> Nat]
  <2>1. \A i \in 1..(n + 1) : t[i] \in UsageRecords
    BY <1>1, <1>3, <1>4
  <2> QED
    BY <1>2, <1>3, <2>1 DEF CostsIn, OverrunsIn
<1>10. CostsIn(t) \in Seq(Nat) /\ OverrunsIn(t) \in Seq(Nat)
  BY <1>3, <1>9, SeqDef
<1>11. Len(CostsIn(t)) = n + 1 /\ Len(OverrunsIn(t)) = n + 1
  BY <1>3, <1>9, <1>10, LenProperties
<1>12. CostsIn(t) = Append(CostsIn(u), x.cost)
  <2> DEFINE s == Append(CostsIn(u), x.cost)
  <2>1. x.cost \in Nat
    BY <1>1, <1>2
  <2>2. /\ s \in Seq(Nat) /\ Len(s) = n + 1 /\ s[n + 1] = x.cost
        /\ \A i \in 1..n : s[i] = CostsIn(u)[i]
    BY <1>7, <1>8, <2>1, AppendProperties
  <2> HIDE DEF s
  <2>3. \A i \in 1..(n + 1) : CostsIn(t)[i] = s[i]
    BY <1>3, <2>2 DEF CostsIn
  <2>4. CostsIn(t) = s
    BY <1>10, <1>11, <2>2, <2>3, SeqEqual
  <2> QED
    BY <2>4 DEF s
<1>13. OverrunsIn(t) = Append(OverrunsIn(u), Overrun(x))
  <2> DEFINE s == Append(OverrunsIn(u), Overrun(x))
  <2>1. Overrun(x) \in Nat
    BY <1>1, <1>2
  <2>2. /\ s \in Seq(Nat) /\ Len(s) = n + 1 /\ s[n + 1] = Overrun(x)
        /\ \A i \in 1..n : s[i] = OverrunsIn(u)[i]
    BY <1>7, <1>8, <2>1, AppendProperties
  <2> HIDE DEF s
  <2>3. \A i \in 1..(n + 1) : OverrunsIn(t)[i] = s[i]
    BY <1>3, <2>2 DEF OverrunsIn
  <2>4. OverrunsIn(t) = s
    BY <1>10, <1>11, <2>2, <2>3, SeqEqual
  <2> QED
    BY <2>4 DEF s
<1> QED
  BY <1>1, <1>2, <1>5, <1>7, <1>12, <1>13 DEF t, x

LEMMA RisingMore ==
  ASSUME NEW v \in Seq(CapRecords), NEW n \in Nat \ {0}, Rising(v), v # <<>> => Last(v).cap < n
  PROVE  /\ Rising(Append(v, Capped(n))) /\ Append(v, Capped(n)) \in Seq(CapRecords)
         /\ Append(v, Capped(n)) # <<>> /\ Last(Append(v, Capped(n))).cap = n
<1> DEFINE x == Capped(n)
           t == Append(v, x)
           m == Len(v)
<1>1. x \in CapRecords /\ x.cap = n
  BY DEF Capped, CapRecords
<1> HIDE DEF x
<1>2. /\ m \in Nat /\ Len(t) = m + 1 /\ t[m + 1] = x /\ \A i \in 1..m : t[i] = v[i]
      /\ t \in Seq(CapRecords) /\ t # <<>>
  BY <1>1, AppendProperties, MoreInSet
<1>3. m > 0 => v # <<>>
  OBVIOUS
<1>4. Last(v) = v[m]
  BY DEF Last
<1> HIDE DEF t, m
<1>5. ASSUME NEW i \in 1..m PROVE t[i].cap < t[i + 1].cap
  <2>1. CASE i = m
    BY <1>1, <1>2, <1>3, <1>4, <1>5, <2>1
  <2>2. CASE i # m
    <3>1. i \in 1..(m - 1) /\ i + 1 \in 1..m
      BY <1>2, <1>5, <2>2
    <3> QED
      BY <1>2, <3>1 DEF Rising, m
  <2> QED
    BY <2>1, <2>2
<1>6. Rising(t) /\ Last(t).cap = n
  BY <1>1, <1>2, <1>5 DEF Rising, Last
<1> QED
  BY <1>2, <1>6 DEF t, x

-----------------------------------------------------------------------------
\* What a reload computes from orderly books.

\* The reservations file is one the loader accepts and reads as a set difference.
LEMMA ActiveIs ==
  ASSUME Holds \in Seq(HoldRecords), Orderly(Holds), NEW n \in 0..Len(Holds), NEW r \in Reservations
  PROVE  r \in ActiveAfter(n) <=>
            /\ \E i \in 1..n : Holds[i] = Entry("reserve", r)
            /\ \A j \in 1..n : Holds[j] # Entry("release", r)
<1> DEFINE h == Holds
<1>0. h \in Seq(HoldRecords) /\ Orderly(h)
  OBVIOUS
<1>1. r \in ActiveAfter(n) <=>
         \E i \in 1..n : h[i] = Entry("reserve", r) /\ \A j \in (i + 1)..n : h[j].id # r
  BY DEF ActiveAfter
<1> HIDE DEF h
<1>2. /\ Len(h) \in Nat /\ n \in Nat /\ n <= Len(h) /\ DOMAIN h = 1..Len(h)
      /\ \A i \in 1..n : h[i] \in HoldRecords /\ i \in DOMAIN h
  BY <1>0, LenProperties DEF h
<1>3. \A i \in 1..n : /\ h[i] = Entry(h[i].kind, h[i].id)
                      /\ h[i].kind \in {"reserve", "release"}
  BY <1>2, EntryTyped
<1>4. Entry("reserve", r) # Entry("release", r) /\ Entry("release", r).kind = "release"
      /\ Entry("release", r).id = r
  BY DEF Entry
<1>5. ASSUME NEW i \in 1..n, h[i] = Entry("reserve", r), \A j \in (i + 1)..n : h[j].id # r,
             NEW j \in 1..n, h[j] = Entry("release", r)
      PROVE  FALSE
  <2>1. h[j].id = r /\ h[j].kind = "release"
    BY <1>4, <1>5
  <2>2. PICK k \in 1..(j - 1) : h[k] = Entry("reserve", r)
    BY <1>0, <1>2, <2>1 DEF Orderly
  <2>3. k \in 1..n /\ k < j
    BY <1>2, <2>2
  <2>4. k = i
    BY <1>0, <1>2, <1>5, <2>2, <2>3 DEF Orderly
  <2>5. j \in (i + 1)..n
    BY <1>2, <2>3, <2>4
  <2> QED
    BY <1>5, <2>1, <2>5
<1>6. ASSUME NEW i \in 1..n, h[i] = Entry("reserve", r),
             \A j \in 1..n : h[j] # Entry("release", r), NEW j \in (i + 1)..n, h[j].id = r
      PROVE  FALSE
  <2>1. j \in 1..n /\ j # i
    BY <1>2
  <2>2. h[j] = Entry("reserve", r)
    BY <1>3, <1>6, <2>1
  <2> QED
    BY <1>0, <1>2, <1>6, <2>1, <2>2 DEF Orderly
<1>7. r \in ActiveAfter(n) <=>
         /\ \E i \in 1..n : h[i] = Entry("reserve", r)
         /\ \A j \in 1..n : h[j] # Entry("release", r)
  BY <1>1, <1>5, <1>6
<1> QED
  BY <1>7 DEF h

LEMMA OrderlyReplays ==
  ASSUME Holds \in Seq(HoldRecords), Orderly(Holds)
  PROVE  Replays
<1> SUFFICES ASSUME NEW n \in DOMAIN Holds
             PROVE  (Holds[n].kind = "reserve") <=> (Holds[n].id \notin ActiveAfter(n - 1))
  BY DEF Replays
<1> DEFINE e == Holds[n]
           m == n - 1
<1>1. /\ Len(Holds) \in Nat /\ DOMAIN Holds = 1..Len(Holds) /\ e \in HoldRecords
      /\ m \in 0..Len(Holds) /\ \A i \in 1..m : i \in DOMAIN Holds /\ i # n
  BY LenProperties
<1>2. e = Entry(e.kind, e.id) /\ e.id \in Reservations /\ e.kind \in {"reserve", "release"}
  BY <1>1, EntryTyped
<1>3. e.id \in ActiveAfter(m) <=>
         /\ \E i \in 1..m : Holds[i] = Entry("reserve", e.id)
         /\ \A j \in 1..m : Holds[j] # Entry("release", e.id)
  BY <1>1, <1>2, ActiveIs
<1>4. CASE e.kind = "reserve"
  <2>1. \A i \in 1..m : Holds[i] # e
    BY <1>1 DEF Orderly
  <2> QED
    BY <1>2, <1>3, <1>4, <2>1
<1>5. CASE e.kind = "release"
  <2>1. \A i \in 1..m : Holds[i] # e
    BY <1>1 DEF Orderly
  <2>2. \E i \in 1..m : Holds[i] = Entry("reserve", e.id)
    BY <1>5 DEF Orderly
  <2> QED
    BY <1>2, <1>3, <1>5, <2>1, <2>2
<1> QED
  BY <1>2, <1>4, <1>5

Unsettled == (Ids("reserve") \ Ids("release")) \ Consumed

LEMMA OpenIsUnsettled ==
  ASSUME Holds \in Seq(HoldRecords), Orderly(Holds)
  PROVE  Open = Unsettled
<1>1. Len(Holds) \in 0..Len(Holds) /\ DOMAIN Holds = 1..Len(Holds)
  BY LenProperties
<1>2. /\ Ids("reserve") = IdsIn(Holds, "reserve") /\ Ids("release") = IdsIn(Holds, "release")
      /\ Ids("reserve") \subseteq Reservations
  BY IdsAre DEF Ids, IdsIn, Holds
<1>3. \A r \in Reservations :
         r \in ActiveAfter(Len(Holds)) <=> r \in Ids("reserve") \ Ids("release")
  BY <1>1, <1>2, ActiveIs, IdsAre
<1>4. ActiveAfter(Len(Holds)) \subseteq Reservations
  BY DEF ActiveAfter
<1>5. ActiveAfter(Len(Holds)) = Ids("reserve") \ Ids("release")
  BY <1>2, <1>3, <1>4
<1> QED
  BY <1>5 DEF Open, Unsettled

-----------------------------------------------------------------------------
\* The inductive invariant.

Writes == [to : Names, record : CapRecords \cup UsageRecords \cup HoldRecords]

FilesTyped ==
    /\ chain = [name \in Names |-> chain[name]]
    /\ chain["revisions"] \in Seq(CapRecords)
    /\ chain["usage"] \in Seq(UsageRecords)
    /\ Holds \in Seq(HoldRecords)
    /\ tail \in [Names -> {"whole", "unterminated", "torn"}]

MemoryTyped ==
    /\ lock \in Clients \cup {NoClient}
    /\ todo \in [Clients -> Seq(Writes)]
    /\ granted \in [Clients -> SUBSET Reservations]
    /\ drawn \subseteq Reservations
    /\ sealed \in BOOLEAN

\* The files only say what their loader accepts.
Books ==
    /\ Orderly(Holds) /\ UsedOnce(chain["usage"]) /\ Rising(chain["revisions"])
    /\ Ids("reserve") \subseteq drawn
    /\ Consumed \subseteq Ids("reserve")

\* A record that may be appended now: what the operation decided under the lock still
\* holds when it gets to write.
Due(w) ==
    \/ /\ chain["revisions"] = <<>> /\ w = Write("revisions", Capped(InitialCap))
    \/ /\ chain["revisions"] # <<>>
       /\ \E n \in 1..CapLimit : n > Cap /\ w = Write("revisions", Capped(n))
    \/ /\ Turn <= Cap - Spent - Turn * Cardinality(Unsettled)
       /\ \E r \in drawn \ Ids("reserve") : w = Write("reservations", Entry("reserve", r))
    \/ \E r \in Unsettled : w = Write("reservations", Entry("release", r))
    \/ \E r \in Unsettled, cost \in Costs : w = Write("usage", Usage(r, cost))
    \/ \E cost \in Costs :
          Spent + cost <= SpendLimit /\ w = Write("usage", Usage(NoReservation, cost))

\* Only release_all_active appends more than one record.
Releases(writes) ==
    /\ \A i \in DOMAIN writes : \E r : writes[i] = Write("reservations", Entry("release", r))
    /\ \A i, j \in DOMAIN writes : writes[i] = writes[j] => i = j

Pending(c) ==
    /\ todo[c] # <<>> => lock = c /\ ~sealed
    /\ \A i \in DOMAIN todo[c] : Due(todo[c][i])
    /\ Len(todo[c]) <= 1 \/ Releases(todo[c])

\* A hold a thread was granted is missing only from books that nobody can read.
Booked == tail["reservations"] # "torn" => \A c \in Clients : granted[c] \subseteq Ids("reserve")

ChainsInv == FilesTyped /\ MemoryTyped /\ Books /\ Booked /\ \A c \in Clients : Pending(c)

Overspent == Total(OverrunsIn(chain["usage"]))

LEMMA FilesSay ==
  /\ Ids("reserve") = IdsIn(Holds, "reserve") /\ Ids("release") = IdsIn(Holds, "release")
  /\ Consumed = ConsumedIn(chain["usage"]) /\ Spent = Total(CostsIn(chain["usage"]))
  /\ Ids("reserve")' = IdsIn(Holds', "reserve") /\ Ids("release")' = IdsIn(Holds', "release")
  /\ Consumed' = ConsumedIn(chain'["usage"]) /\ Spent' = Total(CostsIn(chain'["usage"]))
BY DEF Ids, IdsIn, Holds, Consumed, ConsumedIn, Spent, CostsIn

SameHolds == Ids("reserve")' = Ids("reserve") /\ Ids("release")' = Ids("release")
SameUsage == Consumed' = Consumed /\ Spent' = Spent /\ Overspent' = Overspent
SameCap == Cap' = Cap

LEMMA HoldsStay ==
  ASSUME Holds' = Holds
  PROVE  SameHolds
BY FilesSay DEF SameHolds

LEMMA UsageStays ==
  ASSUME chain'["usage"] = chain["usage"]
  PROVE  SameUsage
BY FilesSay DEF SameUsage, Overspent

LEMMA CapStays ==
  ASSUME chain'["revisions"] = chain["revisions"]
  PROVE  SameCap
BY DEF SameCap, Cap

LEMMA MoneyTyped ==
  ASSUME FilesTyped
  PROVE  /\ Cap \in Nat \ {0} /\ Spent \in Nat /\ Overspent \in Nat
         /\ Unsettled \subseteq Reservations /\ IsFiniteSet(Unsettled)
         /\ Cardinality(Unsettled) \in Nat
<1>1. Cap \in Nat \ {0}
  <2>1. CASE chain["revisions"] = <<>>
    BY <2>1, ChainsAssumption DEF Cap
  <2>2. CASE chain["revisions"] # <<>>
    <3> DEFINE v == chain["revisions"]
    <3>1. Len(v) \in DOMAIN v /\ v[Len(v)] \in CapRecords
      BY <2>2, LenProperties DEF FilesTyped
    <3> QED
      BY <2>2, <3>1 DEF Cap, Last, CapRecords
  <2> QED
    BY <2>1, <2>2
<1>2. Spent \in Nat /\ Overspent \in Nat
  <2> DEFINE u == chain["usage"]
             n == Len(u)
  <2>1. u \in Seq(UsageRecords) /\ n \in Nat /\ DOMAIN u = 1..n /\ \A i \in 1..n : u[i] \in UsageRecords
    BY LenProperties DEF FilesTyped
  <2> HIDE DEF u, n
  <2>2. \A y \in UsageRecords : y.cost \in Nat /\ Overrun(y) \in Nat
    BY RecordAmounts
  <2>3. CostsIn(u) \in [1..n -> Nat] /\ OverrunsIn(u) \in [1..n -> Nat]
    BY <2>1, <2>2 DEF CostsIn, OverrunsIn
  <2>4. CostsIn(u) \in Seq(Nat) /\ OverrunsIn(u) \in Seq(Nat)
    BY <2>1, <2>3, SeqDef
  <2> QED
    BY <2>4, TotalIsNat, FilesSay DEF Overspent, u
<1>3. Unsettled \subseteq Reservations
  BY FilesSay, IdsAre DEF FilesTyped, Unsettled
<1>4. IsFiniteSet(Unsettled)
  BY <1>3, FS_Subset, ChainsAssumption
<1>5. Cardinality(Unsettled) \in Nat
  BY <1>4, FS_CardinalityType
<1> QED
  BY <1>1, <1>2, <1>3, <1>4, <1>5

-----------------------------------------------------------------------------
\* What a whole record does to the books, one lemma per file.

Appends(w) == chain' = [chain EXCEPT ![w.to] = Append(chain[w.to], w.record)]

LEMMA AppendsTo ==
  ASSUME FilesTyped, NEW w, NEW name \in Names, NEW record,
         w = Write(name, record), Appends(w)
  PROVE  /\ chain' = [other \in Names |-> chain'[other]]
         /\ chain'[name] = Append(chain[name], record)
         /\ \A other \in Names \ {name} : chain'[other] = chain[other]
<1>1. w.to = name /\ w.record = record
  BY DEF Write
<1> QED
  BY <1>1 DEF Appends, FilesTyped

\* The files after a step, as far as records are concerned.
ChainsKept ==
    /\ chain' = [name \in Names |-> chain'[name]]
    /\ chain'["revisions"] \in Seq(CapRecords)
    /\ chain'["usage"] \in Seq(UsageRecords)
    /\ Holds' \in Seq(HoldRecords)
    /\ Books'

LEMMA CapAppended ==
  ASSUME FilesTyped, Books, NEW w, NEW n \in Nat \ {0}, w = Write("revisions", Capped(n)),
         Appends(w), chain["revisions"] # <<>> => n > Cap, drawn' = drawn
  PROVE  ChainsKept /\ SameHolds /\ SameUsage /\ Cap' = n
<1> DEFINE v == chain["revisions"]
<1>1. /\ chain' = [name \in Names |-> chain'[name]]
      /\ chain'["revisions"] = Append(v, Capped(n))
      /\ chain'["usage"] = chain["usage"] /\ Holds' = Holds
  BY AppendsTo DEF Names, Holds
<1>2. v # <<>> => Last(v).cap < n
  <2>1. v # <<>> => Cap = Last(v).cap
    BY DEF Cap
  <2>2. Cap \in Nat
    BY MoneyTyped
  <2> QED
    BY <2>1, <2>2
<1>3. v \in Seq(CapRecords) /\ Rising(v)
  BY DEF FilesTyped, Books
<1>4. /\ Rising(chain'["revisions"]) /\ chain'["revisions"] \in Seq(CapRecords)
      /\ chain'["revisions"] # <<>> /\ Last(chain'["revisions"]).cap = n
  <2> HIDE DEF v
  <2> QED
    BY <1>1, <1>2, <1>3, RisingMore
<1>5. SameHolds /\ SameUsage
  BY <1>1, HoldsStay, UsageStays
<1>6. Cap' = n
  BY <1>4 DEF Cap
<1>7. Books'
  BY <1>1, <1>4, <1>5 DEF Books, SameHolds, SameUsage
<1> QED
  BY <1>1, <1>4, <1>5, <1>6, <1>7 DEF ChainsKept, FilesTyped

LEMMA HoldAppended ==
  ASSUME FilesTyped, Books, NEW w, NEW kind \in {"reserve", "release"}, NEW r \in Reservations,
         w = Write("reservations", Entry(kind, r)), Appends(w), drawn' = drawn,
         r \notin Ids(kind), kind = "reserve" => r \in drawn,
         kind = "release" => r \in Ids("reserve")
  PROVE  /\ ChainsKept /\ SameUsage /\ SameCap
         /\ Ids(kind)' = Ids(kind) \cup {r}
         /\ \A other \in {"reserve", "release"} \ {kind} : Ids(other)' = Ids(other)
<1> DEFINE e == Entry(kind, r)
<1>1. /\ chain' = [name \in Names |-> chain'[name]]
      /\ Holds' = Append(Holds, e)
      /\ chain'["usage"] = chain["usage"] /\ chain'["revisions"] = chain["revisions"]
  BY AppendsTo DEF Names, Holds
<1>2. Holds \in Seq(HoldRecords) /\ Orderly(Holds)
  BY DEF FilesTyped, Books
<1>3. /\ \A k : Ids(k) = IdsIn(Holds, k) /\ Ids(k)' = IdsIn(Holds', k)
  BY DEF Ids, IdsIn, Holds
<1>4. /\ Ids(kind)' = Ids(kind) \cup {r}
      /\ \A other \in {"reserve", "release"} \ {kind} : Ids(other)' = Ids(other)
  <2> HIDE DEF e
  <2>1. /\ IdsIn(Append(Holds, e), kind) = IdsIn(Holds, kind) \cup {r}
        /\ \A other \in {"reserve", "release"} \ {kind} :
               IdsIn(Append(Holds, e), other) = IdsIn(Holds, other)
    BY <1>2, IdsMore DEF e
  <2> QED
    BY <1>1, <1>3, <2>1
<1>5. e \in HoldRecords /\ e.kind = kind /\ e.id = r
  BY DEF Entry, HoldRecords
<1>6. \A i \in DOMAIN Holds : Holds[i] # e
  BY <1>2, <1>3, IdsAre
<1>7. kind = "release" => \E i \in DOMAIN Holds : Holds[i] = Entry("reserve", r)
  BY <1>2, <1>3, IdsAre
<1>8. Holds' \in Seq(HoldRecords) /\ Orderly(Holds')
  <2> HIDE DEF e
  <2> QED
    BY <1>1, <1>2, <1>5, <1>6, <1>7, OrderlyMore, MoreInSet
<1>9. SameUsage /\ SameCap
  BY <1>1, UsageStays, CapStays
<1>10. Ids("reserve")' \subseteq drawn' /\ Consumed' \subseteq Ids("reserve")'
  BY <1>4, <1>9 DEF Books, SameUsage
<1>11. Books'
  BY <1>1, <1>8, <1>10 DEF Books
<1> QED
  BY <1>1, <1>4, <1>8, <1>9, <1>11 DEF ChainsKept, FilesTyped

LEMMA UsageAppended ==
  ASSUME FilesTyped, Books, NEW w, NEW id \in Reservations \cup {NoReservation},
         NEW cost \in Costs, w = Write("usage", Usage(id, cost)), Appends(w), drawn' = drawn,
         id # NoReservation => id \in Unsettled
  PROVE  /\ ChainsKept /\ SameHolds /\ SameCap
         /\ Consumed' = Consumed \cup ({id} \ {NoReservation})
         /\ Spent' = Spent + cost /\ Overspent' = Overspent + Overrun(Usage(id, cost))
<1> DEFINE x == Usage(id, cost)
           u == chain["usage"]
           t == Append(u, x)
<1>1. /\ chain' = [name \in Names |-> chain'[name]]
      /\ chain'["usage"] = t
      /\ Holds' = Holds /\ chain'["revisions"] = chain["revisions"]
  BY AppendsTo DEF Names, Holds
<1>2. u \in Seq(UsageRecords) /\ UsedOnce(u)
  BY DEF FilesTyped, Books
<1>3. x \in UsageRecords /\ x.id = id /\ x.cost = cost
  BY DEF Usage, UsageRecords
<1>4. Consumed = ConsumedIn(u) /\ Consumed' = ConsumedIn(t)
      /\ Spent = Total(CostsIn(u)) /\ Spent' = Total(CostsIn(t))
      /\ Overspent = Total(OverrunsIn(u)) /\ Overspent' = Total(OverrunsIn(t))
  BY <1>1, FilesSay DEF Overspent
<1> HIDE DEF u
<1>5. /\ ConsumedIn(t) = ConsumedIn(u) \cup ({id} \ {NoReservation})
      /\ CostsIn(u) \in Seq(Nat) /\ OverrunsIn(u) \in Seq(Nat)
      /\ CostsIn(t) = Append(CostsIn(u), cost)
      /\ OverrunsIn(t) = Append(OverrunsIn(u), Overrun(x))
      /\ cost \in Nat /\ Overrun(x) \in Nat
  BY <1>2, UsageMore
<1>6. Spent' = Spent + cost /\ Overspent' = Overspent + Overrun(x)
  <2> HIDE DEF x, t
  <2> QED
    BY <1>4, <1>5, TotalOfMore
<1>7. UsedOnce(t) /\ t \in Seq(UsageRecords)
  <2>1. id # NoReservation => id \notin ConsumedIn(u)
    BY <1>4 DEF Unsettled
  <2> HIDE DEF x
  <2> QED
    BY <1>2, <1>3, <2>1, UsedOnceMore, MoreInSet
<1>8. SameHolds /\ SameCap
  BY <1>1, HoldsStay, CapStays
<1>9. Ids("reserve")' \subseteq drawn' /\ Consumed' \subseteq Ids("reserve")'
  BY <1>4, <1>5, <1>8 DEF Books, SameHolds, Unsettled
<1>10. Books'
  BY <1>1, <1>7, <1>9 DEF Books
<1> QED
  BY <1>1, <1>4, <1>5, <1>6, <1>7, <1>8, <1>10 DEF ChainsKept, FilesTyped

\* What the six kinds of records do.
FirstCap(w) ==
    /\ w = Write("revisions", Capped(InitialCap)) /\ SameHolds /\ SameUsage /\ SameCap
NextCap(w) ==
    \E n \in 1..CapLimit :
        w = Write("revisions", Capped(n)) /\ n > Cap /\ Cap' = n /\ SameHolds /\ SameUsage
Reserves(w) ==
    \E r \in Reservations :
        /\ w = Write("reservations", Entry("reserve", r))
        /\ r \notin Ids("reserve") /\ Turn <= Cap - Spent - Turn * Cardinality(Unsettled)
        /\ Ids("reserve")' = Ids("reserve") \cup {r}
        /\ Ids("release")' = Ids("release") /\ SameUsage /\ SameCap
Frees(w) ==
    \E r \in Unsettled :
        /\ w = Write("reservations", Entry("release", r))
        /\ Ids("release")' = Ids("release") \cup {r}
        /\ Ids("reserve")' = Ids("reserve") /\ SameUsage /\ SameCap
Charges(w) ==
    \E r \in Unsettled, cost \in Costs :
        /\ w = Write("usage", Usage(r, cost))
        /\ Consumed' = Consumed \cup {r} /\ Spent' = Spent + cost
        /\ Overspent' = Overspent + (IF cost > Turn THEN cost - Turn ELSE 0)
        /\ SameHolds /\ SameCap
ChargesFreely(w) ==
    \E cost \in Costs :
        /\ w = Write("usage", Usage(NoReservation, cost))
        /\ Spent + cost <= SpendLimit
        /\ Consumed' = Consumed /\ Spent' = Spent + cost /\ Overspent' = Overspent + cost
        /\ SameHolds /\ SameCap

Effect(w) ==
    \/ FirstCap(w) \/ NextCap(w) \/ Reserves(w)
    \/ Frees(w) \/ Charges(w) \/ ChargesFreely(w)

LEMMA DueEffect ==
  ASSUME FilesTyped, Books, drawn \subseteq Reservations, NEW w, Due(w), Appends(w), drawn' = drawn
  PROVE  ChainsKept /\ Effect(w)
<1>0. Unsettled \subseteq Reservations /\ Unsettled \subseteq Ids("reserve") \ Ids("release")
  BY MoneyTyped DEF Unsettled
<1>1. CASE chain["revisions"] = <<>> /\ w = Write("revisions", Capped(InitialCap))
  <2>1. InitialCap \in Nat \ {0} /\ Cap = InitialCap
    BY <1>1, ChainsAssumption DEF Cap
  <2>2. ChainsKept /\ SameHolds /\ SameUsage /\ Cap' = InitialCap
    BY <1>1, <2>1, CapAppended
  <2> QED
    BY <1>1, <2>1, <2>2 DEF Effect, FirstCap, SameCap
<1>2. CASE /\ chain["revisions"] # <<>>
           /\ \E n \in 1..CapLimit : n > Cap /\ w = Write("revisions", Capped(n))
  <2>1. PICK n \in 1..CapLimit : n > Cap /\ w = Write("revisions", Capped(n))
    BY <1>2
  <2>2. n \in Nat \ {0}
    BY ChainsAssumption
  <2>3. ChainsKept /\ SameHolds /\ SameUsage /\ Cap' = n
    BY <2>1, <2>2, CapAppended
  <2> QED
    BY <2>1, <2>3 DEF Effect, NextCap
<1>3. CASE /\ Turn <= Cap - Spent - Turn * Cardinality(Unsettled)
           /\ \E r \in drawn \ Ids("reserve") : w = Write("reservations", Entry("reserve", r))
  <2>1. PICK r \in drawn \ Ids("reserve") : w = Write("reservations", Entry("reserve", r))
    BY <1>3
  <2>2. ChainsKept /\ SameUsage /\ SameCap /\ Ids("reserve")' = Ids("reserve") \cup {r}
        /\ Ids("release")' = Ids("release")
    BY <2>1, HoldAppended
  <2> QED
    BY <1>3, <2>1, <2>2 DEF Effect, Reserves
<1>4. CASE \E r \in Unsettled : w = Write("reservations", Entry("release", r))
  <2>1. PICK r \in Unsettled : w = Write("reservations", Entry("release", r))
    BY <1>4
  <2>2. ChainsKept /\ SameUsage /\ SameCap /\ Ids("release")' = Ids("release") \cup {r}
        /\ Ids("reserve")' = Ids("reserve")
    BY <1>0, <2>1, HoldAppended
  <2> QED
    BY <2>1, <2>2 DEF Effect, Frees
<1>5. CASE \E r \in Unsettled, cost \in Costs : w = Write("usage", Usage(r, cost))
  <2>1. PICK r \in Unsettled, cost \in Costs : w = Write("usage", Usage(r, cost))
    BY <1>5
  <2>2. r \in Reservations /\ r # NoReservation
    BY <1>0, ChainsAssumption
  <2>3. /\ ChainsKept /\ SameHolds /\ SameCap
        /\ Consumed' = Consumed \cup ({r} \ {NoReservation})
        /\ Spent' = Spent + cost /\ Overspent' = Overspent + Overrun(Usage(r, cost))
    BY <2>1, <2>2, UsageAppended
  <2>4. Overrun(Usage(r, cost)) = IF cost > Turn THEN cost - Turn ELSE 0
    BY <2>2 DEF Overrun, Usage
  <2>5. {r} \ {NoReservation} = {r}
    BY <2>2
  <2> QED
    BY <2>1, <2>3, <2>4, <2>5 DEF Effect, Charges
<1>6. CASE \E cost \in Costs :
             Spent + cost <= SpendLimit /\ w = Write("usage", Usage(NoReservation, cost))
  <2>1. PICK cost \in Costs :
           Spent + cost <= SpendLimit /\ w = Write("usage", Usage(NoReservation, cost))
    BY <1>6
  <2>2. /\ ChainsKept /\ SameHolds /\ SameCap
        /\ Consumed' = Consumed \cup ({NoReservation} \ {NoReservation})
        /\ Spent' = Spent + cost /\ Overspent' = Overspent + Overrun(Usage(NoReservation, cost))
    BY <2>1, UsageAppended
  <2>3. Overrun(Usage(NoReservation, cost)) = cost
    BY DEF Overrun, Usage
  <2>4. Consumed' = Consumed
    BY <2>2
  <2> QED
    BY <2>1, <2>2, <2>3, <2>4 DEF Effect, ChargesFreely
<1> QED
  BY <1>1, <1>2, <1>3, <1>4, <1>5, <1>6 DEF Due

\* The other releases of release_all_active are due after one of them was appended.
LEMMA ReleasesStayDue ==
  ASSUME NEW w, Frees(w), NEW v, Due(v), v # w, drawn' = drawn,
         \E r : v = Write("reservations", Entry("release", r))
  PROVE  Due(v)'
<1>0. /\ \A name, record : Write(name, record).to = name /\ Write(name, record).record = record
      /\ \A kind, r : Entry(kind, r).kind = kind
  BY DEF Write, Entry
<1>1. PICK r \in Unsettled : v = Write("reservations", Entry("release", r))
  <2>1. v.to = "reservations" /\ v.record.kind = "release"
    BY <1>0
  <2> QED
    BY <1>0, <2>1 DEF Due
<1>2. PICK q \in Unsettled :
         /\ w = Write("reservations", Entry("release", q))
         /\ Ids("release")' = Ids("release") \cup {q}
         /\ Ids("reserve")' = Ids("reserve") /\ SameUsage
  BY DEF Frees
<1>3. r # q
  BY <1>1, <1>2
<1>4. r \in Unsettled'
  BY <1>1, <1>2, <1>3 DEF Unsettled, SameUsage
<1>5. \E x \in Unsettled' : v = Write("reservations", Entry("release", x))
  BY <1>1, <1>4
<1> QED
  BY <1>5 DEF Due

-----------------------------------------------------------------------------
\* The invariant is preserved.

LEMMA DueStays ==
  ASSUME NEW w, Due(w), chain' = chain, drawn \subseteq drawn'
  PROVE  Due(w)'
<1>1. Cap' = Cap /\ Spent' = Spent /\ Ids("reserve")' = Ids("reserve") /\ Unsettled' = Unsettled
  BY FilesSay DEF Cap, Holds, Unsettled
<1> QED
  BY <1>1 DEF Due

LEMMA BooksStay ==
  ASSUME Books, chain' = chain, drawn \subseteq drawn'
  PROVE  Books'
BY FilesSay DEF Books, Holds

\* An operation that enters with records that are due.
LEMMA BeginKeeps ==
  ASSUME ChainsInv, NEW c \in Clients, NEW writes \in Seq(Writes), Begin(c, writes),
         granted' = granted, drawn \subseteq drawn', drawn' \subseteq Reservations,
         \A i \in DOMAIN writes : Due(writes[i])', Len(writes) <= 1 \/ Releases(writes)
  PROVE  ChainsInv'
<1>1. /\ lock = NoClient /\ ~sealed /\ lock' = c /\ chain' = chain /\ tail' = tail
      /\ sealed' = sealed /\ todo' = [todo EXCEPT ![c] = writes]
  BY DEF Begin
<1>2. FilesTyped' /\ MemoryTyped'
  BY <1>1 DEF ChainsInv, FilesTyped, MemoryTyped, Holds
<1>3. Books'
  BY <1>1, BooksStay DEF ChainsInv
<1>4. Booked'
  BY <1>1, FilesSay DEF ChainsInv, Booked, Holds
<1>5. \A d \in Clients : todo'[d] = IF d = c THEN writes ELSE <<>>
  <2>1. \A d \in Clients : todo[d] = <<>>
    BY <1>1, ChainsAssumption DEF ChainsInv, Pending
  <2> QED
    BY <1>1, <2>1 DEF ChainsInv, MemoryTyped
<1>6. ASSUME NEW d \in Clients PROVE Pending(d)'
  <2>1. CASE d = c
    BY <1>1, <1>5, <2>1 DEF Pending, Releases
  <2>2. CASE d # c
    <3>1. todo'[d] = <<>> /\ DOMAIN <<>> = {} /\ Len(<<>>) = 0
      BY <1>5, <2>2
    <3> QED
      BY <3>1 DEF Pending
  <2> QED
    BY <2>1, <2>2
<1> QED
  BY <1>2, <1>3, <1>4, <1>6 DEF ChainsInv

LEMMA OneWrite ==
  ASSUME NEW S, NEW w \in S
  PROVE  <<w>> \in Seq(S) /\ Len(<<w>>) = 1 /\ DOMAIN <<w>> = {1} /\ <<w>>[1] = w
OBVIOUS

\* What is left to append after the first record was.
LEMMA RestIsDue ==
  ASSUME ChainsInv, NEW c \in Clients, lock = c, ~sealed, todo[c] # <<>>,
         UNCHANGED <<lock, drawn, sealed>>, todo' = [todo EXCEPT ![c] = Tail(todo[c])],
         NEW w, w = Head(todo[c]), chain' = chain \/ Effect(w)
  PROVE  \A d \in Clients : Pending(d)'
<1>s. PICK s : s = todo[c]
  OBVIOUS
<1>t. PICK t : t = Tail(s)
  OBVIOUS
<1>1. /\ s \in Seq(Writes) /\ Len(s) \in Nat /\ Len(s) > 0 /\ DOMAIN s = 1..Len(s)
      /\ t \in Seq(Writes) /\ Len(t) = Len(s) - 1 /\ DOMAIN t = 1..Len(t) /\ s[1] = w
      /\ \A i \in DOMAIN t : t[i] = s[i + 1] /\ i + 1 \in DOMAIN s /\ i + 1 # 1
  <2>1. s \in Seq(Writes) /\ s # <<>>
    BY <1>s DEF ChainsInv, MemoryTyped
  <2>2. Len(s) \in Nat /\ Len(s) > 0 /\ DOMAIN s = 1..Len(s) /\ s[1] = w
    BY <1>s, <2>1, LenProperties
  <2>3. /\ t \in Seq(Writes) /\ Len(t) = Len(s) - 1 /\ DOMAIN t = 1..Len(t)
        /\ \A i \in 1..Len(t) : t[i] = s[i + 1]
    BY <1>t, <2>1, HeadTailProperties, LenProperties
  <2> QED
    BY <2>1, <2>2, <2>3
<1>2. Pending(c)
  BY DEF ChainsInv
<1>3. todo'[c] = t /\ \A d \in Clients \ {c} : todo'[d] = todo[d]
  BY <1>s, <1>t DEF ChainsInv, MemoryTyped
<1>4. \A i \in DOMAIN s : Due(s[i])
  BY <1>2, <1>s DEF Pending
<1>5. Len(t) <= 1 \/ Releases(t)
  <2>1. CASE Len(s) <= 1
    BY <1>1, <2>1
  <2>2. CASE Releases(s)
    <3>1. Releases(t)
      <4>1. \A i, j \in DOMAIN t : t[i] = t[j] => i = j
        <5>1. ASSUME NEW i \in DOMAIN t, NEW j \in DOMAIN t, t[i] = t[j] PROVE i = j
          <6>1. s[i + 1] = s[j + 1] /\ i + 1 \in DOMAIN s /\ j + 1 \in DOMAIN s
            BY <1>1, <5>1
          <6>2. i + 1 = j + 1 /\ i \in Nat /\ j \in Nat
            BY <1>1, <2>2, <6>1 DEF Releases
          <6> QED
            BY <6>2
        <5> QED
          BY <5>1
      <4> QED
        BY <1>1, <2>2, <4>1 DEF Releases
    <3> QED
      BY <3>1
  <2> QED
    BY <1>2, <1>s, <2>1, <2>2 DEF Pending
<1>6. ASSUME NEW i \in DOMAIN t PROVE Due(t[i])'
  <2>1. PICK v : v = t[i] /\ Due(v)
    BY <1>1, <1>4
  <2>2. CASE chain' = chain
    BY <2>1, <2>2, DueStays
  <2>3. CASE Effect(w)
    <3>1. Releases(s)
      <4>1. Len(s) > 1
        BY <1>1
      <4> QED
        BY <1>1, <1>2, <1>s, <4>1 DEF Pending
    <3>2. v # w /\ v = s[i + 1]
      BY <1>1, <2>1, <3>1 DEF Releases
    <3>3. /\ \E r : v = Write("reservations", Entry("release", r))
          /\ \E r : w = Write("reservations", Entry("release", r))
      BY <1>1, <3>1, <3>2 DEF Releases
    <3>4. Frees(w)
      <4>1. /\ \A name, record : Write(name, record).to = name /\ Write(name, record).record = record
            /\ \A kind, r : Entry(kind, r).kind = kind
        BY DEF Write, Entry
      <4>2. w.to = "reservations" /\ w.record.kind = "release"
        BY <3>3, <4>1
      <4> QED
        BY <2>3, <4>1, <4>2 DEF Effect, FirstCap, NextCap, Reserves, Charges, ChargesFreely
    <3> QED
      BY <2>1, <3>2, <3>3, <3>4, ReleasesStayDue
  <2> QED
    BY <2>2, <2>3
<1>7. Pending(c)'
  BY <1>3, <1>5, <1>6 DEF Pending, Releases
<1>8. ASSUME NEW d \in Clients \ {c} PROVE Pending(d)'
  <2>1. todo'[d] = <<>> /\ DOMAIN <<>> = {} /\ Len(<<>>) = 0
    BY <1>3 DEF ChainsInv, Pending
  <2> QED
    BY <2>1 DEF Pending
<1> QED
  BY <1>7, <1>8

\* An append reaches the file, or leaves it for ever unreadable.
LEMMA AppendStep ==
  ASSUME ChainsInv, NEW c \in Clients, AppendNext(c)
  PROVE  /\ ChainsInv' /\ ~sealed /\ UNCHANGED sealed
         /\ chain' = chain \/ \E w : Effect(w)
<1>1. /\ lock = c /\ todo[c] # <<>> /\ UNCHANGED <<lock, drawn, sealed>>
      /\ todo' = [todo EXCEPT ![c] = Tail(todo[c])]
  BY DEF AppendNext
<1>2. PICK w : w = Head(todo[c])
  OBVIOUS
<1>3. PICK ending \in {"whole", "unterminated", "torn"} : AppendOutcome(w.to, w.record, ending)
  BY <1>2 DEF AppendNext
<1>4. /\ tail[w.to] # "torn"
      /\ granted' = [granted EXCEPT ![c] =
             IF w.to = "reservations" /\ w.record.kind = "reserve"
             THEN granted[c] \cup {w.record.id} ELSE granted[c]]
  BY <1>2 DEF AppendNext, Readable
<1>5. ~sealed /\ Due(w)
  <2>1. 1 \in DOMAIN todo[c] /\ todo[c][1] = w
    BY <1>1, <1>2, LenProperties DEF ChainsInv, MemoryTyped
  <2> QED
    BY <1>1, <2>1 DEF ChainsInv, Pending
<1>6. /\ w.to \in Names
      /\ w.to = "reservations" /\ w.record.kind = "reserve" =>
            \E r \in drawn \ Ids("reserve") : w = Write("reservations", Entry("reserve", r))
  <2>1. /\ \A name, record : Write(name, record).to = name /\ Write(name, record).record = record
        /\ \A kind, r : Entry(kind, r).kind = kind
    BY DEF Write, Entry
  <2> QED
    BY <1>5, <2>1 DEF Due, Names
<1>7. w.to = "reservations" /\ w.record.kind = "reserve" => w.record.id \in Reservations
  BY <1>6 DEF Write, Entry, ChainsInv, MemoryTyped
<1>8. \/ chain' = chain /\ tail' = [tail EXCEPT ![w.to] = "torn"]
      \/ /\ Appends(w) /\ ending # "torn" /\ tail' = [tail EXCEPT ![w.to] = ending]
  BY <1>3 DEF AppendOutcome, Appends
<1>9. chain' = chain \/ (ChainsKept /\ Effect(w))
  BY <1>1, <1>5, <1>8, DueEffect DEF ChainsInv, MemoryTyped
<1>10. FilesTyped' /\ Books'
  <2>1. tail' \in [Names -> {"whole", "unterminated", "torn"}]
    BY <1>6, <1>8 DEF ChainsInv, FilesTyped
  <2>2. CASE chain' = chain
    BY <1>1, <2>1, <2>2, BooksStay DEF ChainsInv, FilesTyped, Holds
  <2>3. CASE ChainsKept
    BY <2>1, <2>3 DEF ChainsKept, FilesTyped
  <2> QED
    BY <1>9, <2>2, <2>3
<1>11. MemoryTyped'
  <2>1. Tail(todo[c]) \in Seq(Writes)
    BY <1>1, HeadTailProperties DEF ChainsInv, MemoryTyped
  <2>2. todo' \in [Clients -> Seq(Writes)]
    BY <1>1, <2>1 DEF ChainsInv, MemoryTyped
  <2>3. granted' \in [Clients -> SUBSET Reservations]
    BY <1>4, <1>7 DEF ChainsInv, MemoryTyped
  <2> QED
    BY <1>1, <2>2, <2>3 DEF ChainsInv, MemoryTyped
<1>12. Booked'
  <2> SUFFICES ASSUME tail'["reservations"] # "torn"
               PROVE  \A d \in Clients : granted'[d] \subseteq Ids("reserve")'
    BY DEF Booked
  <2>1. Ids("reserve") \subseteq Ids("reserve")'
    BY <1>9, FilesSay DEF Effect, FirstCap, NextCap, Reserves, Frees, Charges, ChargesFreely,
       SameHolds, Holds
  <2>2. \A d \in Clients : granted[d] \subseteq Ids("reserve")
    <3>1. tail["reservations"] # "torn"
      BY <1>4, <1>6, <1>8 DEF ChainsInv, FilesTyped, Names
    <3> QED
      BY <3>1 DEF ChainsInv, Booked
  <2>3. CASE w.to = "reservations" /\ w.record.kind = "reserve"
    <3>1. Appends(w)
      BY <1>6, <1>8, <2>3 DEF ChainsInv, FilesTyped, Names
    <3>2. PICK r \in drawn \ Ids("reserve") : w = Write("reservations", Entry("reserve", r))
      BY <1>6, <2>3
    <3>3. w.record.id = r /\ r \in Reservations
      BY <3>2 DEF Write, Entry, ChainsInv, MemoryTyped
    <3>4. Ids("reserve")' = Ids("reserve") \cup {r}
      BY <1>1, <3>1, <3>2, <3>3, HoldAppended DEF ChainsInv
    <3> QED
      BY <1>4, <2>2, <2>3, <3>3, <3>4 DEF ChainsInv, MemoryTyped
  <2>4. CASE ~(w.to = "reservations" /\ w.record.kind = "reserve")
    <3>1. granted' = granted
      BY <1>4, <2>4 DEF ChainsInv, MemoryTyped
    <3> QED
      BY <2>1, <2>2, <3>1
  <2> QED
    BY <2>3, <2>4
<1>13. \A d \in Clients : Pending(d)'
  BY <1>1, <1>2, <1>5, <1>9, RestIsDue
<1> QED
  BY <1>1, <1>5, <1>9, <1>10, <1>11, <1>12, <1>13 DEF ChainsInv

\* Steps that end operations, or forget them.
LEMMA QuietStep ==
  ASSUME ChainsInv, chain' = chain, tail' = tail, drawn' = drawn,
         lock' \in Clients \cup {NoClient}, sealed' \in BOOLEAN,
         \A c \in Clients : granted'[c] \subseteq granted[c],
         granted' = [c \in Clients |-> granted'[c]], todo' = [c \in Clients |-> todo'[c]],
         \A c \in Clients : \/ todo'[c] = <<>>
                            \/ todo'[c] = todo[c] /\ lock' = lock /\ sealed' = sealed
  PROVE  ChainsInv'
<1>1. <<>> \in Seq(Writes) /\ DOMAIN <<>> = {} /\ Len(<<>>) = 0
  OBVIOUS
<1>2. FilesTyped'
  BY DEF ChainsInv, FilesTyped, Holds
<1>3. MemoryTyped'
  <2>1. \A c \in Clients : todo'[c] \in Seq(Writes) /\ granted'[c] \subseteq Reservations
    BY <1>1 DEF ChainsInv, MemoryTyped
  <2> QED
    BY <2>1 DEF ChainsInv, MemoryTyped
<1>4. Books'
  BY BooksStay DEF ChainsInv
<1>5. Booked'
  BY FilesSay DEF ChainsInv, Booked, Holds
<1>6. ASSUME NEW c \in Clients PROVE Pending(c)'
  <2>1. CASE todo'[c] = <<>>
    BY <1>1, <2>1 DEF Pending
  <2>2. CASE todo'[c] = todo[c] /\ lock' = lock /\ sealed' = sealed
    <3>1. Pending(c)
      BY DEF ChainsInv
    <3>2. \A i \in DOMAIN todo'[c] : Due(todo[c][i])'
      <4>1. ASSUME NEW i \in DOMAIN todo'[c] PROVE Due(todo[c][i])'
        <5>1. PICK w : w = todo[c][i] /\ Due(w)
          BY <2>2, <3>1, <4>1 DEF Pending
        <5>2. Due(w)'
          BY <5>1, DueStays
        <5> QED
          BY <2>2, <5>1, <5>2
      <4> QED
        BY <4>1
    <3> QED
      BY <2>2, <3>1, <3>2 DEF Pending, Releases
  <2> QED
    BY <2>1, <2>2
<1> QED
  BY <1>2, <1>3, <1>4, <1>5, <1>6 DEF ChainsInv

LEMMA OneRecordKeeps ==
  ASSUME ChainsInv, NEW c \in Clients, NEW w \in Writes, Begin(c, <<w>>), granted' = granted,
         drawn \subseteq drawn', drawn' \subseteq Reservations, Due(w)'
  PROVE  ChainsInv'
<1> DEFINE s == <<w>>
<1>1. s \in Seq(Writes) /\ Len(s) = 1 /\ DOMAIN s = {1} /\ s[1] = w
  BY OneWrite
<1> HIDE DEF s
<1>2. \A i \in DOMAIN s : Due(s[i])'
  <2>1. \A i \in DOMAIN s : s[i] = w
    BY <1>1
  <2>2. ASSUME NEW i \in DOMAIN s PROVE Due(s[i])'
    <3>1. s[i] = w
      BY <2>1
    <3> QED
      BY <3>1
  <2> QED
    BY <2>2
<1>3. Begin(c, s)
  BY DEF s
<1>4. Len(s) <= 1
  BY <1>1
<1> QED
  BY <1>1, <1>2, <1>3, <1>4, BeginKeeps

LEMMA BeginInitialCapStep ==
  ASSUME ChainsInv, NEW c \in Clients, BeginInitialCap(c)
  PROVE  ChainsInv'
<1> DEFINE w == Write("revisions", Capped(InitialCap))
<1>1. w \in Writes
  BY ChainsAssumption DEF Write, Capped, Writes, CapRecords, Names
<1>2. Begin(c, <<w>>) /\ granted' = granted /\ drawn' = drawn /\ chain' = chain
  BY DEF BeginInitialCap, Begin
<1>3. Due(w)
  BY DEF Due, BeginInitialCap
<1> HIDE DEF w
<1>4. Due(w)'
  BY <1>2, <1>3, DueStays DEF w
<1> QED
  BY <1>1, <1>2, <1>4, OneRecordKeeps DEF ChainsInv, MemoryTyped

LEMMA BeginReviseCapStep ==
  ASSUME ChainsInv, NEW c \in Clients, NEW n \in 1..CapLimit, BeginReviseCap(c, n)
  PROVE  ChainsInv'
<1> DEFINE w == Write("revisions", Capped(n))
<1>1. w \in Writes
  BY ChainsAssumption DEF Write, Capped, Writes, CapRecords, Names
<1>2. Begin(c, <<w>>) /\ granted' = granted /\ drawn' = drawn /\ chain' = chain
  BY DEF BeginReviseCap, Begin
<1>3. Due(w)
  BY DEF Due, BeginReviseCap
<1>4. Due(w)'
  BY <1>2, <1>3, DueStays
<1> HIDE DEF w
<1> QED
  BY <1>1, <1>2, <1>4, OneRecordKeeps DEF ChainsInv, MemoryTyped

LEMMA ReservationWrites ==
  ASSUME NEW r \in Reservations
  PROVE  /\ \A kind \in {"reserve", "release"} : Write("reservations", Entry(kind, r)) \in Writes
         /\ \A cost \in Costs : Write("usage", Usage(r, cost)) \in Writes
BY DEF Write, Entry, Usage, Writes, HoldRecords, UsageRecords, Names

LEMMA OpenNow ==
  ASSUME ChainsInv
  PROVE  Open = Unsettled /\ Unsettled \subseteq Reservations
BY OpenIsUnsettled, MoneyTyped DEF ChainsInv, FilesTyped, Books

LEMMA BeginReserveStep ==
  ASSUME ChainsInv, NEW c \in Clients, NEW r \in Reservations, BeginReserve(c, r)
  PROVE  ChainsInv'
<1> DEFINE w == Write("reservations", Entry("reserve", r))
<1>1. w \in Writes
  BY ReservationWrites
<1>2. Begin(c, <<w>>) /\ granted' = granted /\ drawn' = drawn \cup {r} /\ chain' = chain
  BY DEF BeginReserve, Begin
<1>3. r \in drawn' \ Ids("reserve") /\ Turn <= Cap - Spent - Turn * Cardinality(Unsettled)
  BY <1>2, OpenNow DEF BeginReserve, Available, ChainsInv, Books
<1>4. Due(w)'
  <2>1. Cap' = Cap /\ Spent' = Spent /\ Ids("reserve")' = Ids("reserve") /\ Unsettled' = Unsettled
    BY <1>2, FilesSay DEF Cap, Holds, Unsettled
  <2> QED
    BY <1>3, <2>1 DEF Due
<1> HIDE DEF w
<1> QED
  BY <1>1, <1>2, <1>4, OneRecordKeeps DEF ChainsInv, MemoryTyped

LEMMA BeginReleaseStep ==
  ASSUME ChainsInv, NEW c \in Clients, NEW r \in Reservations, BeginRelease(c, r)
  PROVE  ChainsInv'
<1> DEFINE w == Write("reservations", Entry("release", r))
<1>1. w \in Writes
  BY ReservationWrites
<1>2. Begin(c, <<w>>) /\ granted' = granted /\ drawn' = drawn /\ chain' = chain
  BY DEF BeginRelease, Begin
<1>3. Due(w)
  BY OpenNow DEF BeginRelease, Due
<1>4. Due(w)'
  BY <1>2, <1>3, DueStays
<1> HIDE DEF w
<1> QED
  BY <1>1, <1>2, <1>4, OneRecordKeeps DEF ChainsInv, MemoryTyped

LEMMA BeginRecordUsageStep ==
  ASSUME ChainsInv, NEW c \in Clients, NEW r \in Reservations, NEW cost \in Costs,
         BeginRecordUsage(c, r, cost)
  PROVE  ChainsInv'
<1> DEFINE w == Write("usage", Usage(r, cost))
<1>1. w \in Writes
  BY ReservationWrites
<1>2. Begin(c, <<w>>) /\ granted' = granted /\ drawn' = drawn /\ chain' = chain
  BY DEF BeginRecordUsage, Begin
<1>3. Due(w)
  BY OpenNow DEF BeginRecordUsage, Due
<1>4. Due(w)'
  BY <1>2, <1>3, DueStays
<1> HIDE DEF w
<1> QED
  BY <1>1, <1>2, <1>4, OneRecordKeeps DEF ChainsInv, MemoryTyped

LEMMA BeginRecordUnreservedStep ==
  ASSUME ChainsInv, NEW c \in Clients, NEW cost \in Costs, BeginRecordUnreserved(c, cost)
  PROVE  ChainsInv'
<1> DEFINE w == Write("usage", Usage(NoReservation, cost))
<1>1. w \in Writes
  BY DEF Write, Usage, Writes, UsageRecords, Names
<1>2. Begin(c, <<w>>) /\ granted' = granted /\ drawn' = drawn /\ chain' = chain
  BY DEF BeginRecordUnreserved, Begin
<1>3. Due(w)
  BY DEF BeginRecordUnreserved, Due
<1>4. Due(w)'
  BY <1>2, <1>3, DueStays
<1> HIDE DEF w
<1> QED
  BY <1>1, <1>2, <1>4, OneRecordKeeps DEF ChainsInv, MemoryTyped

LEMMA BeginReleaseAllActiveStep ==
  ASSUME ChainsInv, NEW c \in Clients, BeginReleaseAllActive(c)
  PROVE  ChainsInv'
<1>1. PICK order \in SetToSeqs(Open) :
         Begin(c, [i \in DOMAIN order |-> Write("reservations", Entry("release", order[i]))])
  BY DEF BeginReleaseAllActive
<1> DEFINE s == [i \in DOMAIN order |-> Write("reservations", Entry("release", order[i]))]
<1>2. PICK n \in Nat : /\ order \in [1..n -> Open]
                       /\ \A i, j \in 1..n : i # j => order[i] # order[j]
  <2>1. Cardinality(Open) \in Nat
    BY OpenNow, MoneyTyped DEF ChainsInv
  <2> QED
    BY <1>1, <2>1 DEF SetToSeqs
<1>3. \A i \in 1..n : /\ order[i] \in Unsettled
                      /\ Write("reservations", Entry("release", order[i])) \in Writes
  BY <1>2, OpenNow, ReservationWrites
<1>4. /\ DOMAIN s = 1..n
      /\ \A i \in 1..n : s[i] = Write("reservations", Entry("release", order[i]))
  BY <1>2
<1>5. granted' = granted /\ drawn' = drawn /\ chain' = chain /\ Begin(c, s)
  BY <1>1 DEF BeginReleaseAllActive, Begin
<1>6. s \in Seq(Writes)
  <2>1. s \in [1..n -> Writes]
    BY <1>2, <1>3
  <2> QED
    BY <2>1, SeqDef
<1> HIDE DEF s
<1>7. Releases(s)
  <2>1. \A i, j \in 1..n : s[i] = s[j] => order[i] = order[j]
    BY <1>4 DEF Write, Entry
  <2> QED
    BY <1>2, <1>4, <2>1 DEF Releases
<1>8. ASSUME NEW i \in DOMAIN s PROVE Due(s[i])'
  <2>1. PICK w : w = s[i]
    OBVIOUS
  <2>2. w = Write("reservations", Entry("release", order[i])) /\ order[i] \in Unsettled
    BY <1>3, <1>4, <2>1
  <2>3. Due(w)
    BY <2>2 DEF Due
  <2>4. Due(w)'
    BY <1>5, <2>3, DueStays
  <2> QED
    BY <2>1, <2>4
<1> QED
  BY <1>5, <1>6, <1>7, <1>8, BeginKeeps DEF ChainsInv, MemoryTyped

\* What any step does to what the files say.
Moves ==
    \/ chain' = chain /\ sealed' = sealed
    \/ ~sealed /\ sealed' = sealed /\ \E w : Effect(w)
    \/ ~sealed /\ sealed' = TRUE /\ chain' = chain /\ Unsettled = {}

LEMMA ChainsStep ==
  ASSUME ChainsInv, [Next]_vars
  PROVE  ChainsInv' /\ Moves
<1>1. CASE \E c \in Clients : \/ BeginInitialCap(c) \/ BeginReleaseAllActive(c)
                              \/ \E n \in 1..CapLimit : BeginReviseCap(c, n)
  <2>1. ChainsInv'
    BY <1>1, BeginInitialCapStep, BeginReleaseAllActiveStep, BeginReviseCapStep
  <2>2. chain' = chain /\ sealed' = sealed
    BY <1>1 DEF BeginInitialCap, BeginReleaseAllActive, BeginReviseCap, Begin
  <2> QED
    BY <2>1, <2>2 DEF Moves
<1>2. CASE \E c \in Clients, r \in Reservations : BeginReserve(c, r) \/ BeginRelease(c, r)
  <2>1. ChainsInv'
    BY <1>2, BeginReserveStep, BeginReleaseStep
  <2>2. chain' = chain /\ sealed' = sealed
    BY <1>2 DEF BeginReserve, BeginRelease, Begin
  <2> QED
    BY <2>1, <2>2 DEF Moves
<1>3. CASE \E c \in Clients, cost \in Costs :
              \/ BeginRecordUnreserved(c, cost)
              \/ \E r \in Reservations : BeginRecordUsage(c, r, cost)
  <2>1. ChainsInv'
    BY <1>3, BeginRecordUnreservedStep, BeginRecordUsageStep
  <2>2. chain' = chain /\ sealed' = sealed
    BY <1>3 DEF BeginRecordUnreserved, BeginRecordUsage, Begin
  <2> QED
    BY <2>1, <2>2 DEF Moves
<1>4. CASE \E c \in Clients : AppendNext(c)
  BY <1>4, AppendStep DEF Moves
<1>5. CASE \E c \in Clients : Leave(c)
  <2>1. PICK c \in Clients : Leave(c)
    BY <1>5
  <2>2. /\ lock = c /\ lock' = NoClient /\ todo' = [todo EXCEPT ![c] = <<>>]
        /\ UNCHANGED <<chain, tail, granted, drawn, sealed>>
    BY <2>1 DEF Leave
  <2>3. \A d \in Clients : todo'[d] = <<>>
    BY <2>2 DEF ChainsInv, MemoryTyped, Pending
  <2>4. todo' = [d \in Clients |-> todo'[d]] /\ granted' = [d \in Clients |-> granted'[d]]
    BY <2>2 DEF ChainsInv, MemoryTyped
  <2>5. ChainsInv'
    BY <2>2, <2>3, <2>4, QuietStep DEF ChainsInv, MemoryTyped
  <2> QED
    BY <2>2, <2>5 DEF Moves
<1>6. CASE Crash
  <2>1. /\ lock' = NoClient /\ todo' = [c \in Clients |-> <<>>]
        /\ granted' = [c \in Clients |-> {}] /\ UNCHANGED <<chain, tail, drawn, sealed>>
    BY <1>6 DEF Crash
  <2>2. ChainsInv'
    BY <2>1, QuietStep DEF ChainsInv, MemoryTyped
  <2> QED
    BY <2>1, <2>2 DEF Moves
<1>7. CASE Seal
  <2>1. /\ ~sealed /\ lock = NoClient /\ Open = {} /\ sealed' = TRUE
        /\ UNCHANGED <<chain, tail, lock, todo, granted, drawn>>
    BY <1>7 DEF Seal
  <2>2. \A c \in Clients : todo'[c] = <<>>
    BY <2>1, ChainsAssumption DEF ChainsInv, Pending
  <2>3. ChainsInv'
    BY <2>1, <2>2, QuietStep DEF ChainsInv, MemoryTyped
  <2>4. Unsettled = {}
    BY <2>1, OpenNow
  <2> QED
    BY <2>1, <2>3, <2>4 DEF Moves
<1>8. CASE UNCHANGED vars
  <2>1. UNCHANGED <<chain, tail, lock, todo, granted, drawn, sealed>>
    BY <1>8 DEF vars
  <2>2. ChainsInv'
    BY <2>1, QuietStep DEF ChainsInv, MemoryTyped
  <2> QED
    BY <2>1, <2>2 DEF Moves
<1> QED
  BY <1>1, <1>2, <1>3, <1>4, <1>5, <1>6, <1>7, <1>8 DEF Next

LEMMA ChainsInitially ==
  ASSUME Init
  PROVE  ChainsInv
<1>1. /\ chain = [name \in Names |-> <<>>] /\ tail = [name \in Names |-> "whole"]
      /\ lock = NoClient /\ todo = [c \in Clients |-> <<>>] /\ granted = [c \in Clients |-> {}]
      /\ drawn = {} /\ sealed = FALSE
  BY DEF Init
<1>2. /\ \A S : <<>> \in Seq(S)
      /\ DOMAIN <<>> = {} /\ Len(<<>>) = 0
  OBVIOUS
<1>3. FilesTyped
  BY <1>1, <1>2 DEF FilesTyped, Names, Holds
<1>4. MemoryTyped
  BY <1>1, <1>2 DEF MemoryTyped
<1>5. Ids("reserve") = {} /\ Consumed = {}
  BY <1>1, <1>2 DEF Ids, Consumed, ToSet, Names
<1>6. Orderly(Holds) /\ UsedOnce(chain["usage"])
  BY <1>1, <1>2 DEF Orderly, UsedOnce, Holds, Names
<1>7. Rising(chain["revisions"])
  <2>1. chain["revisions"] = <<>> /\ 1..(0 - 1) = {}
    BY <1>1 DEF Names
  <2> QED
    BY <1>2, <2>1 DEF Rising
<1>8. Booked
  BY <1>1 DEF Booked
<1>9. \A c \in Clients : Pending(c)
  BY <1>1, <1>2 DEF Pending
<1> QED
  BY <1>3, <1>4, <1>5, <1>6, <1>7, <1>8, <1>9 DEF ChainsInv, Books

-----------------------------------------------------------------------------
\* Results.

\* The inductive invariant of the files, the lock and what is still to be appended.
THEOREM ChainsInvariant == Spec => []ChainsInv
<1>1. Init => ChainsInv
  BY ChainsInitially
<1>2. ChainsInv /\ [Next]_vars => ChainsInv'
  BY ChainsStep
<1> QED
  BY <1>1, <1>2, PTL DEF Spec

\* Type correctness, for every set of threads and reservations.
THEOREM ChainsTypes == Spec => []ChainsTypeOK
<1>1. ChainsInv => ChainsTypeOK
  <2> SUFFICES ASSUME ChainsInv PROVE ChainsTypeOK
    OBVIOUS
  <2>1. \A S : \A s \in Seq(S) : ToSet(s) \subseteq S
    BY LenProperties DEF ToSet
  <2>2. /\ ToSet(chain["revisions"]) \subseteq CapRecords
        /\ ToSet(chain["usage"]) \subseteq UsageRecords
        /\ ToSet(chain["reservations"]) \subseteq HoldRecords
    BY <2>1 DEF ChainsInv, FilesTyped, Holds
  <2>3. DOMAIN chain = Names
    BY DEF ChainsInv, FilesTyped
  <2>4. \A c \in Clients : todo[c] # <<>> => lock = c
    BY DEF ChainsInv, Pending
  <2> QED
    BY <2>2, <2>3, <2>4
       DEF ChainsInv, FilesTyped, MemoryTyped, ChainsTypeOK, CapRecords, UsageRecords, HoldRecords
<1> QED
  BY <1>1, ChainsInvariant, PTL

\* The loader accepts every record that any interleaving, crash or short write has left:
\* no later operation raises over a duplicate, inactive or falling entry.
THEOREM LoaderAccepts == Spec => []ReplayAccepts
<1>1. ChainsInv => ReplayAccepts
  BY OrderlyReplays DEF ChainsInv, FilesTyped, Books, UsedOnce, Rising, ReplayAccepts
<1> QED
  BY <1>1, ChainsInvariant, PTL

\* As long as the files can be read, every hold a thread was granted is in them.
THEOREM GrantsAreBooked == Spec => []GrantedIsBooked
<1>1. ChainsInv => GrantedIsBooked
  BY DEF ChainsInv, Booked, GrantedIsBooked, Readable, Names
<1> QED
  BY <1>1, ChainsInvariant, PTL

-----------------------------------------------------------------------------
\* Every step that adds a record is an operation of the ledger; every other, but for
\* the sealing, leaves what the ledger shows as it is.

LEMMA EffectOnLedger ==
  ASSUME FilesTyped, NEW w, Effect(w), ~sealed, sealed' = sealed
  PROVE  [Ledger!LedgerNext]_(Ledger!ledgerVars)
<1>1. Overspent = Total([i \in DOMAIN chain["usage"] |-> Overrun(chain["usage"][i])])
  BY DEF Overspent, OverrunsIn
<1>2. Ledger!Active = Unsettled
  BY DEF Ledger!Active, Unsettled
<1>3. CASE FirstCap(w)
  BY <1>1, <1>3 DEF FirstCap, SameHolds, SameUsage, SameCap, Overspent, OverrunsIn, Ledger!ledgerVars
<1>4. CASE NextCap(w)
  <2>1. PICK n \in 1..CapLimit : n > Cap /\ Cap' = n /\ SameHolds /\ SameUsage
    BY <1>4 DEF NextCap
  <2>2. Ledger!ReviseCap(n)
    BY <2>1 DEF SameHolds, SameUsage, Overspent, OverrunsIn, Ledger!ReviseCap
  <2> QED
    BY <2>2 DEF Ledger!LedgerNext
<1>5. CASE Reserves(w)
  <2>1. PICK r \in Reservations :
           /\ r \notin Ids("reserve") /\ Turn <= Cap - Spent - Turn * Cardinality(Unsettled)
           /\ Ids("reserve")' = Ids("reserve") \cup {r}
           /\ Ids("release")' = Ids("release") /\ SameUsage /\ SameCap
    BY <1>5 DEF Reserves
  <2>2. Ledger!Admits(Turn)
    <3>1. PICK held : held = Turn * Cardinality(Unsettled)
      OBVIOUS
    <3>2. Ledger!Reserved = held
      BY <1>2, <3>1 DEF Ledger!Reserved, Ledger!Cardinality, Cardinality
    <3>3. Cap \in Nat /\ Spent \in Nat /\ held \in Int /\ Turn \in Nat
      BY <3>1, MoneyTyped, ChainsAssumption
    <3> QED
      BY <2>1, <3>1, <3>2, <3>3 DEF Ledger!Admits
  <2>3. Ledger!Reserve(r)
    BY <2>1, <2>2 DEF SameUsage, SameCap, Overspent, OverrunsIn, Ledger!Reserve
  <2> QED
    BY <2>3 DEF Ledger!LedgerNext
<1>6. CASE Frees(w)
  <2>1. PICK r \in Unsettled :
           /\ Ids("release")' = Ids("release") \cup {r}
           /\ Ids("reserve")' = Ids("reserve") /\ SameUsage /\ SameCap
    BY <1>6 DEF Frees
  <2>2. Ledger!Release(r)
    BY <1>2, <2>1 DEF SameUsage, SameCap, Overspent, OverrunsIn, Ledger!Release
  <2> QED
    BY <2>1, <2>2, MoneyTyped DEF Ledger!LedgerNext
<1>7. CASE Charges(w)
  <2>1. PICK r \in Unsettled, cost \in Costs :
           /\ Consumed' = Consumed \cup {r} /\ Spent' = Spent + cost
           /\ Overspent' = Overspent + (IF cost > Turn THEN cost - Turn ELSE 0)
           /\ SameHolds /\ SameCap
    BY <1>7 DEF Charges
  <2>2. Ledger!RecordUsage(r, cost)
    BY <1>2, <2>1
       DEF SameHolds, SameCap, Overspent, OverrunsIn, Ledger!RecordUsage, Ledger!Excess
  <2> QED
    BY <2>1, <2>2, MoneyTyped DEF Ledger!LedgerNext
<1>8. CASE ChargesFreely(w)
  <2>1. PICK cost \in Costs :
           /\ Spent + cost <= SpendLimit
           /\ Consumed' = Consumed /\ Spent' = Spent + cost /\ Overspent' = Overspent + cost
           /\ SameHolds /\ SameCap
    BY <1>8 DEF ChargesFreely
  <2>2. Ledger!RecordUnreserved(cost)
    BY <2>1 DEF SameHolds, SameCap, Overspent, OverrunsIn, Ledger!RecordUnreserved
  <2> QED
    BY <2>1, <2>2 DEF Ledger!LedgerNext
<1> QED
  BY <1>3, <1>4, <1>5, <1>6, <1>7, <1>8 DEF Effect

LEMMA MovesOnLedger ==
  ASSUME FilesTyped, Moves
  PROVE  [Ledger!LedgerNext]_(Ledger!ledgerVars)
<1>1. CASE chain' = chain
  <2>1. SameHolds /\ SameUsage /\ SameCap
    BY <1>1, HoldsStay, UsageStays, CapStays DEF Holds
  <2>2. UNCHANGED <<Cap, Spent, Ids("reserve"), Ids("release"), Consumed,
                    Total([i \in DOMAIN chain["usage"] |-> Overrun(chain["usage"][i])])>>
    BY <2>1 DEF SameHolds, SameUsage, SameCap, Overspent, OverrunsIn
  <2>3. CASE sealed' = sealed
    BY <2>2, <2>3 DEF Ledger!ledgerVars
  <2>4. CASE ~sealed /\ sealed' = TRUE /\ Unsettled = {}
    <3>1. Ledger!SealRun
      BY <2>2, <2>4 DEF Ledger!SealRun, Ledger!Seal, Ledger!Active, Unsettled
    <3> QED
      BY <3>1 DEF Ledger!LedgerNext
  <2>5. CASE ~sealed /\ sealed' = sealed /\ \E w : Effect(w)
    BY <2>5, EffectOnLedger
  <2> QED
    BY <2>3, <2>4, <2>5 DEF Moves
<1>2. CASE ~sealed /\ sealed' = sealed /\ \E w : Effect(w)
  BY <1>2, EffectOnLedger
<1> QED
  BY <1>1, <1>2 DEF Moves

\* The three files, their lock, short writes and crashes implement the atomic ledger:
\* what a reload computes moves only as BudgetLedger's operations do.
THEOREM ChainsImplementLedger == Spec => ImplementsLedger
<1>1. Init => Ledger!LedgerInit
  <2> SUFFICES ASSUME Init PROVE Ledger!LedgerInit
    OBVIOUS
  <2>1. /\ chain["revisions"] = <<>> /\ chain["usage"] = <<>> /\ chain["reservations"] = <<>>
        /\ sealed = FALSE
    BY DEF Init, Names
  <2>2. DOMAIN <<>> = {}
    OBVIOUS
  <2>3. /\ [i \in DOMAIN chain["usage"] |-> chain["usage"][i].cost] = <<>>
        /\ [i \in DOMAIN chain["usage"] |-> Overrun(chain["usage"][i])] = <<>>
    BY <2>1, <2>2
  <2>4. Ids("reserve") = {} /\ Ids("release") = {} /\ Consumed = {}
    BY <2>1, <2>2 DEF Ids, Consumed, ToSet
  <2> QED
    BY <2>1, <2>3, <2>4, TotalOfNone DEF Cap, Spent, Ledger!LedgerInit
<1>2. ChainsInv /\ [Next]_vars => [Ledger!LedgerNext]_(Ledger!ledgerVars)
  BY ChainsStep, MovesOnLedger DEF ChainsInv
<1> QED
  BY <1>1, <1>2, ChainsInvariant, PTL DEF Spec, ImplementsLedger, Ledger!LedgerSpec
=============================================================================
