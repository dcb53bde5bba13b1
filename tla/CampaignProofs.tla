--------------------------- MODULE CampaignProofs ---------------------------
(***************************************************************************)
(* Proofs about one game of a campaign, for every number of attempts,      *)
(* episodes, errors and levels.                                            *)
(*                                                                         *)
(* A worker changes its state one attribute at a time, so an invariant of  *)
(* the state in memory is broken between two assignments.  The inductive   *)
(* invariant is therefore about the state the worker is on its way to: the *)
(* state f such that the pending assignments lead from `live' to f         *)
(* (Leads).  An assignment changes `live' and leaves f alone.              *)
(***************************************************************************)
EXTENDS Campaign, SequenceTheorems, TLAPS

-----------------------------------------------------------------------------
\* Game states, and the assignments that lead from one to another.

Keys == {"attempt", "episodes", "session", "actions", "levels", "zero", "errors",
         "banked"}

Sessions == {NoSession} \cup [attempt : 1..(Attempts + 1), actions : 0..MaxActions,
                              levels : 0..WinLevels]

States ==
    [attempt : 1..(Attempts + 1), episodes : 0..Episodes, session : Sessions,
     actions : 0..MaxActions, levels : 0..WinLevels, zero : 0..ZeroLimit,
     errors : 0..ErrorLimit, banked : BOOLEAN]

Entries == [attribute : Keys, value : Sessions \cup Int \cup BOOLEAN]

\* No assignment of the list is to the attribute.
Unnamed(a, s) == \A i \in 1..Len(s) : s[i].attribute # a

\* The i-th assignment is the last one to its attribute.
Latest(i, s) == \A j \in 1..Len(s) : s[j].attribute = s[i].attribute => j <= i

\* The assignments s lead from x to f.
Leads(x, s, f) ==
    /\ \A a \in Keys : Unnamed(a, s) => x[a] = f[a]
    /\ \A i \in 1..Len(s) : Latest(i, s) => f[s[i].attribute] = s[i].value

\* An assignment on the way to f: it keeps the types, and the attempt and the completion
\* flag are assigned only once.
Fits(e, f) ==
    /\ e.attribute \in Keys
    /\ e.attribute = "attempt" => e.value = f.attempt
    /\ e.attribute = "episodes" => e.value \in 0..Episodes
    /\ e.attribute = "session" => e.value \in Sessions
    /\ e.attribute = "actions" => e.value \in 0..MaxActions
    /\ e.attribute = "levels" => e.value \in 0..WinLevels
    /\ e.attribute = "zero" => e.value \in 0..ZeroLimit
    /\ e.attribute = "errors" => e.value \in 0..ErrorLimit
    /\ e.attribute = "banked" => e.value = f.banked

Apt(s, f) == \A i \in 1..Len(s) : Fits(s[i], f)

\* A list leads nowhere new if it is empty.
LEMMA LeadsNil ==
    ASSUME NEW x, NEW f
    PROVE  /\ Leads(x, <<>>, x) /\ Apt(<<>>, f) /\ <<>> \in Seq(Entries)
           /\ \A a : Unnamed(a, <<>>)
BY DEF Leads, Apt, Unnamed, Latest

\* One assignment leads to the state with that attribute changed.
LEMMA LeadsOne ==
    ASSUME NEW x \in States, NEW a \in Keys, NEW v \in Sessions \cup Int \cup BOOLEAN
    PROVE  /\ Leads(x, Set(a, v), [x EXCEPT ![a] = v])
           /\ Set(a, v) \in Seq(Entries)
           /\ Len(Set(a, v)) = 1
           /\ Set(a, v)[1] = [attribute |-> a, value |-> v]
           /\ \A b : b # a => Unnamed(b, Set(a, v))
<1> DEFINE e == [attribute |-> a, value |-> v]
<1>1. e \in Entries /\ e.attribute = a /\ e.value = v
  BY DEF Entries
<1> HIDE DEF e
<1>2. Set(a, v) = <<e>>
  BY DEF Set, e
<1>3. Len(<<e>>) = 1 /\ <<e>>[1] = e /\ <<e>> \in Seq(Entries)
  BY <1>1
<1>4. DOMAIN x = Keys
  BY DEF States, Keys
<1>5. [x EXCEPT ![a] = v][a] = v /\ \A b \in Keys \ {a} : [x EXCEPT ![a] = v][b] = x[b]
  BY <1>4
<1> QED
  BY <1>1, <1>2, <1>3, <1>5 DEF Leads, Unnamed, Latest, e

\* A list fits if its only assignment does.
LEMMA AptOne ==
    ASSUME NEW f, NEW a \in Keys, NEW v, Fits([attribute |-> a, value |-> v], f)
    PROVE  Apt(Set(a, v), f)
BY DEF Apt, Set

\* Assignments to an attribute in two lists, one after the other.
LEMMA JoinParts ==
    ASSUME NEW s \in Seq(Entries), NEW t \in Seq(Entries)
    PROVE  /\ s \o t \in Seq(Entries)
           /\ Len(s \o t) = Len(s) + Len(t)
           /\ Len(s) \in Nat /\ Len(t) \in Nat
           /\ \A i \in 1..Len(s) : (s \o t)[i] = s[i]
           /\ \A i \in 1..Len(t) : (s \o t)[Len(s) + i] = t[i]
OBVIOUS

LEMMA UnnamedJoin ==
    ASSUME NEW s \in Seq(Entries), NEW t \in Seq(Entries), NEW a
    PROVE  Unnamed(a, s \o t) <=> Unnamed(a, s) /\ Unnamed(a, t)
<1> DEFINE u == s \o t
<1>1. /\ u \in Seq(Entries) /\ Len(u) = Len(s) + Len(t)
      /\ Len(s) \in Nat /\ Len(t) \in Nat
      /\ \A i \in 1..Len(s) : u[i] = s[i]
      /\ \A i \in 1..Len(t) : u[Len(s) + i] = t[i]
  BY JoinParts
<1> HIDE DEF u
<1>2. \A i \in 1..Len(u) : i \in 1..Len(s) \/ i - Len(s) \in 1..Len(t)
  BY <1>1
<1>3. \A i \in 1..Len(s) : i \in 1..Len(u)
  BY <1>1
<1>4. \A i \in 1..Len(t) : Len(s) + i \in 1..Len(u)
  BY <1>1
<1>5. \A i \in 1..Len(u) : i - Len(s) \in 1..Len(t) => u[i] = t[i - Len(s)]
  BY <1>1
<1>6. Unnamed(a, u) => Unnamed(a, s) /\ Unnamed(a, t)
  BY <1>1, <1>3, <1>4 DEF Unnamed
<1>7. ASSUME Unnamed(a, s), Unnamed(a, t)
      PROVE  Unnamed(a, u)
  <2>1. SUFFICES ASSUME NEW i \in 1..Len(u)
                 PROVE  u[i].attribute # a
    BY DEF Unnamed
  <2>2. CASE i \in 1..Len(s)
    BY <1>1, <1>7, <2>2 DEF Unnamed
  <2>3. CASE i - Len(s) \in 1..Len(t)
    <3>1. u[i] = t[i - Len(s)]
      BY <1>5, <2>3
    <3> QED
      BY <3>1, <1>7, <2>3 DEF Unnamed
  <2> QED
    BY <1>2, <2>2, <2>3
<1> QED
  BY <1>6, <1>7 DEF u

LEMMA AptJoin ==
    ASSUME NEW s \in Seq(Entries), NEW t \in Seq(Entries), NEW f, Apt(s, f), Apt(t, f)
    PROVE  Apt(s \o t, f)
<1> DEFINE u == s \o t
<1>1. /\ u \in Seq(Entries) /\ Len(u) = Len(s) + Len(t)
      /\ Len(s) \in Nat /\ Len(t) \in Nat
      /\ \A i \in 1..Len(s) : u[i] = s[i]
      /\ \A i \in 1..Len(t) : u[Len(s) + i] = t[i]
  BY JoinParts
<1> HIDE DEF u
<1>2. ASSUME NEW i \in 1..Len(u)
      PROVE  Fits(u[i], f)
  <2>1. CASE i \in 1..Len(s)
    BY <1>1, <2>1 DEF Apt
  <2>2. CASE i \notin 1..Len(s)
    <3>1. i - Len(s) \in 1..Len(t) /\ Len(s) + (i - Len(s)) = i
      BY <1>1, <2>2
    <3>2. u[i] = t[i - Len(s)]
      BY <1>1, <3>1
    <3> QED
      BY <3>1, <3>2 DEF Apt
  <2> QED
    BY <2>1, <2>2
<1> QED
  BY <1>2 DEF Apt, u

\* What leads to y, followed by what leads on to z.
LEMMA LeadsOn ==
    ASSUME NEW s \in Seq(Entries), NEW t \in Seq(Entries), NEW x, NEW y, NEW z,
           Leads(x, s, y), Leads(y, t, z)
    PROVE  Leads(x, s \o t, z)
<1> DEFINE u == s \o t
<1>1. /\ u \in Seq(Entries) /\ Len(u) = Len(s) + Len(t)
      /\ Len(s) \in Nat /\ Len(t) \in Nat
      /\ \A i \in 1..Len(s) : u[i] = s[i]
      /\ \A i \in 1..Len(t) : u[Len(s) + i] = t[i]
      /\ \A a : Unnamed(a, u) <=> Unnamed(a, s) /\ Unnamed(a, t)
  BY JoinParts, UnnamedJoin
<1> HIDE DEF u
<1>2. \A a \in Keys : Unnamed(a, u) => x[a] = z[a]
  BY <1>1 DEF Leads
<1>3. ASSUME NEW i \in 1..Len(u), Latest(i, u)
      PROVE  z[u[i].attribute] = u[i].value
  <2>1. CASE i \in 1..Len(s)
    <3>1. u[i] = s[i]
      BY <1>1, <2>1
    <3>2. Latest(i, s)
      BY <1>1, <1>3, <2>1 DEF Latest
    <3>3. y[s[i].attribute] = s[i].value
      BY <3>2, <2>1 DEF Leads
    <3>4. Unnamed(s[i].attribute, t)
      <4>1. SUFFICES ASSUME NEW j \in 1..Len(t), t[j].attribute = s[i].attribute
                     PROVE  FALSE
        BY DEF Unnamed
      <4>2. Len(s) + j \in 1..Len(u) /\ u[Len(s) + j] = t[j] /\ Len(s) + j > i
        BY <1>1, <2>1
      <4> QED
        BY <4>1, <4>2, <3>1, <1>3, <1>1 DEF Latest
    <3>5. s[i] \in Entries
      BY <2>1
    <3>6. s[i].attribute \in Keys
      BY <3>5 DEF Entries
    <3> QED
      BY <3>1, <3>3, <3>4, <3>6 DEF Leads
  <2>2. CASE i \notin 1..Len(s)
    <3> DEFINE k == i - Len(s)
    <3>1. k \in 1..Len(t) /\ u[i] = t[k] /\ i = Len(s) + k
      <4>1. Len(s) \in Nat /\ Len(t) \in Nat /\ i \in 1..(Len(s) + Len(t))
        BY <1>1
      <4>2. k \in 1..Len(t) /\ i = Len(s) + k
        BY <4>1, <2>2
      <4>3. u[Len(s) + k] = t[k]
        BY <1>1, <4>2
      <4> QED
        BY <4>2, <4>3
    <3> HIDE DEF k
    <3>2. Latest(k, t)
      <4>1. SUFFICES ASSUME NEW j \in 1..Len(t), t[j].attribute = t[k].attribute
                     PROVE  j <= k
        BY DEF Latest
      <4>2. Len(s) + j \in 1..Len(u) /\ u[Len(s) + j] = t[j]
        BY <1>1
      <4>3. Len(s) + j <= i
        BY <4>1, <4>2, <3>1, <1>3 DEF Latest
      <4> QED
        BY <4>3, <3>1, <1>1
    <3> QED
      BY <3>1, <3>2 DEF Leads
  <2> QED
    BY <2>1, <2>2
<1> QED
  BY <1>2, <1>3 DEF Leads, u

\* The first assignment of a list, and what is left of it.
LEMMA LeadsNext ==
    ASSUME NEW s \in Seq(Entries), s # <<>>, NEW x \in States, NEW f,
           Leads(x, s, f), Apt(s, f)
    PROVE  /\ Leads([x EXCEPT ![Head(s).attribute] = Head(s).value], Tail(s), f)
           /\ Tail(s) \in Seq(Entries) /\ Apt(Tail(s), f) /\ Fits(Head(s), f)
<1> DEFINE t == Tail(s)
           h == s[1]
           y == [x EXCEPT ![h.attribute] = h.value]
<1>1. /\ t \in Seq(Entries) /\ Len(t) \in Nat /\ Len(s) = Len(t) + 1
      /\ \A i \in 1..Len(t) : t[i] = s[i + 1]
      /\ h \in Entries /\ h = Head(s)
  OBVIOUS
<1>2. h.attribute \in Keys /\ DOMAIN x = Keys
  BY <1>1 DEF Entries, States, Keys
<1>3. y[h.attribute] = h.value /\ \A a \in Keys : a # h.attribute => y[a] = x[a]
  BY <1>2
<1>4. h = s[1]
  OBVIOUS
<1> HIDE DEF t, h, y
<1>5. \A i \in 1..Len(t) : i + 1 \in 1..Len(s)
  BY <1>1
<1>6. \A i \in 1..Len(s) : i = 1 \/ (i - 1 \in 1..Len(t) /\ s[i] = t[i - 1])
  <2>1. \A i \in 1..Len(s) : i = 1 \/ i - 1 \in 1..Len(t)
    BY <1>1
  <2>2. \A i \in 1..Len(s) : (i - 1) + 1 = i
    BY <1>1
  <2> QED
    BY <2>1, <2>2, <1>1
<1>7. ASSUME NEW a \in Keys, Unnamed(a, t)
      PROVE  y[a] = f[a]
  <2>1. CASE a = h.attribute
    <3>1. 1 \in 1..Len(s) /\ Latest(1, s)
      BY SMTT(30), <1>1, <1>4, <1>6, <1>7, <2>1 DEF Latest, Unnamed
    <3> QED
      BY <3>1, <2>1, <1>3, <1>4 DEF Leads
  <2>2. CASE a # h.attribute
    BY <1>3, <1>4, <1>6, <1>7, <2>2 DEF Leads, Unnamed
  <2> QED
    BY <2>1, <2>2
<1>8. ASSUME NEW i \in 1..Len(t), Latest(i, t)
      PROVE  f[t[i].attribute] = t[i].value
  <2>1. Latest(i + 1, s)
    <3>1. SUFFICES ASSUME NEW j \in 1..Len(s), s[j].attribute = s[i + 1].attribute
                   PROVE  j <= i + 1
      BY DEF Latest
    <3>2. CASE j = 1
      BY <3>2, <1>1
    <3>3. CASE j # 1
      <4>1. j - 1 \in 1..Len(t) /\ s[j] = t[j - 1]
        BY <3>3, <1>6
      <4>2. j - 1 <= i
        BY <4>1, <3>1, <1>8, <1>1 DEF Latest
      <4> QED
        BY <4>1, <4>2, <1>1
    <3> QED
      BY <3>2, <3>3
  <2> QED
    BY <2>1, <1>1, <1>5 DEF Leads
<1>9. Apt(t, f) /\ Fits(h, f)
  BY <1>1, <1>4, <1>5 DEF Apt
<1> QED
  BY <1>1, <1>7, <1>8, <1>9 DEF Leads, t, h, y

\* Nothing is left to assign: the worker's state is the one it was on its way to.
LEMMA LeadsHome ==
    ASSUME NEW x \in States, NEW f \in States, Leads(x, <<>>, f)
    PROVE  f = x
<1>1. \A a \in Keys : x[a] = f[a]
  BY DEF Leads, Unnamed
<1>2. x = [a \in Keys |-> x[a]] /\ f = [a \in Keys |-> f[a]]
  BY DEF States, Keys
<1> QED
  BY <1>1, <1>2

\* An assignment that fits keeps the types.
LEMMA FitsKeeps ==
    ASSUME NEW x \in States, NEW f \in States, NEW e, Fits(e, f)
    PROVE  LET y == [x EXCEPT ![e.attribute] = e.value]
           IN  /\ y \in States
               /\ y.attempt \in {x.attempt, f.attempt}
               /\ y.banked \in {x.banked, f.banked}
<1> DEFINE v == e.value
           y == [x EXCEPT ![e.attribute] = v]
<1>0. e.attribute \in Keys
  BY DEF Fits
<1>1. CASE e.attribute = "attempt"
  <2>1. v \in 1..(Attempts + 1) /\ v = f.attempt
    BY <1>1 DEF Fits, States
  <2>2. y = [x EXCEPT !.attempt = v]
    BY <1>1
  <2> HIDE DEF v, y
  <2> QED
    BY <2>1, <2>2, <1>1 DEF States, v, y
<1>2. CASE e.attribute = "episodes"
  <2>1. v \in 0..Episodes
    BY <1>2 DEF Fits
  <2>2. y = [x EXCEPT !.episodes = v]
    BY <1>2
  <2> HIDE DEF v, y
  <2> QED
    BY <2>1, <2>2, <1>2 DEF States, v, y
<1>3. CASE e.attribute = "session"
  <2>1. v \in Sessions
    BY <1>3 DEF Fits
  <2>2. y = [x EXCEPT !.session = v]
    BY <1>3
  <2> HIDE DEF v, y
  <2> QED
    BY <2>1, <2>2, <1>3 DEF States, v, y
<1>4. CASE e.attribute = "actions"
  <2>1. v \in 0..MaxActions
    BY <1>4 DEF Fits
  <2>2. y = [x EXCEPT !.actions = v]
    BY <1>4
  <2> HIDE DEF v, y
  <2> QED
    BY <2>1, <2>2, <1>4 DEF States, v, y
<1>5. CASE e.attribute = "levels"
  <2>1. v \in 0..WinLevels
    BY <1>5 DEF Fits
  <2>2. y = [x EXCEPT !.levels = v]
    BY <1>5
  <2> HIDE DEF v, y
  <2> QED
    BY <2>1, <2>2, <1>5 DEF States, v, y
<1>6. CASE e.attribute = "zero"
  <2>1. v \in 0..ZeroLimit
    BY <1>6 DEF Fits
  <2>2. y = [x EXCEPT !.zero = v]
    BY <1>6
  <2> HIDE DEF v, y
  <2> QED
    BY <2>1, <2>2, <1>6 DEF States, v, y
<1>7. CASE e.attribute = "errors"
  <2>1. v \in 0..ErrorLimit
    BY <1>7 DEF Fits
  <2>2. y = [x EXCEPT !.errors = v]
    BY <1>7
  <2> HIDE DEF v, y
  <2> QED
    BY <2>1, <2>2, <1>7 DEF States, v, y
<1>8. CASE e.attribute = "banked"
  <2>1. v \in BOOLEAN /\ v = f.banked
    BY <1>8 DEF Fits, States
  <2>2. y = [x EXCEPT !.banked = v]
    BY <1>8
  <2> HIDE DEF v, y
  <2> QED
    BY <2>1, <2>2, <1>8 DEF States, v, y
<1> QED
  BY <1>0, <1>1, <1>2, <1>3, <1>4, <1>5, <1>6, <1>7, <1>8 DEF Keys

\* An attribute copied from another state keeps the types.
LEMMA CopyKeeps ==
    ASSUME NEW x \in States, NEW y \in States, NEW k \in Keys
    PROVE  LET z == [x EXCEPT ![k] = y[k]]
           IN  /\ z \in States
               /\ z.attempt \in {x.attempt, y.attempt}
               /\ z.banked \in {x.banked, y.banked}
<1> DEFINE e == [attribute |-> k, value |-> y[k]]
<1>1. e.attribute = k /\ e.value = y[k]
  OBVIOUS
<1>2. Fits(e, y)
  <2> HIDE DEF e
  <2> QED
    BY <1>1 DEF Fits, States, Keys
<1> HIDE DEF e
<1>3. /\ [x EXCEPT ![e.attribute] = e.value] \in States
      /\ [x EXCEPT ![e.attribute] = e.value].attempt \in {x.attempt, y.attempt}
      /\ [x EXCEPT ![e.attribute] = e.value].banked \in {x.banked, y.banked}
  BY <1>2, FitsKeeps
<1> QED
  BY <1>1, <1>3

\* The worker is on its way from x to f.
Way(x, s, f) ==
    /\ f \in States /\ s \in Seq(Entries)
    /\ Leads(x, s, f) /\ Apt(s, f)

LEMMA WayNil ==
    ASSUME NEW x \in States
    PROVE  Way(x, <<>>, x)
BY LeadsNil DEF Way

LEMMA WayOne ==
    ASSUME NEW x \in States, NEW a \in Keys, NEW v, NEW f, f = [x EXCEPT ![a] = v],
           Fits([attribute |-> a, value |-> v], f), f \in States
    PROVE  Way(x, Set(a, v), f)
<1> DEFINE e == [attribute |-> a, value |-> v]
<1>1. e.attribute = a /\ e.value = v
  OBVIOUS
<1>2. v \in Sessions \cup Int \cup BOOLEAN
  <2>1. Fits(e, f)
    OBVIOUS
  <2> HIDE DEF e
  <2> QED
    BY <2>1, <1>1 DEF Fits, Keys, States
<1> QED
  BY <1>2, LeadsOne, AptOne DEF Way

\* Two ways in a row, the second of which keeps the attempt and the completion flag.
LEMMA WayOn ==
    ASSUME NEW x, NEW s, NEW y, NEW t, NEW z, Way(x, s, y), Way(y, t, z),
           z.attempt = y.attempt, z.banked = y.banked
    PROVE  Way(x, s \o t, z)
<1>1. Apt(s, z)
  BY DEF Way, Apt, Fits
<1>2. s \in Seq(Entries) /\ t \in Seq(Entries)
  BY DEF Way
<1>3. s \o t \in Seq(Entries)
  BY <1>2
<1> QED
  BY <1>1, <1>2, <1>3, LeadsOn, AptJoin DEF Way

\* One more assignment, of another attribute than these two.
LEMMA WayMore ==
    ASSUME NEW x, NEW s, NEW y \in States, Way(x, s, y),
           NEW a \in Keys \ {"attempt", "banked"}, NEW v,
           Fits([attribute |-> a, value |-> v], y)
    PROVE  /\ Way(x, s \o Set(a, v), [y EXCEPT ![a] = v])
           /\ [y EXCEPT ![a] = v] \in States
           /\ [y EXCEPT ![a] = v].attempt = y.attempt
           /\ [y EXCEPT ![a] = v].banked = y.banked
<1> DEFINE e == [attribute |-> a, value |-> v]
           z == [y EXCEPT ![a] = v]
<1>1. e.attribute = a /\ e.value = v
  OBVIOUS
<1>2. z.attempt = y.attempt /\ z.banked = y.banked
  BY DEF States
<1>3. z \in States
  <2>1. [y EXCEPT ![e.attribute] = e.value] \in States
    BY FitsKeeps
  <2> QED
    BY <2>1, <1>1
<1>4. Fits(e, z)
  <2>1. Fits(e, y)
    OBVIOUS
  <2> HIDE DEF e, z
  <2> QED
    BY <2>1, <1>1, <1>2 DEF Fits
<1> HIDE DEF z
<1>5. Way(y, Set(a, v), z)
  BY <1>3, <1>4, WayOne DEF z
<1>6. Way(x, s \o Set(a, v), z)
  BY <1>5, <1>2, WayOn
<1> QED
  BY <1>2, <1>3, <1>6 DEF z

\* One assignment is made.
LEMMA WayNext ==
    ASSUME NEW s, s # <<>>, NEW x \in States, NEW f, Way(x, s, f)
    PROVE  LET y == [x EXCEPT ![Head(s).attribute] = Head(s).value]
           IN  /\ Way(y, Tail(s), f)
               /\ y \in States
               /\ y.attempt \in {x.attempt, f.attempt}
               /\ y.banked \in {x.banked, f.banked}
<1>1. s \in Seq(Entries) /\ Leads(x, s, f) /\ Apt(s, f) /\ f \in States
  BY DEF Way
<1>2. Fits(Head(s), f)
  BY <1>1, LeadsNext
<1> QED
  BY <1>1, <1>2, LeadsNext, FitsKeeps DEF Way

LEMMA WayHome ==
    ASSUME NEW x \in States, NEW f, Way(x, <<>>, f)
    PROVE  f = x
BY LeadsHome DEF Way

-----------------------------------------------------------------------------
\* The lists of assignments the code makes.

Traces == [prompted : BOOLEAN, exists : BOOLEAN, actions : 0..MaxActions,
           levels : 0..WinLevels, rank : 0..Qualifying]

\* _reconcile_trace_state, from any state.
LEMMA WayReconciled ==
    ASSUME NEW y \in States, Trace \in Traces
    PROVE  LET z == [y EXCEPT
                       !.session = IF \/ Trace.actions > live.actions
                                      \/ Trace.levels # live.levels \/ ~Trace.exists
                                   THEN NoSession ELSE @,
                       !.actions = Trace.actions, !.levels = Trace.levels]
           IN  Way(y, Reconciled, z)
<1> DEFINE stale == \/ Trace.actions > live.actions
                    \/ Trace.levels # live.levels \/ ~Trace.exists
           s0 == IF stale THEN Set("session", NoSession) ELSE <<>>
           y0 == IF stale THEN [y EXCEPT !["session"] = NoSession] ELSE y
           y1 == [y0 EXCEPT !["actions"] = Trace.actions]
           y2 == [y1 EXCEPT !["levels"] = Trace.levels]
           s1 == s0 \o Set("actions", Trace.actions)
           s2 == s1 \o Set("levels", Trace.levels)
<1>1. Way(y, s0, y0) /\ y0 \in States
  <2>1. CASE stale
    <3>1. [y EXCEPT !["session"] = NoSession] \in States
      BY DEF States, Sessions
    <3>2. Fits([attribute |-> "session", value |-> NoSession],
               [y EXCEPT !["session"] = NoSession])
      BY DEF Fits, Keys, Sessions
    <3> QED
      BY <3>1, <3>2, <2>1, WayOne DEF Keys
  <2>2. CASE ~stale
    BY <2>2, WayNil
  <2> QED
    BY <2>1, <2>2
<1> HIDE DEF stale, s0, y0
<1>2. Way(y, s1, y1) /\ y1 \in States
  <2>1. Fits([attribute |-> "actions", value |-> Trace.actions], y0)
    BY DEF Fits, Keys, Traces
  <2> QED
    BY <1>1, <2>1, WayMore DEF Keys
<1> HIDE DEF s1, y1
<1>3. Way(y, s2, y2)
  <2>1. Fits([attribute |-> "levels", value |-> Trace.levels], y1)
    BY DEF Fits, Keys, Traces
  <2> QED
    BY <1>2, <2>1, WayMore DEF Keys
<1>4. Reconciled = s2
  BY DEF Reconciled, s2, s1, s0, stale
<1>5. y2 = [y EXCEPT !.session = IF stale THEN NoSession ELSE @,
                     !.actions = Trace.actions, !.levels = Trace.levels]
  BY DEF y2, y1, y0, States
<1> QED
  BY <1>3, <1>4, <1>5 DEF stale

\* A turn that ended in doubt or in an error: first the session is given up.
LEMMA WayGivenUp ==
    ASSUME NEW y \in States, Trace \in Traces
    PROVE  LET z == [y EXCEPT !.session = NoSession, !.actions = Trace.actions,
                              !.levels = Trace.levels]
           IN  Way(y, Set("session", NoSession) \o Reconciled, z)
<1> DEFINE y1 == [y EXCEPT !["session"] = NoSession]
           z1 == [y1 EXCEPT
                    !.session = IF \/ Trace.actions > live.actions
                                   \/ Trace.levels # live.levels \/ ~Trace.exists
                                THEN NoSession ELSE @,
                    !.actions = Trace.actions, !.levels = Trace.levels]
           z == [y EXCEPT !.session = NoSession, !.actions = Trace.actions,
                          !.levels = Trace.levels]
<1>1. y1 \in States
  BY DEF States, Sessions
<1>2. Way(y, Set("session", NoSession), y1)
  <2>1. Fits([attribute |-> "session", value |-> NoSession], y1)
    BY DEF Fits, Keys, Sessions
  <2> QED
    BY <1>1, <2>1, WayOne DEF Keys
<1>3. z1 = z
  BY DEF States
<1>4. Way(y1, Reconciled, z1)
  BY <1>1, WayReconciled
<1>5. z.attempt = y1.attempt /\ z.banked = y1.banked
  BY DEF States
<1> HIDE DEF y1, z1, z
<1>6. Way(y, Set("session", NoSession) \o Reconciled, z)
  BY <1>2, <1>3, <1>4, <1>5, WayOn
<1> QED
  BY <1>6 DEF z

\* The error is counted before.
LEMMA WayFailed ==
    ASSUME NEW y \in States, Trace \in Traces, NEW n \in 0..ErrorLimit
    PROVE  LET z == [y EXCEPT !.errors = n, !.session = NoSession,
                              !.actions = Trace.actions, !.levels = Trace.levels]
           IN  Way(y, Set("errors", n) \o Set("session", NoSession) \o Reconciled, z)
<1> DEFINE y1 == [y EXCEPT !["errors"] = n]
           y2 == [y1 EXCEPT !["session"] = NoSession]
           z1 == [y2 EXCEPT
                    !.session = IF \/ Trace.actions > live.actions
                                   \/ Trace.levels # live.levels \/ ~Trace.exists
                                THEN NoSession ELSE @,
                    !.actions = Trace.actions, !.levels = Trace.levels]
           z == [y EXCEPT !.errors = n, !.session = NoSession,
                          !.actions = Trace.actions, !.levels = Trace.levels]
           s2 == Set("errors", n) \o Set("session", NoSession)
<1>1. Way(y, Set("errors", n), y1) /\ y1 \in States
  <2>1. y1 \in States
    BY DEF States
  <2>2. Fits([attribute |-> "errors", value |-> n], y1)
    BY DEF Fits, Keys
  <2> QED
    BY <2>1, <2>2, WayOne DEF Keys
<1>2. z1 = z /\ z.attempt = y2.attempt /\ z.banked = y2.banked
  BY DEF States
<1> HIDE DEF y1
<1>3. Way(y, s2, y2) /\ y2 \in States
  <2>1. Fits([attribute |-> "session", value |-> NoSession], y1)
    BY DEF Fits, Keys, Sessions
  <2> QED
    BY <1>1, <2>1, WayMore DEF Keys
<1>4. Way(y2, Reconciled, z1)
  BY <1>3, WayReconciled
<1> HIDE DEF y2, z1, z, s2
<1>5. Way(y, s2 \o Reconciled, z)
  BY <1>2, <1>3, <1>4, WayOn
<1> QED
  BY <1>5 DEF z, s2

\* _advance_attempt.
LEMMA WayAdvanced ==
    ASSUME NEW y \in States, y = live, y.attempt <= Attempts, CampaignAssumption
    PROVE  LET z == [y EXCEPT !.attempt = @ + 1, !.episodes = 0, !.session = NoSession,
                              !.actions = 0, !.levels = 0, !.zero = 0, !.errors = 0]
           IN  Way(y, NextAttempt, z)
<1> DEFINE n == y.attempt + 1
           y1 == [y EXCEPT !["attempt"] = n]
           y2 == [y1 EXCEPT !["episodes"] = 0]
           y3 == [y2 EXCEPT !["session"] = NoSession]
           y4 == [y3 EXCEPT !["actions"] = 0]
           y5 == [y4 EXCEPT !["levels"] = 0]
           y6 == [y5 EXCEPT !["zero"] = 0]
           y7 == [y6 EXCEPT !["errors"] = 0]
           z == [y EXCEPT !.attempt = @ + 1, !.episodes = 0, !.session = NoSession,
                          !.actions = 0, !.levels = 0, !.zero = 0, !.errors = 0]
           s1 == Set("attempt", n)
           s2 == s1 \o Set("episodes", 0)
           s3 == s2 \o Set("session", NoSession)
           s4 == s3 \o Set("actions", 0)
           s5 == s4 \o Set("levels", 0)
           s6 == s5 \o Set("zero", 0)
           s7 == s6 \o Set("errors", 0)
<1>0. NextAttempt = s7
  BY DEF NextAttempt
<1>1. 0 \in 0..Episodes /\ 0 \in 0..MaxActions /\ 0 \in 0..WinLevels
      /\ 0 \in 0..ZeroLimit /\ 0 \in 0..ErrorLimit /\ Attempts \in Nat
  BY DEF CampaignAssumption
<1>2. y7 = z
  BY DEF States
<1>3. Way(y, s1, y1) /\ y1 \in States
  <2>1. n \in 1..(Attempts + 1)
    BY <1>1 DEF States
  <2> HIDE DEF n
  <2>2. y1 \in States /\ y1.attempt = n
    BY <2>1 DEF States
  <2>3. Fits([attribute |-> "attempt", value |-> n], y1)
    BY <2>2 DEF Fits, Keys
  <2> QED
    BY <2>2, <2>3, WayOne DEF Keys
<1> HIDE DEF n, y1, s1
<1>4. Way(y, s2, y2) /\ y2 \in States
  <2>1. Fits([attribute |-> "episodes", value |-> 0], y1)
    BY <1>1 DEF Fits, Keys
  <2> QED
    BY <1>3, <2>1, WayMore DEF Keys
<1> HIDE DEF y2, s2
<1>5. Way(y, s3, y3) /\ y3 \in States
  <2>1. Fits([attribute |-> "session", value |-> NoSession], y2)
    BY DEF Fits, Keys, Sessions
  <2> QED
    BY <1>4, <2>1, WayMore DEF Keys
<1> HIDE DEF y3, s3
<1>6. Way(y, s4, y4) /\ y4 \in States
  <2>1. Fits([attribute |-> "actions", value |-> 0], y3)
    BY <1>1 DEF Fits, Keys
  <2> QED
    BY <1>5, <2>1, WayMore DEF Keys
<1> HIDE DEF y4, s4
<1>7. Way(y, s5, y5) /\ y5 \in States
  <2>1. Fits([attribute |-> "levels", value |-> 0], y4)
    BY <1>1 DEF Fits, Keys
  <2> QED
    BY <1>6, <2>1, WayMore DEF Keys
<1> HIDE DEF y5, s5
<1>8. Way(y, s6, y6) /\ y6 \in States
  <2>1. Fits([attribute |-> "zero", value |-> 0], y5)
    BY <1>1 DEF Fits, Keys
  <2> QED
    BY <1>7, <2>1, WayMore DEF Keys
<1> HIDE DEF y6, s6
<1>9. Way(y, s7, y7)
  <2>1. Fits([attribute |-> "errors", value |-> 0], y6)
    BY <1>1 DEF Fits, Keys
  <2> QED
    BY <1>8, <2>1, WayMore DEF Keys
<1> QED
  BY <1>0, <1>2, <1>9

\* The state follows the win.
LEMMA WayBanked ==
    ASSUME NEW y \in States, Trace \in Traces, NEW b \in BOOLEAN
    PROVE  LET z == [y EXCEPT !.banked = b, !.actions = Trace.actions,
                              !.levels = Trace.levels, !.session = NoSession]
           IN  Way(y, Set("banked", b) \o Set("actions", Trace.actions)
                      \o Set("levels", Trace.levels) \o Set("session", NoSession), z)
<1> DEFINE y1 == [y EXCEPT !["banked"] = b]
           y2 == [y1 EXCEPT !["actions"] = Trace.actions]
           y3 == [y2 EXCEPT !["levels"] = Trace.levels]
           y4 == [y3 EXCEPT !["session"] = NoSession]
           s1 == Set("banked", b)
           s2 == s1 \o Set("actions", Trace.actions)
           s3 == s2 \o Set("levels", Trace.levels)
           s4 == s3 \o Set("session", NoSession)
<1>1. y4 = [y EXCEPT !.banked = b, !.actions = Trace.actions,
                     !.levels = Trace.levels, !.session = NoSession]
  BY DEF States
<1>2. Way(y, s1, y1) /\ y1 \in States
  <2>1. y1 \in States /\ y1.banked = b
    BY DEF States
  <2>2. Fits([attribute |-> "banked", value |-> b], y1)
    BY <2>1 DEF Fits, Keys
  <2> QED
    BY <2>1, <2>2, WayOne DEF Keys
<1> HIDE DEF y1, s1
<1>3. Way(y, s2, y2) /\ y2 \in States
  <2>1. Fits([attribute |-> "actions", value |-> Trace.actions], y1)
    BY DEF Fits, Keys, Traces
  <2> QED
    BY <1>2, <2>1, WayMore DEF Keys
<1> HIDE DEF y2, s2
<1>4. Way(y, s3, y3) /\ y3 \in States
  <2>1. Fits([attribute |-> "levels", value |-> Trace.levels], y2)
    BY DEF Fits, Keys, Traces
  <2> QED
    BY <1>3, <2>1, WayMore DEF Keys
<1> HIDE DEF y3, s3
<1>5. Way(y, s4, y4)
  <2>1. Fits([attribute |-> "session", value |-> NoSession], y3)
    BY DEF Fits, Keys, Sessions
  <2> QED
    BY <1>4, <2>1, WayMore DEF Keys
<1> QED
  BY <1>1, <1>5 DEF s4, s3, s2, s1

\* A completed turn.
Completed ==
    Set("errors", 0) \o Set("episodes", live.episodes + 1)
    \o Set("session", Position) \o Set("actions", Trace.actions)
    \o (IF Trace.levels > live.levels THEN Set("session", NoSession) ELSE <<>>)
    \o Set("levels", Trace.levels)
    \o Set("zero", IF Trace.actions = live.actions
                   THEN UpTo(ZeroLimit, live.zero + 1) ELSE 0)

LEMMA WayCompleted ==
    ASSUME live \in States, Trace \in Traces, live.episodes < Episodes,
           CampaignAssumption
    PROVE  \E z \in States :
              /\ Way(live, Completed, z)
              /\ z.attempt = live.attempt /\ z.banked = live.banked
              /\ z.episodes = live.episodes + 1
              /\ z.session \in {NoSession, Position}
              /\ z.actions = Trace.actions /\ z.levels = Trace.levels
<1> DEFINE up1 == Trace.levels > live.levels
           n == IF Trace.actions = live.actions THEN UpTo(ZeroLimit, live.zero + 1) ELSE 0
           k == live.episodes + 1
           y1 == [live EXCEPT !["errors"] = 0]
           y2 == [y1 EXCEPT !["episodes"] = k]
           y3 == [y2 EXCEPT !["session"] = Position]
           y4 == [y3 EXCEPT !["actions"] = Trace.actions]
           s0 == IF up1 THEN Set("session", NoSession) ELSE <<>>
           y5 == IF up1 THEN [y4 EXCEPT !["session"] = NoSession] ELSE y4
           y6 == [y5 EXCEPT !["levels"] = Trace.levels]
           y7 == [y6 EXCEPT !["zero"] = n]
           s1 == Set("errors", 0)
           s2 == s1 \o Set("episodes", k)
           s3 == s2 \o Set("session", Position)
           s4 == s3 \o Set("actions", Trace.actions)
           s5 == s4 \o s0
           s6 == s5 \o Set("levels", Trace.levels)
           s7 == s6 \o Set("zero", n)
<1>0. Completed = s7
  BY DEF Completed
<1>1. n \in 0..ZeroLimit /\ 0 \in 0..ErrorLimit /\ k \in 0..Episodes
  BY DEF CampaignAssumption, States, UpTo
<1>2. Position \in Sessions
  BY DEF Position, Sessions, Traces, States
<1>3. /\ y7.attempt = live.attempt /\ y7.banked = live.banked
      /\ y7.episodes = k /\ y7.session \in {NoSession, Position}
      /\ y7.actions = Trace.actions /\ y7.levels = Trace.levels
  <2> HIDE DEF n, k, up1
  <2> QED
    BY DEF States
<1> HIDE DEF n, up1
<1>4. Way(live, s1, y1) /\ y1 \in States
  <2>1. y1 \in States
    BY <1>1 DEF States
  <2>2. Fits([attribute |-> "errors", value |-> 0], y1)
    BY <1>1 DEF Fits, Keys
  <2> QED
    BY <2>1, <2>2, WayOne DEF Keys
<1> HIDE DEF y1, s1, k
<1>5. Way(live, s2, y2) /\ y2 \in States
  <2>1. Fits([attribute |-> "episodes", value |-> k], y1)
    BY <1>1 DEF Fits, Keys
  <2> QED
    BY <1>4, <2>1, WayMore DEF Keys
<1> HIDE DEF y2, s2
<1>6. Way(live, s3, y3) /\ y3 \in States
  <2>1. Fits([attribute |-> "session", value |-> Position], y2)
    BY <1>2 DEF Fits, Keys
  <2> QED
    BY <1>5, <2>1, WayMore DEF Keys
<1> HIDE DEF y3, s3
<1>7. Way(live, s4, y4) /\ y4 \in States
  <2>1. Fits([attribute |-> "actions", value |-> Trace.actions], y3)
    BY DEF Fits, Keys, Traces
  <2> QED
    BY <1>6, <2>1, WayMore DEF Keys
<1> HIDE DEF y4, s4
<1>8. Way(live, s5, y5) /\ y5 \in States
  <2>1. CASE up1
    <3>1. Fits([attribute |-> "session", value |-> NoSession], y4)
      BY DEF Fits, Keys, Sessions
    <3> QED
      BY <1>7, <2>1, <3>1, WayMore DEF Keys
  <2>2. CASE ~up1
    <3>1. s4 \o <<>> = s4
      BY <1>7 DEF Way
    <3> QED
      BY <1>7, <2>2, <3>1
  <2> QED
    BY <2>1, <2>2
<1> HIDE DEF y5, s5
<1>9. Way(live, s6, y6) /\ y6 \in States
  <2>1. Fits([attribute |-> "levels", value |-> Trace.levels], y5)
    BY DEF Fits, Keys, Traces
  <2> QED
    BY <1>8, <2>1, WayMore DEF Keys
<1> HIDE DEF y6, s6
<1>10. Way(live, s7, y7) /\ y7 \in States
  <2>1. Fits([attribute |-> "zero", value |-> n], y6)
    BY <1>1 DEF Fits, Keys
  <2> QED
    BY <1>9, <2>1, WayMore DEF Keys
<1> QED
  BY <1>0, <1>3, <1>10 DEF k

-----------------------------------------------------------------------------
\* The inductive invariant.

Places ==
    {"queued", "loop", "entering", "episodes", "prompting", "playing", "observing",
     "judging", "recovering", "banking", "anchoring", "advancing", "done"}

\* Where the worker goes from a save.
Targets == {"loop", "entering", "episodes", "prompting", "judging", "advancing", "done"}

\* Where the worker is, or goes once it has saved.
Place == IF at = "saving" THEN after ELSE at

Kinds ==
    /\ up \in BOOLEAN /\ stopped \in BOOLEAN /\ anchored \in BOOLEAN
    /\ lock \in {"free", "worker", "peer"}
    /\ live \in States /\ saved \in States /\ draft \in States
    /\ at \in Places \cup {"saving"} /\ after \in Targets
    /\ left \in 0..Episodes
    /\ bank \in [rank : 0..Qualifying, actions : 0..MaxActions]
    /\ unread \in Seq(Keys)

TraceKinds ==
    /\ trace \in [1..Attempts -> Traces]
    /\ \A a \in 1..Attempts : trace[a].rank = 0 => trace[a].levels < WinLevels
    /\ \A a \in 1..Attempts : trace[a].rank > 0 => trace[a].prompted

\* Who holds the state lock, and where assignments are pending.
Locking ==
    /\ unread # <<>> => lock = "peer"
    /\ at = "anchoring" => lock = "worker"
    /\ lock = "worker" => at \in {"anchoring", "saving"}
    /\ at \notin {"saving", "observing", "recovering", "anchoring"} => todo = <<>>
    /\ ~up => todo = <<>> /\ at = "done" /\ lock = "free" /\ draft = Fresh

\* What a completion flag stands for, and what a copy of the state is a copy of.
Proven ==
    /\ live.banked => bank.rank = Qualifying /\ (anchored \/ at = "anchoring")
    /\ \A s \in {saved, draft} :
          /\ s.banked => bank.rank = Qualifying /\ anchored
          /\ s.attempt <= live.attempt

\* A win of the attempt is in the bank, or a better one.
Kept(a) == trace[a].rank > 0 => ~Better(WinOf(trace[a]), bank)

\* The state the worker is on its way to.
Heading(f) ==
    /\ live.attempt <= f.attempt
    /\ Place \notin {"queued", "loop", "done"} => f.attempt <= Attempts
    /\ Place \in {"episodes", "prompting", "observing", "judging", "recovering"}
         => f.episodes + left <= Episodes
    /\ Place = "playing" => f.episodes + left < Episodes /\ trace[f.attempt].prompted
    /\ Place = "prompting" => left > 0
    /\ f.banked => bank.rank = Qualifying /\ (anchored \/ at = "anchoring")
    /\ \A a \in 1..Attempts : a < f.attempt => Kept(a)
    /\ Place \in {"episodes", "prompting"} => trace[f.attempt].rank = 0
    /\ Place = "banking" => trace[f.attempt].rank > 0
    /\ Place \in {"anchoring", "advancing"} => Kept(f.attempt)

\* A state a worker can go on from, as long as workers run one at a time.
Coherent(s) ==
    /\ s.session \in {NoSession,
                      [attempt |-> s.attempt, actions |-> s.actions, levels |-> s.levels]}
    /\ s.attempt <= Attempts /\ s.episodes > 0 => trace[s.attempt].prompted
    /\ \A a \in 1..Attempts : a < s.attempt => trace[a].prompted

Alone(f) ==
    /\ Coherent(f) /\ Coherent(saved)
    /\ Place \in {"playing", "observing", "judging", "recovering", "banking",
                  "anchoring", "advancing"} => trace[f.attempt].prompted
    /\ Place \in {"episodes", "prompting"} => left > 0 \/ trace[f.attempt].prompted
    /\ Place = "prompting" => /\ f.actions = trace[f.attempt].actions
                              /\ f.levels = trace[f.attempt].levels
    /\ lock = "peer" => /\ at \in {"queued", "done"}
                        /\ \A a \in Keys : a \in ToSet(unread) \/ draft[a] = live[a]

Underway ==
    \E f \in States : Way(live, todo, f) /\ Heading(f) /\ (Jobs = "one" => Alone(f))

CampaignInv == Kinds /\ TraceKinds /\ Locking /\ Proven /\ Underway

\* Between two assignments there is nothing to go to.
LEMMA AtRest ==
    ASSUME CampaignInv, todo = <<>>
    PROVE  Way(live, <<>>, live) /\ Heading(live) /\ (Jobs = "one" => Alone(live))
<1>1. PICK f \in States : Way(live, todo, f) /\ Heading(f) /\ (Jobs = "one" => Alone(f))
  BY DEF CampaignInv, Underway
<1>2. live \in States
  BY DEF CampaignInv, Kinds
<1>3. f = live
  BY <1>1, <1>2, WayHome
<1> QED
  BY <1>1, <1>3

LEMMA RestingAt ==
    ASSUME CampaignInv, todo = <<>>
    PROVE  \E f \in States : f = live /\ Heading(f) /\ (Jobs = "one" => Alone(f))
<1>1. PICK f \in States : Way(live, todo, f) /\ Heading(f) /\ (Jobs = "one" => Alone(f))
  BY DEF CampaignInv, Underway
<1>2. f = live
  BY <1>1, WayHome DEF CampaignInv, Kinds
<1> QED
  BY <1>1, <1>2

\* Inside an attempt there is a trace to read.
LEMMA InAttempt ==
    ASSUME CampaignInv, todo = <<>>, Place \notin {"queued", "loop", "done"}
    PROVE  live.attempt \in 1..Attempts /\ Trace \in Traces
<1>1. live \in States /\ Heading(live)
  BY AtRest DEF CampaignInv, Kinds
<1>2. live.attempt \in 1..Attempts
  BY <1>1 DEF Heading, States
<1> QED
  BY <1>2 DEF CampaignInv, TraceKinds, Trace

-----------------------------------------------------------------------------
\* The types.

LEMMA FreshIsAState ==
    ASSUME CampaignAssumption
    PROVE  Fresh \in States
BY DEF CampaignAssumption, Fresh, States, Sessions

LEMMA Counted ==
    ASSUME CampaignAssumption, NEW x \in States
    PROVE  /\ x.attempt \in Nat \ {0} /\ x.episodes \in Nat
           /\ x.actions \in Nat /\ x.levels \in Nat
BY DEF CampaignAssumption, States

\* What one assignment does to the state in memory.
LEMMA AssignMoves ==
    ASSUME NEW f \in States, live \in States, Way(live, todo, f), Assign
    PROVE  /\ Way(live', todo', f) /\ live' \in States
           /\ live'.attempt \in {live.attempt, f.attempt}
           /\ live'.banked \in {live.banked, f.banked}
BY WayNext DEF Assign

LEMMA KindsStep ==
    ASSUME CampaignAssumption, CampaignInv, [Next]_vars
    PROVE  Kinds'
<1>0. Kinds /\ TraceKinds /\ Underway
  BY DEF CampaignInv
<1>1. CASE Assign
  <2>1. PICK f \in States : Way(live, todo, f)
    BY <1>0 DEF Underway
  <2>2. live' \in States
    BY <1>0, <1>1, <2>1, AssignMoves DEF Kinds
  <2> QED
    BY <1>0, <1>1, <2>2 DEF Assign, Kinds, workerVars, peerVars, diskVars
<1>2. CASE Save \/ StartWorker \/ Loop \/ Episode
  BY <1>0, <1>2
     DEF Kinds, Save, StartWorker, Loop, Episode, Goto, Reconcile, AssignAndSave,
         Places, Targets, peerVars, diskVars, Ready
<1>3. CASE PeerBeginsSave \/ PeerWrites \/ PeerStops
  <2>1. Attributes \in Seq(Keys)
    BY DEF Attributes, Keys
  <2> QED
    BY <1>0, <1>3, <2>1, FreshIsAState
       DEF Kinds, PeerBeginsSave, PeerWrites, PeerStops, workerVars, peerVars, diskVars
<1>4. CASE PeerCopies
  <2>1. Head(unread) \in Keys /\ Tail(unread) \in Seq(Keys)
    BY <1>0, <1>4 DEF Kinds, PeerCopies
  <2>2. draft' \in States
    BY <1>0, <1>4, <2>1, CopyKeeps DEF Kinds, PeerCopies
  <2> QED
    BY <1>0, <1>4, <2>1, <2>2 DEF Kinds, PeerCopies, workerVars, diskVars
<1>5. CASE Prompt
  <2>1. todo = <<>> /\ at = "prompting"
    BY <1>5 DEF Prompt, Ready
  <2>2. left > 0
    BY <2>1, AtRest DEF Heading, Place
  <2>3. left' \in 0..Episodes
    BY <1>0, <1>5, <2>2, CampaignAssumption DEF Prompt, Kinds, CampaignAssumption
  <2> QED
    BY <1>0, <1>5, <2>3 DEF Kinds, Prompt, Goto, Places, Targets, peerVars
<1>6. CASE OpenTrace \/ (\E levelUp \in 0..1, rank \in 1..Qualifying : Play(levelUp, rank))
  BY <1>0, <1>6 DEF Kinds, OpenTrace, Play, workerVars, peerVars
<1>7. CASE TurnCompletes \/ TurnAborts \/ TurnIsAmbiguous \/ TurnFails \/ Observe
  BY <1>0, <1>7
     DEF Kinds, TurnCompletes, TurnAborts, TurnIsAmbiguous, TurnFails, Observe, Goto,
         AssignAndSave, Places, Targets, peerVars, diskVars
<1>8. CASE BankWin \/ ContinueAfterTurn \/ ContinueAfterError \/ Advance
  BY <1>0, <1>8
     DEF Kinds, BankWin, ContinueAfterTurn, ContinueAfterError, Advance, Goto,
         AssignAndSave, Places, Targets, peerVars, diskVars
<1>9. CASE Enter
  <2>1. live.episodes \in 0..Episodes /\ Episodes \in Nat
    BY <1>0 DEF Kinds, States, CampaignAssumption
  <2>2. left' = Episodes - live.episodes
    BY <1>9 DEF Enter
  <2>3. left' \in 0..Episodes
    BY <2>1, <2>2
  <2> QED
    BY <1>0, <1>9, <2>3 DEF Kinds, Enter, Goto, Places, Targets, peerVars, diskVars
<1>10. CASE Bank
  <2>1. todo = <<>> /\ at = "banking"
    BY <1>10 DEF Bank, Ready
  <2>2. Trace \in Traces
    BY <2>1, InAttempt DEF Place
  <2>3. bank' \in [rank : 0..Qualifying, actions : 0..MaxActions]
    BY <1>0, <1>10, <2>2 DEF Bank, Kinds, WinOf, Traces
  <2> QED
    BY <1>0, <1>10, <2>3 DEF Kinds, Bank, Places, Targets, peerVars
<1>11. CASE Anchor
  BY <1>0, <1>11 DEF Kinds, Anchor, AssignAndSave, Places, Targets, peerVars, States
<1>12. CASE Resume
  <2>1. live' \in States
    BY <1>0, <1>12 DEF Kinds, Resume, States
  <2> QED
    BY <1>0, <1>12, <2>1 DEF Kinds, Resume, Places, Targets, peerVars
<1>13. CASE Finish \/ Crash
  <2>1. saved' \in States /\ live' = saved'
    BY <1>0, <1>13 DEF Kinds, Finish, Crash, Gone
  <2>2. 0 \in 0..Episodes
    BY DEF CampaignAssumption
  <2>3. <<>> \in Seq(Keys)
    OBVIOUS
  <2> QED
    BY <1>0, <1>13, <2>1, <2>2, <2>3, FreshIsAState DEF Kinds, Finish, Crash, Gone, Places, Targets
<1>14. CASE UNCHANGED vars
  BY <1>0, <1>14 DEF Kinds, vars, workerVars, peerVars, diskVars
<1> QED
  BY <1>1, <1>2, <1>3, <1>4, <1>5, <1>6, <1>7, <1>8, <1>9, <1>10, <1>11, <1>12, <1>13,
     <1>14 DEF Next, Work, Wait

-----------------------------------------------------------------------------
\* The traces.

\* A step adds to the trace of the worker's attempt or leaves the traces alone, and a
\* turn in an attempt is history.
LEMMA TracesGrow ==
    ASSUME CampaignAssumption, CampaignInv, [Next]_vars
    PROVE  /\ TraceKinds'
           /\ \A a \in 1..Attempts : trace[a].prompted => trace'[a].prompted
           /\ \A a \in 1..Attempts : a # live.attempt => trace'[a] = trace[a]
<1>0. TraceKinds /\ live \in States
  BY DEF CampaignInv, Kinds
<1>1. CASE UNCHANGED trace
  BY <1>0, <1>1 DEF TraceKinds
<1>2. CASE Prompt
  <2>1. live.attempt \in 1..Attempts /\ Trace \in Traces
    BY <1>2, InAttempt DEF Prompt, Ready, Place
  <2>2. trace' = [trace EXCEPT ![live.attempt].prompted = TRUE]
    BY <1>2 DEF Prompt
  <2> QED
    BY <1>0, <2>1, <2>2 DEF TraceKinds, Traces
<1>3. CASE OpenTrace
  <2>1. live.attempt \in 1..Attempts /\ Trace \in Traces
    BY <1>3, InAttempt DEF OpenTrace, Ready, Place
  <2>2. trace' = [trace EXCEPT ![live.attempt].exists = TRUE]
    BY <1>3 DEF OpenTrace
  <2> QED
    BY ZenonT(60), <1>0, <2>1, <2>2 DEF TraceKinds, Traces
<1>4. ASSUME NEW levelUp \in 0..1, NEW rank \in 1..Qualifying, Play(levelUp, rank)
      PROVE  /\ TraceKinds'
             /\ \A a \in 1..Attempts : trace[a].prompted => trace'[a].prompted
             /\ \A a \in 1..Attempts : a # live.attempt => trace'[a] = trace[a]
  <2>0. todo = <<>> /\ at = "playing"
    BY <1>4 DEF Play, Ready
  <2>1. /\ live.attempt \in 1..Attempts /\ Trace \in Traces
        /\ trace[live.attempt].prompted
    BY <2>0, InAttempt, AtRest DEF Heading, Place
  <2> DEFINE t == trace[live.attempt]
             reached == t.levels + levelUp
             new == [t EXCEPT !.actions = @ + 1, !.levels = reached,
                              !.rank = IF reached = WinLevels THEN rank ELSE 0]
  <2>2. trace' = [trace EXCEPT ![live.attempt] = new]
    BY <1>4, Zenon DEF Play, Trace
  <2>3. t \in Traces /\ t.rank = 0 /\ t.actions < MaxActions /\ t.levels < WinLevels
    BY <1>0, <1>4, <2>1 DEF Play, Trace, TraceKinds
  <2>4. new \in Traces /\ (new.rank = 0 => new.levels < WinLevels) /\ new.prompted
    <3>1. t.levels \in Nat /\ t.actions \in Nat /\ WinLevels \in Nat \ {0}
          /\ MaxActions \in Nat \ {0} /\ Qualifying \in Nat \ {0} /\ t.prompted
      BY <2>1, <2>3 DEF Traces, CampaignAssumption
    <3>2. reached \in 0..WinLevels /\ t.actions + 1 \in 0..MaxActions
          /\ (reached # WinLevels => reached < WinLevels)
      BY <2>3, <3>1
    <3> DEFINE n == t.actions + 1
               r == IF reached = WinLevels THEN rank ELSE 0
    <3>3. r \in 0..Qualifying /\ n \in 0..MaxActions /\ (reached = WinLevels => r = rank)
      BY <3>1, <3>2
    <3>4. new = [t EXCEPT !.actions = n, !.levels = reached, !.rank = r]
      OBVIOUS
    <3> HIDE DEF t, new, reached, n, r
    <3>5. /\ new \in Traces /\ new.levels = reached /\ new.prompted = t.prompted
          /\ new.rank = r
      <4>1. t \in Traces /\ reached \in 0..WinLevels
        BY <2>3, <3>2
      <4>2. LET x == [t EXCEPT !.actions = n, !.levels = reached, !.rank = r]
            IN  x \in Traces /\ x.levels = reached /\ x.rank = r /\ x.prompted = t.prompted
        BY <3>3, <4>1 DEF Traces
      <4> QED
        BY <3>4, <4>2
    <3> QED
      BY <3>1, <3>2, <3>3, <3>5
  <2> HIDE DEF new
  <2> QED
    BY <1>0, <2>1, <2>2, <2>4 DEF TraceKinds
<1> QED
  BY <1>1, <1>2, <1>3, <1>4
     DEF Next, Work, Wait, vars, workerVars, peerVars, diskVars, Assign, Save,
         StartWorker, Loop, Episode, TurnCompletes, TurnAborts, TurnIsAmbiguous,
         TurnFails, Observe, BankWin, ContinueAfterTurn, ContinueAfterError, Advance,
         Enter, Bank, Anchor, Resume, Finish, Crash, Gone, PeerBeginsSave, PeerWrites,
         PeerStops, PeerCopies

-----------------------------------------------------------------------------
\* The lock and the bank.

LEMMA LockingStep ==
    ASSUME CampaignInv, [Next]_vars
    PROVE  Locking'
<1>0. Locking /\ Kinds
  BY DEF CampaignInv
<1>1. CASE Assign
  BY <1>0, <1>1 DEF Locking, Assign, peerVars
<1>2. CASE Save \/ StartWorker \/ Loop \/ Episode \/ Prompt
  BY <1>0, <1>2
     DEF Locking, Kinds, Targets, MayLock, Save, StartWorker, Loop, Episode, Prompt, Goto,
         Reconcile,
         AssignAndSave, peerVars, Ready
<1>3. CASE PeerBeginsSave \/ PeerWrites \/ PeerStops
  BY <1>0, <1>3 DEF Locking, PeerBeginsSave, PeerWrites, PeerStops, workerVars, peerVars
<1>4. CASE PeerCopies
  BY <1>0, <1>4 DEF Locking, PeerCopies, workerVars
<1>5. CASE OpenTrace \/ (\E levelUp \in 0..1, rank \in 1..Qualifying : Play(levelUp, rank))
  BY <1>0, <1>5 DEF Locking, OpenTrace, Play, workerVars, peerVars
<1>6. CASE TurnCompletes \/ TurnAborts \/ TurnIsAmbiguous \/ TurnFails \/ Observe
  BY <1>0, <1>6
     DEF Locking, TurnCompletes, TurnAborts, TurnIsAmbiguous, TurnFails, Observe, Goto,
         AssignAndSave, peerVars, Ready
<1>7. CASE BankWin \/ Enter \/ ContinueAfterTurn \/ ContinueAfterError \/ Advance
  BY <1>0, <1>7
     DEF Locking, BankWin, Enter, ContinueAfterTurn, ContinueAfterError, Advance, Goto,
         AssignAndSave, peerVars, Ready
<1>8. CASE Bank \/ Anchor
  BY <1>0, <1>8 DEF Locking, Bank, Anchor, AssignAndSave, peerVars, Ready
<1>9. CASE Resume
  BY <1>0, <1>9 DEF Locking, Resume, peerVars
<1>10. CASE Finish \/ Crash
  BY <1>0, <1>10 DEF Locking, Finish, Crash, Gone
<1>11. CASE UNCHANGED vars
  BY <1>0, <1>11 DEF Locking, vars, workerVars, peerVars
<1> QED
  BY <1>1, <1>2, <1>3, <1>4, <1>5, <1>6, <1>7, <1>8, <1>9, <1>10, <1>11
     DEF Next, Work, Wait

\* A win is replaced only by a better one, so what was no better than the bank is no
\* better than it later.
LEMMA BankImproves ==
    ASSUME CampaignInv, [Next]_vars
    PROVE  /\ \A w \in [rank : Int, actions : Int] : ~Better(w, bank) => ~Better(w, bank')
           /\ bank.rank = Qualifying => bank'.rank = Qualifying
           /\ anchored => anchored'
<1>1. CASE Bank
  <2>1. todo = <<>> /\ at = "banking"
    BY <1>1 DEF Bank, Ready
  <2>2. Trace \in Traces /\ bank \in [rank : 0..Qualifying, actions : 0..MaxActions]
    BY <2>1, InAttempt DEF Place, CampaignInv, Kinds
  <2>3. WinOf(Trace) \in [rank : 0..Qualifying, actions : 0..MaxActions]
    BY <2>2 DEF WinOf, Traces
  <2>4. bank' = (IF Better(WinOf(Trace), bank) THEN WinOf(Trace) ELSE bank)
        /\ anchored' = anchored
    BY <1>1 DEF Bank
  <2> QED
    BY <2>2, <2>3, <2>4 DEF Better
<1>2. CASE ~Bank
  <2>1. bank' = bank
    BY <1>2
       DEF Next, Work, Wait, vars, diskVars, Assign, Save, StartWorker, Loop, Episode,
           TurnCompletes, TurnAborts, TurnIsAmbiguous, TurnFails, Observe, BankWin,
           ContinueAfterTurn, ContinueAfterError, Advance, Enter, Anchor, Resume, Finish,
           Crash, Gone, PeerBeginsSave, PeerWrites, PeerStops, PeerCopies, Prompt,
           OpenTrace, Play
  <2>2. anchored => anchored'
    BY <1>2
       DEF Next, Work, Wait, vars, diskVars, Assign, Save, StartWorker, Loop, Episode,
           TurnCompletes, TurnAborts, TurnIsAmbiguous, TurnFails, Observe, BankWin,
           ContinueAfterTurn, ContinueAfterError, Advance, Enter, Anchor, Resume, Finish,
           Crash, Gone, PeerBeginsSave, PeerWrites, PeerStops, PeerCopies, Prompt,
           OpenTrace, Play
  <2> QED
    BY <2>1, <2>2
<1> QED
  BY <1>1, <1>2

\* The state in memory goes on to later attempts only, until the process is gone, and
\* it counts the game as complete only if the bank does.
LEMMA ProvenStep ==
    ASSUME CampaignAssumption, CampaignInv, [Next]_vars
    PROVE  Proven'
<1>0. Kinds /\ TraceKinds /\ Locking /\ Proven /\ Underway /\ Kinds'
  BY KindsStep DEF CampaignInv
<1>b. (bank.rank = Qualifying => bank'.rank = Qualifying) /\ (anchored => anchored')
  BY BankImproves
<1>1. CASE Assign
  <2>1. PICK f \in States : Way(live, todo, f) /\ Heading(f)
    BY <1>0 DEF Underway
  <2>2. /\ live'.attempt \in {live.attempt, f.attempt}
        /\ live'.banked \in {live.banked, f.banked}
    BY <1>0, <1>1, <2>1, AssignMoves DEF Kinds
  <2>3. live.attempt \in Nat /\ f.attempt \in Nat /\ live.attempt <= f.attempt
        /\ saved.attempt \in Nat /\ draft.attempt \in Nat
    BY <1>0, <2>1, Counted DEF Kinds, Heading
  <2>4. UNCHANGED <<at, saved, draft, bank, anchored>>
    BY <1>1 DEF Assign, peerVars, diskVars
  <2> QED
    BY <1>0, <2>1, <2>2, <2>3, <2>4 DEF Proven, Heading
<1>2. CASE Save
  <2>1. live.banked => anchored
    BY <1>0, <1>2 DEF Proven, Save, Ready
  <2>2. UNCHANGED <<live, draft, bank, anchored>> /\ saved' = live
    BY <1>2 DEF Save, peerVars
  <2>3. live.attempt \in Nat
    BY <1>0, Counted DEF Kinds
  <2> QED
    BY <1>0, <2>1, <2>2, <2>3 DEF Proven
<1>3. CASE \/ StartWorker \/ Loop \/ Episode \/ Prompt \/ TurnCompletes \/ TurnAborts
           \/ TurnIsAmbiguous \/ TurnFails \/ Observe \/ BankWin \/ Enter
           \/ ContinueAfterTurn \/ ContinueAfterError \/ Advance
  <2>1. UNCHANGED <<live, saved, draft, bank, anchored>> /\ at # "anchoring"
    BY <1>3
       DEF StartWorker, Loop, Episode, Prompt, TurnCompletes, TurnAborts, TurnIsAmbiguous,
           TurnFails, Observe, BankWin, Enter, ContinueAfterTurn, ContinueAfterError,
           Advance, Ready, peerVars, diskVars
  <2> QED
    BY <1>0, <2>1 DEF Proven
<1>4. CASE \/ PeerBeginsSave \/ PeerStops \/ OpenTrace
           \/ \E levelUp \in 0..1, rank \in 1..Qualifying : Play(levelUp, rank)
  <2>1. UNCHANGED <<live, at, saved, draft, bank, anchored>>
    BY <1>4
       DEF PeerBeginsSave, PeerStops, OpenTrace, Play, workerVars, peerVars, diskVars
  <2> QED
    BY <1>0, <2>1 DEF Proven
<1>5. CASE PeerCopies
  <2>1. Head(unread) \in Keys
    BY <1>0, <1>5 DEF Kinds, PeerCopies
  <2>2. draft'.attempt \in {draft.attempt, live.attempt}
        /\ draft'.banked \in {draft.banked, live.banked}
    BY <1>0, <1>5, <2>1, CopyKeeps DEF Kinds, PeerCopies
  <2>3. at # "anchoring"
    BY <1>0, <1>5 DEF Locking, PeerCopies
  <2>4. UNCHANGED <<live, saved, at, bank, anchored>>
    BY <1>5 DEF PeerCopies, workerVars, diskVars
  <2>5. live.attempt \in Nat
    BY <1>0, Counted DEF Kinds
  <2> QED
    BY <1>0, <2>2, <2>3, <2>4, <2>5 DEF Proven
<1>6. CASE PeerWrites
  <2>1. UNCHANGED <<live, at, bank, anchored>> /\ saved' = draft /\ draft' = Fresh
    BY <1>6 DEF PeerWrites, workerVars
  <2>2. live.attempt \in Nat \ {0} /\ Fresh.attempt = 1 /\ Fresh.banked = FALSE
    BY <1>0, Counted DEF Kinds, Fresh
  <2> QED
    BY <1>0, <2>1, <2>2 DEF Proven
<1>7. CASE Bank
  BY <1>0, <1>7, <1>b DEF Proven, Bank, Ready, peerVars
<1>8. CASE Anchor
  BY <1>0, <1>8 DEF Proven, Anchor, Ready, AssignAndSave, peerVars
<1>9. CASE Resume
  <2>1. live'.attempt = saved.attempt /\ (live'.banked => saved.banked)
    BY <1>0, <1>9 DEF Resume, Kinds, States
  <2>2. saved' = live' /\ draft' = Fresh /\ UNCHANGED <<bank, anchored>>
    BY <1>0, <1>9 DEF Resume, Locking, peerVars
  <2>3. saved.attempt \in Nat \ {0} /\ Fresh.attempt = 1 /\ Fresh.banked = FALSE
    BY <1>0, Counted DEF Kinds, Fresh
  <2> QED
    BY <1>0, <2>1, <2>2, <2>3 DEF Proven
<1>10. CASE Finish \/ Crash
  <2>1. /\ live' = saved' /\ draft' = Fresh /\ UNCHANGED <<bank, anchored>>
        /\ saved' \in {saved, live}
    BY <1>10 DEF Finish, Crash, Gone
  <2>2. (saved' = live /\ live.banked) => anchored
    BY <1>0, <1>10 DEF Finish, Crash, Gone, Ready, Proven
  <2>3. saved'.attempt \in Nat \ {0} /\ Fresh.attempt = 1 /\ Fresh.banked = FALSE
    BY <1>0, Counted DEF Kinds, Fresh
  <2> QED
    BY <1>0, <2>1, <2>2, <2>3 DEF Proven
<1>11. CASE UNCHANGED vars
  BY <1>0, <1>11 DEF Proven, vars, workerVars, peerVars, diskVars
<1> QED
  BY <1>1, <1>2, <1>3, <1>4, <1>5, <1>6, <1>7, <1>8, <1>9, <1>10, <1>11
     DEF Next, Work, Wait

-----------------------------------------------------------------------------
\* The state the worker is on its way to.

\* What is in the bank stays there, and a state that was coherent stays so.
LEMMA KeptOn ==
    ASSUME CampaignAssumption, CampaignInv, [Next]_vars
    PROVE  /\ \A a \in 1..Attempts : trace'[a] = trace[a] /\ Kept(a) => Kept(a)'
           /\ \A s \in States : Coherent(s) => Coherent(s)'
<1>1. ASSUME NEW a \in 1..Attempts, trace'[a] = trace[a], Kept(a)
      PROVE  Kept(a)'
  <2>1. WinOf(trace[a]) \in [rank : Int, actions : Int]
    BY DEF CampaignInv, TraceKinds, Traces, WinOf
  <2>2. trace[a].rank > 0 => ~Better(WinOf(trace[a]), bank')
    BY <2>1, <1>1, BankImproves DEF Kept
  <2> QED
    BY <1>1, <2>2 DEF Kept, Better
<1>2. ASSUME NEW s \in States, Coherent(s)
      PROVE  Coherent(s)'
  <2>1. s.attempt <= Attempts => s.attempt \in 1..Attempts
    BY DEF States, CampaignAssumption
  <2> QED
    BY <1>2, <2>1, TracesGrow DEF Coherent
<1> QED
  BY <1>1, <1>2

\* _reconcile_trace_state.
LEMMA ReconcileStep ==
    ASSUME CampaignAssumption, CampaignInv, todo = <<>>, live.attempt \in 1..Attempts,
           NEW place \in {"entering", "prompting"}, Reconcile(place), UNCHANGED live
    PROVE  \E g \in States :
              /\ Way(live', todo', g)
              /\ g.attempt = live.attempt /\ g.banked = live.banked
              /\ g.episodes = live.episodes
              /\ Jobs = "one" =>
                    g.session \in {NoSession, [attempt |-> g.attempt, actions |-> g.actions,
                                               levels |-> g.levels]}
              /\ Place' \in {place, "done"} /\ at' # "anchoring"
              /\ Place' = place => g.actions = Trace.actions /\ g.levels = Trace.levels
<1>0. live \in States /\ Trace \in Traces /\ (Jobs = "one" => Alone(live))
  BY AtRest DEF CampaignInv, Kinds, TraceKinds, Trace
<1> DEFINE g == [live EXCEPT
                   !.session = IF \/ Trace.actions > live.actions
                                  \/ Trace.levels # live.levels \/ ~Trace.exists
                               THEN NoSession ELSE @,
                   !.actions = Trace.actions, !.levels = Trace.levels]
<1>1. CASE Trace.exists /\ Trace.actions < live.actions
  <2>1. at' = "done" /\ todo' = <<>> /\ live' = live
    BY <1>1 DEF Reconcile, Goto
  <2>2. Way(live', todo', live)
    BY <1>0, <2>1, WayNil
  <2>3. Jobs = "one" =>
          live.session \in {NoSession, [attempt |-> live.attempt, actions |-> live.actions,
                                        levels |-> live.levels]}
    BY <1>0 DEF Alone, Coherent
  <2> QED
    BY <1>0, <2>1, <2>2, <2>3 DEF Place
<1>2. CASE ~(Trace.exists /\ Trace.actions < live.actions)
  <2>1. Way(live, Reconciled, g)
    BY <1>0, WayReconciled
  <2>2. /\ g.attempt = live.attempt /\ g.banked = live.banked
        /\ g.episodes = live.episodes
        /\ g.actions = Trace.actions /\ g.levels = Trace.levels
        /\ g.session = IF \/ Trace.actions > live.actions
                          \/ Trace.levels # live.levels \/ ~Trace.exists
                       THEN NoSession ELSE live.session
    BY <1>0 DEF States
  <2>3. g \in States
    BY <2>1 DEF Way
  <2> HIDE DEF g
  <2>4. Jobs = "one" =>
          g.session \in {NoSession, [attempt |-> g.attempt, actions |-> g.actions,
                                     levels |-> g.levels]}
    <3>1. live.actions \in Nat /\ Trace.actions \in Nat /\ live.levels \in Nat
          /\ Trace.levels \in Nat
      BY <1>0, Counted DEF Traces
    <3> QED
      BY <1>0, <1>2, <2>2, <3>1 DEF Alone, Coherent
  <2>5. CASE \A s \in ToSet(Reconciled) : live[s.attribute] = s.value
    <3>1. at' = place /\ todo' = <<>> /\ live' = live
      BY <1>2, <2>5 DEF Reconcile, Goto
    <3>2. live.actions = Trace.actions /\ live.levels = Trace.levels
      <4> DEFINE s0 == IF Trace.actions > live.actions \/ Trace.levels # live.levels
                          \/ ~Trace.exists
                       THEN Set("session", NoSession) ELSE <<>>
                 a == [attribute |-> "actions", value |-> Trace.actions]
                 l == [attribute |-> "levels", value |-> Trace.levels]
      <4>1. s0 \in Seq(Entries)
        <5>1. NoSession \in Sessions \cup Int \cup BOOLEAN /\ "session" \in Keys
          BY DEF Sessions, Keys
        <5>2. Set("session", NoSession) \in Seq(Entries)
          BY <1>0, <5>1, LeadsOne
        <5>3. <<>> \in Seq(Entries)
          OBVIOUS
        <5> QED
          BY <5>2, <5>3
      <4>2. a \in Entries /\ l \in Entries
        BY <1>0 DEF Entries, Keys, Traces
      <4>3. Reconciled = s0 \o <<a>> \o <<l>>
        BY DEF Reconciled, Set
      <4> HIDE DEF s0, a, l
      <4>4. /\ Len(Reconciled) = Len(s0) + 2 /\ Len(s0) \in Nat
            /\ Reconciled[Len(s0) + 1] = a /\ Reconciled[Len(s0) + 2] = l
            /\ Reconciled \in Seq(Entries)
        BY <4>1, <4>2, <4>3
      <4>5. a \in ToSet(Reconciled) /\ l \in ToSet(Reconciled)
        BY <4>4 DEF ToSet
      <4>6. live[a.attribute] = a.value /\ live[l.attribute] = l.value
        BY <2>5, <4>5
      <4> QED
        BY <4>6 DEF a, l
    <3>3. Way(live', todo', live)
      BY <1>0, <3>1, WayNil
    <3>4. Jobs = "one" =>
            live.session \in {NoSession, [attempt |-> live.attempt,
                                          actions |-> live.actions, levels |-> live.levels]}
      BY <1>0 DEF Alone, Coherent
    <3> QED
      BY <1>0, <3>1, <3>2, <3>3, <3>4 DEF Place
  <2>6. CASE ~(\A s \in ToSet(Reconciled) : live[s.attribute] = s.value)
    <3>1. at' = "saving" /\ after' = place /\ todo' = Reconciled /\ live' = live
      BY <1>2, <2>6 DEF Reconcile, AssignAndSave
    <3>2. Way(live', todo', g) /\ Place' = place
      BY <2>1, <3>1 DEF Place
    <3> QED
      BY <2>2, <2>3, <2>4, <3>1, <3>2
  <2> QED
    BY <2>5, <2>6
<1> QED
  BY <1>1, <1>2

\* What an episode's worker does without touching the disk or the lock: it goes to
\* another place, possibly with assignments to make.
Quiet == UNCHANGED <<live, lock, trace, bank, anchored, saved, peerVars>>

LEMMA QuietKeeps ==
    ASSUME CampaignAssumption, CampaignInv, [Next]_vars, Quiet
    PROVE  /\ \A a \in 1..Attempts : Kept(a) => Kept(a)'
           /\ \A s \in States : Coherent(s) => Coherent(s)'
           /\ Coherent(saved) => Coherent(saved)'
<1>1. UNCHANGED <<trace, saved>>
  BY DEF Quiet
<1>2. \A s \in States : Coherent(s) => Coherent(s)'
  BY KeptOn
<1>3. Coherent(saved) => Coherent(saved)'
  BY <1>1 DEF Coherent
<1> QED
  BY <1>1, <1>2, <1>3, KeptOn

LEMMA LoopUnderway ==
    ASSUME CampaignAssumption, CampaignInv, [Next]_vars, Loop
    PROVE  Underway'
<1>0. /\ todo = <<>> /\ at = "loop" /\ Place = "loop" /\ Quiet /\ left' = left
  BY DEF Loop, Ready, Place, Quiet, diskVars
<1>f. PICK f \in States : f = live /\ Heading(f) /\ (Jobs = "one" => Alone(f))
  BY <1>0, RestingAt
<1>1. /\ live \in States /\ Heading(f) /\ (Jobs = "one" => Alone(f)) /\ f = live
      /\ live.attempt \in Nat \ {0} /\ Attempts \in Nat
  BY <1>0, <1>f, Counted DEF CampaignInv, Kinds, CampaignAssumption
<1>2. CASE live.attempt > Attempts \/ live.banked \/ stopped
  <2>1. at' = "done" /\ todo' = <<>> /\ live' = live
    BY <1>0, <1>2 DEF Loop, Goto
  <2>2. Way(live', todo', f)
    BY <1>1, <2>1, WayNil
  <2>3. Heading(f)'
    BY <1>0, <1>1, <2>1, QuietKeeps DEF Heading, Place, Quiet
  <2>4. Jobs = "one" => Alone(f)'
    BY <1>0, <1>1, <2>1, QuietKeeps DEF Alone, Place, Quiet, peerVars
  <2> QED
    BY <1>1, <2>2, <2>3, <2>4 DEF Underway
<1>3. CASE ~(live.attempt > Attempts \/ live.banked \/ stopped)
  <2>1. Reconcile("entering") /\ live.attempt \in 1..Attempts
    BY <1>1, <1>3 DEF Loop
  <2>2. PICK g \in States :
              /\ Way(live', todo', g)
              /\ g.attempt = live.attempt /\ g.banked = live.banked
              /\ g.episodes = live.episodes
              /\ Jobs = "one" =>
                    g.session \in {NoSession, [attempt |-> g.attempt, actions |-> g.actions,
                                               levels |-> g.levels]}
              /\ Place' \in {"entering", "done"} /\ at' # "anchoring"
    BY <1>0, <2>1, ReconcileStep DEF Quiet
  <2>3. Heading(g)'
    BY <1>0, <1>1, <2>1, <2>2, QuietKeeps DEF Heading, Quiet
  <2>4. Jobs = "one" => Coherent(g)
    BY <1>1, <2>2 DEF Alone, Coherent
  <2>5. Jobs = "one" => Alone(g)'
    BY <1>0, <1>1, <2>2, <2>4, QuietKeeps DEF Alone, Quiet, peerVars
  <2> QED
    BY <2>2, <2>3, <2>5 DEF Underway
<1> QED
  BY <1>2, <1>3

LEMMA EpisodeUnderway ==
    ASSUME CampaignAssumption, CampaignInv, [Next]_vars, Episode
    PROVE  Underway'
<1>0. /\ todo = <<>> /\ at = "episodes" /\ Place = "episodes" /\ Quiet /\ left' = left
  BY DEF Episode, Ready, Place, Quiet, diskVars
<1>f. PICK f \in States : f = live /\ Heading(f) /\ (Jobs = "one" => Alone(f))
  BY <1>0, RestingAt
<1>1. /\ live \in States /\ Heading(f) /\ (Jobs = "one" => Alone(f)) /\ f = live
      /\ live.attempt \in 1..Attempts /\ Trace \in Traces /\ left \in Nat
  BY <1>0, <1>f, InAttempt DEF CampaignInv, Kinds, CampaignAssumption
<1>2. CASE left <= 0 \/ stopped
  <2>1. at' \in {"advancing", "done"} /\ todo' = <<>> /\ live' = live
        /\ (at' = "advancing" => left <= 0)
    BY <1>0, <1>2 DEF Episode, Goto
  <2>2. Way(live', todo', f)
    BY <1>1, <2>1, WayNil
  <2>3. Kept(live.attempt)
    BY <1>0, <1>1 DEF Kept, Heading
  <2>4. Heading(f)'
    BY <1>0, <1>1, <2>1, <2>3, QuietKeeps DEF Heading, Place, Quiet
  <2>5. Jobs = "one" => Alone(f)'
    BY <1>0, <1>1, <2>1, QuietKeeps DEF Alone, Place, Quiet, peerVars
  <2> QED
    BY <1>1, <2>2, <2>4, <2>5 DEF Underway
<1>3. CASE ~(left <= 0 \/ stopped)
  <2>1. Reconcile("prompting") /\ left > 0
    BY <1>1, <1>3 DEF Episode
  <2>2. PICK g \in States :
              /\ Way(live', todo', g)
              /\ g.attempt = live.attempt /\ g.banked = live.banked
              /\ g.episodes = live.episodes
              /\ Jobs = "one" =>
                    g.session \in {NoSession, [attempt |-> g.attempt, actions |-> g.actions,
                                               levels |-> g.levels]}
              /\ Place' \in {"prompting", "done"} /\ at' # "anchoring"
              /\ Place' = "prompting" => g.actions = Trace.actions /\ g.levels = Trace.levels
    BY <1>0, <1>1, <2>1, ReconcileStep DEF Quiet
  <2>3. Heading(g)'
    BY <1>0, <1>1, <2>1, <2>2, QuietKeeps DEF Heading, Quiet
  <2>4. Jobs = "one" => Coherent(g)
    BY <1>1, <2>2 DEF Alone, Coherent
  <2>5. Jobs = "one" => Alone(g)'
    BY <1>0, <1>1, <2>1, <2>2, <2>4, QuietKeeps DEF Alone, Quiet, peerVars, Trace
  <2> QED
    BY <2>2, <2>3, <2>5 DEF Underway
<1> QED
  BY <1>2, <1>3

LEMMA StartWorkerUnderway ==
    ASSUME CampaignAssumption, CampaignInv, [Next]_vars, StartWorker
    PROVE  Underway'
<1>0. /\ todo = <<>> /\ at = "queued" /\ Place = "queued" /\ Quiet
      /\ left' = left /\ todo' = <<>> /\ at' = "loop"
  BY DEF CampaignInv, Locking, StartWorker, Ready, Place, Quiet, diskVars, peerVars, Goto
<1>1. PICK f \in States : f = live /\ Heading(f) /\ (Jobs = "one" => Alone(f))
  BY <1>0, RestingAt
<1>2. Way(live', todo', f)
  BY <1>0, <1>1, WayNil DEF Quiet
<1>3. Heading(f)'
  BY <1>0, <1>1, QuietKeeps DEF Heading, Place, Quiet
<1>4. Jobs = "one" => Alone(f)'
  BY <1>0, <1>1, QuietKeeps DEF Alone, Place, Quiet, peerVars, StartWorker
<1> QED
  BY <1>1, <1>2, <1>3, <1>4 DEF Underway

LEMMA TurnAbortsUnderway ==
    ASSUME CampaignAssumption, CampaignInv, [Next]_vars, TurnAborts
    PROVE  Underway'
<1>0. /\ todo = <<>> /\ at = "playing" /\ Place = "playing" /\ Quiet
      /\ left' = left /\ todo' = <<>> /\ at' = "done"
  BY DEF CampaignInv, Locking, TurnAborts, Ready, Place, Quiet, diskVars, peerVars, Goto
<1>1. PICK f \in States : f = live /\ Heading(f) /\ (Jobs = "one" => Alone(f))
  BY <1>0, RestingAt
<1>2. Way(live', todo', f)
  BY <1>0, <1>1, WayNil DEF Quiet
<1>3. Heading(f)'
  BY <1>0, <1>1, QuietKeeps DEF Heading, Place, Quiet
<1>4. Jobs = "one" => Alone(f)'
  BY <1>0, <1>1, QuietKeeps DEF Alone, Place, Quiet, peerVars
<1> QED
  BY <1>1, <1>2, <1>3, <1>4 DEF Underway

LEMMA ObserveUnderway ==
    ASSUME CampaignAssumption, CampaignInv, [Next]_vars, Observe
    PROVE  Underway'
<1>0. /\ todo = <<>> /\ at = "observing" /\ Place = "observing" /\ Quiet
      /\ left' = left /\ todo' = <<>> /\ (at' = "done" \/ (at' = "saving" /\ after' = "judging"))
  BY DEF CampaignInv, Locking, Observe, Ready, Place, Quiet, diskVars, peerVars, Goto, AssignAndSave
<1>1. PICK f \in States : f = live /\ Heading(f) /\ (Jobs = "one" => Alone(f))
  BY <1>0, RestingAt
<1>2. Way(live', todo', f)
  BY <1>0, <1>1, WayNil DEF Quiet
<1>3. Heading(f)'
  BY <1>0, <1>1, QuietKeeps DEF Heading, Place, Quiet
<1>4. Jobs = "one" => Alone(f)'
  BY <1>0, <1>1, QuietKeeps DEF Alone, Place, Quiet, peerVars
<1> QED
  BY <1>1, <1>2, <1>3, <1>4 DEF Underway

LEMMA ContinueAfterTurnUnderway ==
    ASSUME CampaignAssumption, CampaignInv, [Next]_vars, ContinueAfterTurn
    PROVE  Underway'
<1>0. /\ todo = <<>> /\ at = "judging" /\ Place = "judging" /\ Quiet
      /\ left' = left /\ todo' = <<>> /\ at' \in {"advancing", "episodes"}
      /\ ~(Trace.rank > 0)
  BY DEF CampaignInv, Locking, ContinueAfterTurn, Ready, Place, Quiet, diskVars, peerVars, Goto,
         WinFound
<1>1. PICK f \in States : f = live /\ Heading(f) /\ (Jobs = "one" => Alone(f))
  BY <1>0, RestingAt
<1>2. Way(live', todo', f)
  BY <1>0, <1>1, WayNil DEF Quiet
<1>e. trace[f.attempt].rank = 0 /\ Kept(f.attempt) /\ f.attempt \in 1..Attempts
  BY <1>0, <1>1, InAttempt DEF Trace, Traces, Kept
<1>3. Heading(f)'
  BY <1>0, <1>1, <1>e, QuietKeeps DEF Heading, Place, Quiet
<1>4. Jobs = "one" => Alone(f)'
  BY <1>0, <1>1, <1>e, QuietKeeps DEF Alone, Place, Quiet, peerVars
<1> QED
  BY <1>1, <1>2, <1>3, <1>4 DEF Underway

LEMMA ContinueAfterErrorUnderway ==
    ASSUME CampaignAssumption, CampaignInv, [Next]_vars, ContinueAfterError
    PROVE  Underway'
<1>0. /\ todo = <<>> /\ at = "recovering" /\ Place = "recovering" /\ Quiet
      /\ left' = left /\ todo' = <<>> /\ at' = "saving" /\ after' \in {"advancing", "episodes"}
      /\ ~(Trace.rank > 0)
  BY DEF CampaignInv, Locking, ContinueAfterError, Ready, Place, Quiet, diskVars, peerVars, Goto,
         WinFound, AssignAndSave
<1>1. PICK f \in States : f = live /\ Heading(f) /\ (Jobs = "one" => Alone(f))
  BY <1>0, RestingAt
<1>2. Way(live', todo', f)
  BY <1>0, <1>1, WayNil DEF Quiet
<1>e. trace[f.attempt].rank = 0 /\ Kept(f.attempt) /\ f.attempt \in 1..Attempts
  BY <1>0, <1>1, InAttempt DEF Trace, Traces, Kept
<1>3. Heading(f)'
  BY <1>0, <1>1, <1>e, QuietKeeps DEF Heading, Place, Quiet
<1>4. Jobs = "one" => Alone(f)'
  BY <1>0, <1>1, <1>e, QuietKeeps DEF Alone, Place, Quiet, peerVars
<1> QED
  BY <1>1, <1>2, <1>3, <1>4 DEF Underway

LEMMA EnterUnderway ==
    ASSUME CampaignAssumption, CampaignInv, [Next]_vars, Enter
    PROVE  Underway'
<1>0. /\ todo = <<>> /\ at = "entering" /\ Place = "entering" /\ Quiet
      /\ left' = Episodes - live.episodes /\ todo' = <<>> /\ at' = "episodes"
      /\ ~(Trace.rank > 0)
  BY DEF CampaignInv, Locking, Enter, Ready, Place, Quiet, diskVars, peerVars, Goto, WinFound
<1>1. PICK f \in States : f = live /\ Heading(f) /\ (Jobs = "one" => Alone(f))
  BY <1>0, RestingAt
<1>2. Way(live', todo', f)
  BY <1>0, <1>1, WayNil DEF Quiet
<1>e. /\ trace[f.attempt].rank = 0 /\ f.attempt \in 1..Attempts
      /\ f.episodes \in Nat /\ Episodes \in Nat \ {0}
      /\ f.episodes + left' = Episodes
      /\ Jobs = "one" => left' > 0 \/ trace[f.attempt].prompted
  <2>1. f.episodes \in Nat /\ Episodes \in Nat \ {0}
    BY Counted DEF CampaignAssumption
  <2>2. trace[f.attempt].rank = 0 /\ f.attempt \in 1..Attempts
    BY <1>0, <1>1, InAttempt DEF Trace, Traces
  <2>3. Attempts \in Nat
    BY DEF CampaignAssumption
  <2> QED
    BY <1>0, <1>1, <2>1, <2>2, <2>3 DEF Alone, Coherent
<1>3. Heading(f)'
  BY <1>0, <1>1, <1>e, QuietKeeps DEF Heading, Place, Quiet
<1>4. Jobs = "one" => Alone(f)'
  BY <1>0, <1>1, <1>e, QuietKeeps DEF Alone, Place, Quiet, peerVars
<1> QED
  BY <1>1, <1>2, <1>3, <1>4 DEF Underway

\* A win was found, wherever the worker had come to look.
LEMMA BankWinUnderway ==
    ASSUME CampaignAssumption, CampaignInv, [Next]_vars, BankWin
    PROVE  Underway'
<1>0. /\ todo = <<>> /\ at \in {"entering", "judging", "recovering"} /\ Place = at /\ Quiet
      /\ todo' = <<>> /\ at' = "banking" /\ Trace.rank > 0
  BY DEF BankWin, Place, Quiet, diskVars, peerVars, Goto, WinFound
<1>1. PICK f \in States : f = live /\ Heading(f) /\ (Jobs = "one" => Alone(f))
  BY <1>0, RestingAt
<1>2. Way(live', todo', f)
  BY <1>0, <1>1, WayNil DEF Quiet
<1>3. trace[f.attempt].rank > 0 /\ trace[f.attempt].prompted
  BY <1>0, <1>1, InAttempt DEF CampaignInv, TraceKinds, Trace
<1>4. Heading(f)'
  BY <1>0, <1>1, <1>3, QuietKeeps DEF Heading, Place, Quiet
<1>5. Jobs = "one" => Alone(f)'
  BY <1>0, <1>1, <1>3, QuietKeeps DEF Alone, Place, Quiet, peerVars
<1> QED
  BY <1>1, <1>2, <1>4, <1>5 DEF Underway

\* The turn has ended, one way or another.
LEMMA TurnCompletesUnderway ==
    ASSUME CampaignAssumption, CampaignInv, [Next]_vars, TurnCompletes
    PROVE  Underway'
<1>0. /\ todo = <<>> /\ at = "playing" /\ Place = "playing" /\ Quiet
      /\ left' = left /\ todo' = Completed /\ at' = "observing"
  BY DEF TurnCompletes, Ready, Place, Quiet, diskVars, peerVars, Completed
<1>1. PICK f \in States : f = live /\ Heading(f) /\ (Jobs = "one" => Alone(f))
  BY <1>0, RestingAt
<1>2. /\ live \in States /\ Trace \in Traces /\ f.attempt \in 1..Attempts
      /\ f.episodes \in Nat /\ Episodes \in Nat /\ left \in Nat
      /\ f.episodes + left < Episodes /\ trace[f.attempt].prompted
  BY <1>0, <1>1, InAttempt, Counted
     DEF CampaignInv, Kinds, CampaignAssumption, Heading
<1>3. PICK g \in States :
              /\ Way(live, Completed, g)
              /\ g.attempt = live.attempt /\ g.banked = live.banked
              /\ g.episodes = live.episodes + 1
              /\ g.session \in {NoSession, Position}
              /\ g.actions = Trace.actions /\ g.levels = Trace.levels
  <2>1. live.episodes < Episodes
    BY <1>1, <1>2
  <2> QED
    BY <1>2, <2>1, WayCompleted
<1>4. Way(live', todo', g)
  BY <1>0, <1>3 DEF Quiet
<1>5. g.attempt = f.attempt /\ g.banked = f.banked /\ g.episodes + left <= Episodes
  BY <1>1, <1>2, <1>3
<1>6. Heading(g)'
  BY <1>0, <1>1, <1>2, <1>5, QuietKeeps DEF Heading, Place, Quiet
<1>7. Jobs = "one" => Coherent(g)
  BY <1>1, <1>2, <1>3, <1>5 DEF Alone, Coherent, Position
<1>8. Jobs = "one" => Alone(g)'
  BY <1>0, <1>1, <1>2, <1>5, <1>7, QuietKeeps DEF Alone, Place, Quiet, peerVars
<1> QED
  BY <1>4, <1>6, <1>8 DEF Underway

LEMMA TurnIsAmbiguousUnderway ==
    ASSUME CampaignAssumption, CampaignInv, [Next]_vars, TurnIsAmbiguous
    PROVE  Underway'
<1>0. /\ todo = <<>> /\ at = "playing" /\ Place = "playing" /\ Quiet
      /\ left' = left /\ todo' = Set("session", NoSession) \o Reconciled
      /\ at' = "saving" /\ after' = "done"
  BY DEF TurnIsAmbiguous, AssignAndSave, Ready, Place, Quiet, diskVars, peerVars
<1>1. PICK f \in States : f = live /\ Heading(f) /\ (Jobs = "one" => Alone(f))
  BY <1>0, RestingAt
<1>2. live \in States /\ Trace \in Traces /\ f.attempt \in 1..Attempts
  BY <1>0, <1>1, InAttempt DEF CampaignInv, Kinds
<1>3. PICK g \in States :
              /\ Way(live, Set("session", NoSession) \o Reconciled, g)
              /\ g = [live EXCEPT !.session = NoSession, !.actions = Trace.actions,
                                  !.levels = Trace.levels]
  BY <1>2, WayGivenUp DEF Way
<1>4. Way(live', todo', g)
  BY <1>0, <1>3 DEF Quiet
<1>5. g.attempt = f.attempt /\ g.banked = f.banked /\ g.episodes = f.episodes
      /\ g.session = NoSession
  BY <1>1, <1>2, <1>3 DEF States
<1>6. Heading(g)'
  BY <1>0, <1>1, <1>2, <1>5, QuietKeeps DEF Heading, Place, Quiet
<1>7. Jobs = "one" => Coherent(g)
  BY <1>1, <1>5 DEF Alone, Coherent
<1>8. Jobs = "one" => Alone(g)'
  BY <1>0, <1>1, <1>5, <1>7, QuietKeeps DEF Alone, Place, Quiet, peerVars
<1> QED
  BY <1>4, <1>6, <1>8 DEF Underway

LEMMA TurnFailsUnderway ==
    ASSUME CampaignAssumption, CampaignInv, [Next]_vars, TurnFails
    PROVE  Underway'
<1> DEFINE n == UpTo(ErrorLimit, live.errors + 1)
           s == Set("errors", n) \o Set("session", NoSession) \o Reconciled
<1>0. /\ todo = <<>> /\ at = "playing" /\ Place = "playing" /\ Quiet
      /\ left' = left /\ todo' = s /\ at' = "recovering"
  BY DEF TurnFails, Ready, Place, Quiet, diskVars, peerVars
<1>1. PICK f \in States : f = live /\ Heading(f) /\ (Jobs = "one" => Alone(f))
  BY <1>0, RestingAt
<1>2. /\ live \in States /\ Trace \in Traces /\ f.attempt \in 1..Attempts
      /\ f.episodes \in Nat /\ Episodes \in Nat /\ left \in Nat
      /\ f.episodes + left < Episodes /\ trace[f.attempt].prompted
  BY <1>0, <1>1, InAttempt, Counted
     DEF CampaignInv, Kinds, CampaignAssumption, Heading
<1>3. n \in 0..ErrorLimit
  BY <1>2 DEF UpTo, States, CampaignAssumption
<1> HIDE DEF n
<1>4. PICK g \in States :
              /\ Way(live, s, g)
              /\ g = [live EXCEPT !.errors = n, !.session = NoSession,
                                  !.actions = Trace.actions, !.levels = Trace.levels]
  BY <1>2, <1>3, WayFailed DEF Way
<1> HIDE DEF s
<1>5. Way(live', todo', g)
  BY <1>0, <1>4 DEF Quiet
<1>6. g.attempt = f.attempt /\ g.banked = f.banked /\ g.episodes = f.episodes
      /\ g.session = NoSession
  BY <1>1, <1>2, <1>4 DEF States
<1>7. Heading(g)'
  BY <1>0, <1>1, <1>2, <1>6, QuietKeeps DEF Heading, Place, Quiet
<1>8. Jobs = "one" => Coherent(g)
  BY <1>1, <1>6 DEF Alone, Coherent
<1>9. Jobs = "one" => Alone(g)'
  BY <1>0, <1>1, <1>2, <1>6, <1>8, QuietKeeps DEF Alone, Place, Quiet, peerVars
<1> QED
  BY <1>5, <1>7, <1>9 DEF Underway

\* The next attempt: all that the last one won is in the bank, and the model was
\* prompted in it.
LEMMA AdvanceUnderway ==
    ASSUME CampaignAssumption, CampaignInv, [Next]_vars, Advance
    PROVE  Underway'
<1>0. /\ todo = <<>> /\ at = "advancing" /\ Place = "advancing" /\ Quiet
      /\ left' = left /\ todo' = NextAttempt /\ at' = "saving" /\ after' = "loop"
  BY DEF Advance, AssignAndSave, Ready, Place, Quiet, diskVars, peerVars
<1>1. PICK f \in States : f = live /\ Heading(f) /\ (Jobs = "one" => Alone(f))
  BY <1>0, RestingAt
<1>2. live \in States /\ f.attempt \in 1..Attempts /\ Attempts \in Nat
  BY <1>0, <1>1, InAttempt DEF CampaignInv, Kinds, CampaignAssumption
<1>3. PICK g \in States :
              /\ Way(live, NextAttempt, g)
              /\ g = [live EXCEPT !.attempt = @ + 1, !.episodes = 0,
                                  !.session = NoSession, !.actions = 0, !.levels = 0,
                                  !.zero = 0, !.errors = 0]
  <2>1. live.attempt <= Attempts
    BY <1>1, <1>2
  <2> QED
    BY <1>2, <2>1, WayAdvanced DEF Way
<1>4. Way(live', todo', g)
  BY <1>0, <1>3 DEF Quiet
<1>5. g.attempt = f.attempt + 1 /\ g.banked = f.banked /\ g.episodes = 0
      /\ g.session = NoSession
  BY <1>1, <1>2, <1>3 DEF States
<1>6. \A a \in 1..Attempts : a < g.attempt => a < f.attempt \/ a = f.attempt
  BY <1>2, <1>5
<1>7. \A a \in 1..Attempts : a < g.attempt => Kept(a)
  BY <1>0, <1>1, <1>6 DEF Heading
<1>8. live'.attempt <= g.attempt
  BY <1>0, <1>1, <1>2, <1>5 DEF Quiet
<1>9. Heading(g)'
  BY <1>0, <1>1, <1>5, <1>7, <1>8, QuietKeeps DEF Heading, Place, Quiet
<1>10. Jobs = "one" => Coherent(g)
  BY <1>0, <1>1, <1>5, <1>6 DEF Alone, Coherent
<1>11. Jobs = "one" => Alone(g)'
  BY <1>0, <1>1, <1>10, QuietKeeps DEF Alone, Place, Quiet, peerVars
<1> QED
  BY <1>4, <1>9, <1>11 DEF Underway

\* The checkpoint stays coherent if it is not written.
LEMMA SavedOn ==
    ASSUME CampaignAssumption, CampaignInv, [Next]_vars, UNCHANGED saved, Coherent(saved)
    PROVE  Coherent(saved)'
<1>1. PICK s \in States : s = saved
  BY DEF CampaignInv, Kinds
<1>2. Coherent(s)'
  BY <1>1, KeptOn
<1> QED
  BY <1>1, <1>2 DEF Coherent

LEMMA PromptUnderway ==
    ASSUME CampaignAssumption, CampaignInv, [Next]_vars, Prompt
    PROVE  Underway'
<1>0. /\ todo = <<>> /\ at = "prompting" /\ Place = "prompting"
      /\ left' = left - 1 /\ todo' = <<>> /\ at' = "playing"
      /\ UNCHANGED <<live, lock, bank, anchored, saved, unread, draft>>
      /\ trace' = [trace EXCEPT ![live.attempt].prompted = TRUE]
  BY DEF Prompt, Ready, Place, Goto, peerVars
<1>1. PICK f \in States : f = live /\ Heading(f) /\ (Jobs = "one" => Alone(f))
  BY <1>0, RestingAt
<1>2. /\ live \in States /\ Trace \in Traces /\ f.attempt \in 1..Attempts
      /\ f.episodes \in Nat /\ Episodes \in Nat /\ left \in Nat
      /\ f.episodes + left <= Episodes
  BY <1>0, <1>1, InAttempt, Counted
     DEF CampaignInv, Kinds, CampaignAssumption, Heading
<1>3. Way(live', todo', f)
  BY <1>0, <1>1, <1>2, WayNil
<1>4. trace'[f.attempt].prompted /\ f.episodes + left' < Episodes
  BY <1>0, <1>1, <1>2 DEF CampaignInv, TraceKinds, Traces
<1>5. \A a \in 1..Attempts : a < f.attempt => trace'[a] = trace[a]
  BY <1>1, <1>2, TracesGrow
<1>6. Heading(f)'
  BY <1>0, <1>1, <1>4, <1>5, KeptOn DEF Heading, Place
<1>7. Jobs = "one" => Alone(f)'
  BY <1>0, <1>1, <1>4, KeptOn, SavedOn DEF Alone, Place
<1> QED
  BY <1>3, <1>6, <1>7 DEF Underway

\* The tool server writes to the trace while the worker waits for the turn to end.
LEMMA PlayUnderway ==
    ASSUME CampaignAssumption, CampaignInv, [Next]_vars,
           OpenTrace \/ \E levelUp \in 0..1, rank \in 1..Qualifying : Play(levelUp, rank)
    PROVE  Underway'
<1>0. /\ todo = <<>> /\ at = "playing" /\ Place = "playing"
      /\ UNCHANGED <<live, todo, at, after, left, lock, bank, anchored, saved, unread, draft>>
  BY DEF OpenTrace, Play, Ready, Place, workerVars, peerVars
<1>1. PICK f \in States : f = live /\ Heading(f) /\ (Jobs = "one" => Alone(f))
  BY <1>0, RestingAt
<1>2. live \in States /\ f.attempt \in 1..Attempts
  BY <1>0, <1>1, InAttempt DEF CampaignInv, Kinds
<1>3. Way(live', todo', f)
  BY <1>0, <1>1, <1>2, WayNil
<1>4. trace'[f.attempt].prompted
  BY <1>0, <1>1, <1>2, TracesGrow DEF Heading
<1>5. \A a \in 1..Attempts : a < f.attempt => trace'[a] = trace[a]
  BY <1>1, <1>2, TracesGrow
<1>6. Heading(f)'
  BY <1>0, <1>1, <1>4, <1>5, KeptOn DEF Heading, Place
<1>7. Jobs = "one" => Alone(f)'
  BY <1>0, <1>1, <1>4, KeptOn, SavedOn DEF Alone, Place
<1> QED
  BY <1>3, <1>6, <1>7 DEF Underway

LEMMA SaveUnderway ==
    ASSUME CampaignAssumption, CampaignInv, [Next]_vars, Save
    PROVE  Underway'
<1>0. /\ todo = <<>> /\ at = "saving" /\ Place = after /\ at' = after /\ saved' = live
      /\ lock' = "free"
      /\ UNCHANGED <<live, todo, left, trace, bank, anchored>>
  BY DEF Save, Ready, Place, Goto
<1>1. PICK f \in States : f = live /\ Heading(f) /\ (Jobs = "one" => Alone(f))
  BY <1>0, RestingAt
<1>2. Way(live', todo', f)
  BY <1>0, <1>1, WayNil
<1>3. after \in Targets /\ Place' = Place /\ at' # "anchoring"
  BY <1>0 DEF CampaignInv, Kinds, Targets, Place
<1>4. Heading(f)'
  <2>1. f.attempt <= Attempts => f.attempt \in 1..Attempts
    BY Counted DEF CampaignAssumption
  <2>2. \A a \in 1..Attempts : Kept(a) => Kept(a)'
    BY <1>0, KeptOn
  <2> QED
    BY <1>0, <1>1, <1>3, <2>1, <2>2 DEF Heading
<1>5. Jobs = "one" => Coherent(f)' /\ Coherent(saved)'
  BY <1>0, <1>1, KeptOn DEF Alone, Coherent
<1>6. Jobs = "one" => Alone(f)'
  BY <1>0, <1>1, <1>3, <1>5 DEF Alone
<1> QED
  BY <1>2, <1>4, <1>6 DEF Underway

LEMMA BankUnderway ==
    ASSUME CampaignAssumption, CampaignInv, [Next]_vars, Bank
    PROVE  Underway'
<1> DEFINE b == Trace.rank = Qualifying
           s == Set("banked", b) \o Set("actions", Trace.actions)
                \o Set("levels", Trace.levels) \o Set("session", NoSession)
<1>0. /\ todo = <<>> /\ at = "banking" /\ Place = "banking"
      /\ todo' = s /\ at' = "anchoring" /\ lock' = "worker"
      /\ bank' = (IF Better(WinOf(Trace), bank) THEN WinOf(Trace) ELSE bank)
      /\ UNCHANGED <<live, left, trace, anchored, saved>>
  BY DEF Bank, Ready, Place
<1>1. PICK f \in States : f = live /\ Heading(f) /\ (Jobs = "one" => Alone(f))
  BY <1>0, RestingAt
<1>2. live \in States /\ Trace \in Traces /\ f.attempt \in 1..Attempts
      /\ bank \in [rank : 0..Qualifying, actions : 0..MaxActions]
  BY <1>0, <1>1, InAttempt DEF CampaignInv, Kinds
<1>3. PICK g \in States :
              /\ Way(live, s, g)
              /\ g = [live EXCEPT !.banked = b, !.actions = Trace.actions,
                                  !.levels = Trace.levels, !.session = NoSession]
  <2>1. b \in BOOLEAN
    OBVIOUS
  <2> HIDE DEF b
  <2> QED
    BY <1>2, <2>1, WayBanked DEF Way
<1>4. b => bank'.rank = Qualifying
  BY <1>0, <1>2 DEF Better, WinOf, Traces
<1>5. Kept(f.attempt)'
  BY <1>0, <1>1, <1>2 DEF Kept, Better, WinOf, Traces, Trace
<1> HIDE DEF b, s
<1>6. Way(live', todo', g)
  BY <1>0, <1>3
<1>7. g.attempt = f.attempt /\ g.banked = b /\ g.episodes = f.episodes
      /\ g.session = NoSession
  BY <1>1, <1>2, <1>3 DEF States
<1>8. Heading(g)'
  <2>1. \A a \in 1..Attempts : a < f.attempt => Kept(a)'
    BY <1>0, <1>1, KeptOn DEF Heading
  <2>2. live'.attempt <= g.attempt /\ g.attempt <= Attempts
    BY <1>0, <1>1, <1>7 DEF Heading
  <2> QED
    BY <1>0, <1>4, <1>5, <1>7, <2>1, <2>2 DEF Heading, Place
<1>9. Jobs = "one" => Coherent(g) /\ trace[g.attempt].prompted
  BY <1>0, <1>1, <1>7 DEF Alone, Coherent
<1>10. Jobs = "one" => Alone(g)'
  BY <1>0, <1>1, <1>9, KeptOn, SavedOn DEF Alone, Place
<1> QED
  BY <1>6, <1>8, <1>10 DEF Underway

LEMMA AnchorUnderway ==
    ASSUME CampaignAssumption, CampaignInv, [Next]_vars, Anchor
    PROVE  Underway'
<1>0. /\ todo = <<>> /\ at = "anchoring" /\ Place = "anchoring"
      /\ todo' = <<>> /\ at' = "saving" /\ after' \in {"done", "advancing"}
      /\ anchored' = (anchored \/ live.banked)
      /\ UNCHANGED <<live, left, lock, trace, bank, saved, draft, unread>>
  BY DEF Anchor, Ready, Place, AssignAndSave, peerVars
<1>1. PICK f \in States : f = live /\ Heading(f) /\ (Jobs = "one" => Alone(f))
  BY <1>0, RestingAt
<1>2. live \in States /\ f.attempt \in 1..Attempts
  BY <1>0, <1>1, InAttempt DEF CampaignInv, Kinds
<1>3. Way(live', todo', f)
  BY <1>0, <1>1, <1>2, WayNil
<1>4. \A a \in 1..Attempts : Kept(a) => Kept(a)'
  BY <1>0, KeptOn
<1>5. Heading(f)'
  BY <1>0, <1>1, <1>2, <1>4 DEF Heading, Place
<1>6. Jobs = "one" => Alone(f)'
  BY <1>0, <1>1, KeptOn, SavedOn DEF Alone, Place
<1> QED
  BY <1>3, <1>5, <1>6 DEF Underway

LEMMA AssignUnderway ==
    ASSUME CampaignAssumption, CampaignInv, [Next]_vars, Assign
    PROVE  Underway'
<1>0. /\ todo # <<>>
      /\ UNCHANGED <<at, after, left, lock, trace, bank, anchored, saved, draft, unread>>
  BY DEF Assign, peerVars, diskVars
<1>1. PICK f \in States : Way(live, todo, f) /\ Heading(f) /\ (Jobs = "one" => Alone(f))
  BY DEF CampaignInv, Underway
<1>2. Way(live', todo', f) /\ live'.attempt \in {live.attempt, f.attempt}
  BY <1>1, AssignMoves DEF CampaignInv, Kinds
<1>3. at \notin {"queued", "done"}
  BY <1>0 DEF CampaignInv, Locking
<1>4. live'.attempt <= f.attempt
  BY <1>1, <1>2, Counted DEF Heading
<1>5. Heading(f)'
  BY <1>0, <1>1, <1>4 DEF Heading, Kept, Better, WinOf, Place
<1>6. Jobs = "one" => Alone(f)'
  BY <1>0, <1>1, <1>3, KeptOn, SavedOn DEF Alone, Place
<1> QED
  BY <1>2, <1>5, <1>6 DEF Underway

LEMMA FirstAndRest ==
    ASSUME NEW s \in Seq(Keys), s # <<>>
    PROVE  ToSet(s) \subseteq {Head(s)} \cup ToSet(Tail(s))
<1>1. SUFFICES ASSUME NEW i \in DOMAIN s
               PROVE  s[i] = Head(s) \/ s[i] \in ToSet(Tail(s))
  BY DEF ToSet
<1>2. /\ Len(s) \in Nat /\ DOMAIN s = 1..Len(s) /\ Head(s) = s[1]
      /\ DOMAIN Tail(s) = 1..(Len(s) - 1)
      /\ \A k \in 1..(Len(s) - 1) : Tail(s)[k] = s[k + 1]
  OBVIOUS
<1>3. CASE i = 1
  BY <1>2, <1>3
<1>4. CASE i # 1
  <2>1. i - 1 \in 1..(Len(s) - 1) /\ (i - 1) + 1 = i
    BY <1>2, <1>4
  <2>2. Tail(s)[i - 1] = s[i]
    BY <1>2, <2>1
  <2> QED
    BY <1>2, <2>1, <2>2 DEF ToSet
<1> QED
  BY <1>3, <1>4

\* The peers leave the worker alone.  With one job they save while it does not run, so
\* that what they copy is one state.
LEMMA PeerUnderway ==
    ASSUME CampaignAssumption, CampaignInv, [Next]_vars,
           PeerBeginsSave \/ PeerCopies \/ PeerWrites \/ PeerStops
    PROVE  Underway'
<1>0. UNCHANGED <<live, todo, at, after, left, trace, bank, anchored>>
  BY DEF PeerBeginsSave, PeerCopies, PeerWrites, PeerStops, workerVars, diskVars
<1>1. PICK f \in States : Way(live, todo, f) /\ Heading(f) /\ (Jobs = "one" => Alone(f))
  BY DEF CampaignInv, Underway
<1>2. Heading(f)'
  BY <1>0, <1>1 DEF Heading, Kept, Better, WinOf, Place
<1>3. ASSUME Jobs = "one"
      PROVE  Alone(f)'
  <2>1. Alone(f) /\ Coherent(f)'
    BY <1>1, <1>3, KeptOn DEF Alone
  <2>2. CASE PeerBeginsSave
    <3>1. ToSet(Attributes) = Keys
      BY DEF ToSet, Attributes, Keys
    <3>2. at \in {"queued", "done"} /\ unread' = Attributes /\ saved' = saved
      BY <1>3, <2>2 DEF PeerBeginsSave, diskVars
    <3> QED
      BY <1>0, <2>1, <3>1, <3>2, SavedOn DEF Alone, Place
  <2>3. CASE PeerCopies
    <3>1. /\ lock' = lock /\ lock = "peer" /\ saved' = saved
          /\ unread # <<>> /\ unread \in Seq(Keys) /\ unread' = Tail(unread)
          /\ draft' = [draft EXCEPT ![Head(unread)] = live[Head(unread)]]
      BY <2>3 DEF PeerCopies, diskVars, CampaignInv, Locking, Kinds
    <3>2. draft \in [Keys -> {draft[a] : a \in Keys}]
      BY DEF CampaignInv, Kinds, States, Keys
    <3>3. ToSet(unread) \subseteq {Head(unread)} \cup ToSet(Tail(unread))
      BY <3>1, FirstAndRest
    <3>4. \A a \in Keys : a \in ToSet(unread') \/ draft'[a] = live'[a]
      BY <1>0, <2>1, <3>1, <3>2, <3>3 DEF Alone
    <3> QED
      BY <1>0, <2>1, <3>1, <3>4, SavedOn DEF Alone, Place
  <2>4. CASE PeerWrites
    <3>1. /\ lock' = "free" /\ saved' = draft /\ lock = "peer" /\ unread = <<>>
      BY <2>4 DEF PeerWrites
    <3>2. \A a \in Keys : draft[a] = live[a]
      BY <2>1, <3>1 DEF Alone, ToSet
    <3>3. draft = [a \in Keys |-> draft[a]] /\ live = [a \in Keys |-> live[a]]
      BY DEF CampaignInv, Kinds, States, Keys
    <3>4. draft = live
      BY <3>2, <3>3
    <3>5. todo = <<>>
      BY <2>1, <3>1 DEF Alone, CampaignInv, Locking
    <3>6. f = live
      BY <1>1, <3>5, WayHome DEF CampaignInv, Kinds
    <3>7. Coherent(saved)'
      BY <1>0, <2>1, <3>1, <3>4, <3>6 DEF Coherent
    <3> QED
      BY <1>0, <2>1, <3>1, <3>7 DEF Alone, Place
  <2>5. CASE PeerStops
    BY <1>0, <2>1, <2>5, SavedOn DEF Alone, Place, PeerStops, peerVars, diskVars
  <2> QED
    BY <2>2, <2>3, <2>4, <2>5
<1>4. Way(live', todo', f)
  BY <1>0, <1>1
<1> QED
  BY <1>2, <1>3, <1>4 DEF Underway

\* A start, or an end: the worker's state is the one on disk.
LEMMA ResumeUnderway ==
    ASSUME CampaignAssumption, CampaignInv, [Next]_vars, Resume
    PROVE  Underway'
<1>0. /\ live' = [saved EXCEPT !.banked = @ /\ bank.rank = Qualifying]
      /\ saved' = live' /\ at' \in {"done", "queued"} /\ todo = <<>> /\ todo' = <<>>
      /\ lock' = "free" /\ UNCHANGED <<trace, bank, anchored>>
  BY DEF Resume, CampaignInv, Locking
<1>1. /\ live' \in States /\ saved \in States /\ live'.attempt = saved.attempt
      /\ (live'.banked => saved.banked)
      /\ live'.session = saved.session /\ live'.episodes = saved.episodes
      /\ live'.actions = saved.actions /\ live'.levels = saved.levels
  BY <1>0 DEF CampaignInv, Kinds, States
<1>2. PICK f \in States : f = live /\ Heading(f) /\ (Jobs = "one" => Alone(f))
  BY <1>0, RestingAt
<1>3. PICK g \in States : g = live'
  BY <1>1
<1>4. Way(live', todo', g)
  BY <1>0, <1>3, WayNil
<1>5. g.attempt <= f.attempt /\ g.attempt \in Nat /\ f.attempt \in Nat
      /\ (g.banked => bank.rank = Qualifying /\ anchored)
  BY <1>1, <1>2, <1>3, Counted DEF CampaignInv, Proven
<1>6. \A a \in 1..Attempts : a < g.attempt => Kept(a)'
  BY <1>0, <1>2, <1>5, KeptOn DEF Heading
<1>7. Heading(g)'
  BY <1>0, <1>3, <1>5, <1>6 DEF Heading, Place
<1>8. Jobs = "one" => Coherent(g)' /\ Coherent(saved)'
  <2>1. ASSUME Jobs = "one"
        PROVE  Coherent(g)
    BY <1>1, <1>2, <1>3, <2>1 DEF Alone, Coherent
  <2>2. Jobs = "one" => Coherent(g)'
    BY <2>1, KeptOn
  <2> QED
    BY <1>0, <1>3, <2>2 DEF Coherent
<1>9. Jobs = "one" => Alone(g)'
  BY <1>0, <1>8 DEF Alone, Place
<1> QED
  BY <1>4, <1>7, <1>9 DEF Underway

LEMMA GoneUnderway ==
    ASSUME CampaignAssumption, CampaignInv, [Next]_vars, Finish \/ Crash
    PROVE  Underway'
<1>0. /\ live' = saved' /\ at' = "done" /\ todo' = <<>> /\ lock' = "free"
      /\ saved' = saved \/ (saved' = live /\ todo = <<>>)
      /\ UNCHANGED <<trace, bank, anchored>>
  BY DEF Finish, Crash, Gone, Ready
<1>1. PICK f \in States : Way(live, todo, f) /\ Heading(f) /\ (Jobs = "one" => Alone(f))
  BY DEF CampaignInv, Underway
<1>2. PICK g \in States : g = saved'
  BY <1>0 DEF CampaignInv, Kinds
<1>3. todo = <<>> => f = live
  BY <1>1, WayHome DEF CampaignInv, Kinds
<1>4. Way(live', todo', g)
  BY <1>0, <1>2, WayNil
<1>5. g.attempt <= f.attempt /\ g.attempt \in Nat /\ f.attempt \in Nat
      /\ (g.banked => bank.rank = Qualifying /\ anchored)
  <2>1. live.attempt <= f.attempt /\ saved.attempt <= live.attempt
        /\ live.attempt \in Nat /\ saved.attempt \in Nat /\ f.attempt \in Nat
    BY <1>1, Counted DEF CampaignInv, Proven, Heading, Kinds
  <2>2. CASE saved' = saved
    BY <1>2, <2>1, <2>2 DEF CampaignInv, Proven
  <2>3. CASE saved' = live /\ todo = <<>> /\ saved' # saved
    <3>1. Finish
      BY <2>3 DEF Crash
    <3>2. at # "anchoring"
      BY <3>1 DEF Finish, Ready
    <3> QED
      BY <1>2, <2>1, <2>3, <3>2 DEF CampaignInv, Proven
  <2> QED
    BY <1>0, <2>2, <2>3
<1>6. \A a \in 1..Attempts : a < g.attempt => Kept(a)'
  BY <1>0, <1>1, <1>5, KeptOn DEF Heading
<1>7. Heading(g)'
  BY <1>0, <1>2, <1>5, <1>6 DEF Heading, Place
<1>8. Jobs = "one" => Coherent(g)' /\ Coherent(saved)'
  <2>1. Jobs = "one" => Coherent(g)
    BY <1>0, <1>1, <1>2, <1>3 DEF Alone
  <2>2. Jobs = "one" => Coherent(g)'
    BY <2>1, KeptOn
  <2> QED
    BY <1>2, <2>2 DEF Coherent
<1>9. Jobs = "one" => Alone(g)'
  BY <1>0, <1>8 DEF Alone, Place
<1> QED
  BY <1>4, <1>7, <1>9 DEF Underway

LEMMA UnderwayStep ==
    ASSUME CampaignAssumption, CampaignInv, [Next]_vars
    PROVE  Underway'
<1>1. CASE UNCHANGED vars
  <2>1. UNCHANGED <<live, todo, at, after, left, lock, draft, unread, trace, bank,
                    anchored, saved>>
    BY <1>1 DEF vars, workerVars, peerVars, diskVars
  <2>2. Underway
    BY DEF CampaignInv
  <2> QED
    BY <2>1, <2>2
       DEF Underway, Heading, Alone, Coherent, Kept, Better, WinOf, Place
<1> QED
  BY <1>1, AssignUnderway, LoopUnderway, EpisodeUnderway, PromptUnderway,
     TurnCompletesUnderway, TurnAbortsUnderway, TurnIsAmbiguousUnderway,
     TurnFailsUnderway, ObserveUnderway, BankWinUnderway, EnterUnderway,
     ContinueAfterTurnUnderway, ContinueAfterErrorUnderway, AnchorUnderway,
     AdvanceUnderway, SaveUnderway, BankUnderway, StartWorkerUnderway, PlayUnderway,
     PeerUnderway, ResumeUnderway, GoneUnderway
     DEF Next, Work, Wait

LEMMA CampaignInvStarts ==
    ASSUME CampaignAssumption, Init
    PROVE  CampaignInv
<1>1. Fresh \in States /\ Fresh.attempt = 1 /\ Fresh.episodes = 0
      /\ Fresh.session = NoSession /\ Fresh.banked = FALSE
  BY FreshIsAState DEF Fresh
<1>2. Kinds
  <2>1. 0 \in 0..Episodes /\ [rank |-> 0, actions |-> 0] \in
                                 [rank : 0..Qualifying, actions : 0..MaxActions]
    BY DEF CampaignAssumption
  <2>2. <<>> \in Seq(Keys)
    OBVIOUS
  <2> QED
    BY <1>1, <2>1, <2>2 DEF Init, Kinds, Places, Targets
<1>3. TraceKinds
  <2>1. NoTrace \in Traces /\ NoTrace.rank = 0 /\ NoTrace.levels < WinLevels
    BY DEF CampaignAssumption, NoTrace, Traces
  <2> QED
    BY <2>1 DEF Init, TraceKinds
<1>4. Locking /\ Proven
  BY <1>1 DEF Init, Locking, Proven
<1>5. Underway
  <2>1. PICK f \in States : f = Fresh
    BY <1>1
  <2>2. Way(live, todo, f)
    BY <2>1, WayNil DEF Init
  <2>3. Heading(f)
    BY <1>1, <2>1 DEF Init, Heading, Place
  <2>4. Alone(f)
    <3>1. \A a \in 1..Attempts : ~(a < 1)
      OBVIOUS
    <3> QED
      BY <1>1, <2>1, <3>1 DEF Init, Alone, Coherent, Place
  <2> QED
    BY <2>2, <2>3, <2>4 DEF Underway
<1> QED
  BY <1>2, <1>3, <1>4, <1>5 DEF CampaignInv

-----------------------------------------------------------------------------
\* The theorems.

\* The invariant of a game: whatever the worker is about to assign, the state it is on
\* its way to is one the campaign can go on from.
THEOREM CampaignInvariant == Spec => []CampaignInv
<1>1. Init => CampaignInv
  BY CampaignInvStarts, CampaignAssumption
<1>2. CampaignInv /\ [Next]_vars => CampaignInv'
  <2>1. ASSUME CampaignInv, [Next]_vars
        PROVE  CampaignInv'
    BY <2>1, CampaignAssumption, KindsStep, TracesGrow, LockingStep, ProvenStep,
       UnderwayStep DEF CampaignInv
  <2> QED
    BY <2>1
<1> QED
  BY <1>1, <1>2, PTL DEF Spec

\* The types of the run: counters within their limits, also in a state copied while the
\* worker changed it (_checkpoint under many jobs).
THEOREM CampaignTypes == Spec => []CampaignTypeOK
<1>1. CampaignInv => CampaignTypeOK
  <2>1. ASSUME CampaignInv
        PROVE  CampaignTypeOK
    BY <2>1 DEF CampaignInv, Kinds, Locking, CampaignTypeOK, States
  <2> QED
    BY <2>1
<1> QED
  BY <1>1, CampaignInvariant, PTL

\* A checkpoint that counts the game as complete has the qualifying win in the bank and
\* its event in the chain, for any number of jobs (_bank_if_complete holds the lock
\* from the bank to the checkpoint).
THEOREM CompletionIsProven == Spec => []QualifiedIsProven
<1>1. CampaignInv => QualifiedIsProven
  <2>1. ASSUME CampaignInv
        PROVE  QualifiedIsProven
    BY <2>1 DEF CampaignInv, Proven, QualifiedIsProven
  <2> QED
    BY <2>1
<1> QED
  BY <1>1, CampaignInvariant, PTL

\* No win of an attempt that was given up is missing from the bank, for any number of
\* jobs, though the run checks it for one.
THEOREM NoWinIsLeftBehind == Spec => []WinsAreBanked
<1>1. CampaignInv => WinsAreBanked
  <2>1. ASSUME CampaignInv
        PROVE  WinsAreBanked
    <3>1. PICK f \in States : Heading(f)
      BY <2>1 DEF CampaignInv, Underway
    <3>2. saved.attempt <= live.attempt /\ live.attempt <= f.attempt
          /\ saved.attempt \in Nat /\ live.attempt \in Nat /\ f.attempt \in Nat
      BY <2>1, <3>1, CampaignAssumption, Counted
         DEF CampaignInv, Proven, Heading, Kinds
    <3>3. \A a \in 1..Attempts : a < saved.attempt => a < f.attempt
      BY <3>2
    <3>4. DOMAIN trace = 1..Attempts
      BY <2>1 DEF CampaignInv, TraceKinds
    <3> QED
      BY <3>1, <3>3, <3>4 DEF Heading, Kept, WinsAreBanked
  <2> QED
    BY <2>1
<1> QED
  BY <1>1, CampaignInvariant, PTL

\* With one worker at a time a turn resumes only a session that has seen the whole trace.
\* With many the checkpoint can be torn, and the statement is false: a run shows how.
THEOREM SerialSessionsAreCurrent ==
    ASSUME Jobs = "one"
    PROVE  Spec => []SessionsAreCurrent
<1>1. CampaignInv => SessionsAreCurrent
  <2>1. ASSUME CampaignInv, Ready("prompting"), live.session # NoSession
        PROVE  live.session = Position
    <3>1. todo = <<>> /\ Place = "prompting"
      BY <2>1 DEF Ready, Place
    <3>2. Alone(live)
      BY <2>1, <3>1, AtRest
    <3> QED
      BY <2>1, <3>1, <3>2 DEF Alone, Coherent, Position, Trace
  <2> QED
    BY <2>1 DEF SessionsAreCurrent
<1> QED
  BY <1>1, CampaignInvariant, PTL

\* With one worker at a time no attempt is given up before the model was prompted in it.
THEOREM SerialAttemptsArePlayed ==
    ASSUME Jobs = "one"
    PROVE  Spec => []AttemptsArePlayed
<1>1. CampaignInv => AttemptsArePlayed
  <2>1. ASSUME CampaignInv
        PROVE  AttemptsArePlayed
    <3>1. Coherent(saved)
      BY <2>1 DEF CampaignInv, Underway, Alone
    <3>2. DOMAIN trace = 1..Attempts
      BY <2>1 DEF CampaignInv, TraceKinds
    <3> QED
      BY <3>1, <3>2 DEF Coherent, AttemptsArePlayed
  <2> QED
    BY <2>1
<1> QED
  BY <1>1, CampaignInvariant, PTL
=============================================================================
