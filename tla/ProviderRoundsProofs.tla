------------------------ MODULE ProviderRoundsProofs ------------------------
(***************************************************************************)
(* Proofs about the money path of a campaign, for every pool of workers,   *)
(* every lane, every number of rounds and every price list.                *)
(*                                                                         *)
(* First the ledger alone, as a module of its own: what its operations     *)
(* keep.  Then every step of the campaign is a step of the ledger, or      *)
(* leaves it alone, so that the campaign inherits it.  Then the inductive  *)
(* invariant says which worker owns which hold and what has happened to    *)
(* it, and the safety properties follow.                                   *)
(***************************************************************************)
EXTENDS ProviderRounds, FiniteSetTheorems, TLAPS

-----------------------------------------------------------------------------
\* The ledger alone.

\* The inductive invariant: Solvent needs the types (Active is finite), and a
\* settlement removes exactly one hold only while nothing is settled twice.
LedgerInv == LedgerTypeOK /\ SettledOnce /\ Solvent /\ SealedSettled

\* The open holds are finitely many, so Reserved is a natural number.
LEMMA ActiveFinite ==
  ASSUME LedgerTypeOK
  PROVE  IsFiniteSet(Active) /\ Cardinality(Active) \in Nat /\ Reserved \in Nat
<1>1. IsFiniteSet(Active)
  <2>1. Active \in SUBSET Reservations
    BY DEF Active, LedgerTypeOK
  <2> QED
    BY <2>1, FS_Subset, LedgerAssumption
<1>2. Cardinality(Active) \in Nat
  BY <1>1, FS_CardinalityType
<1>3. Reserved \in Nat
  BY <1>2, LedgerAssumption DEF Reserved
<1> QED
  BY <1>1, <1>2, <1>3

\* Opening a hold adds one Turn to the reserved money.
LEMMA HoldOpened ==
  ASSUME LedgerTypeOK, NEW r, r \notin Active, Active' = Active \cup {r}
  PROVE  Reserved' = Reserved + Turn
<1>1. Cardinality(Active') = Cardinality(Active) + 1
  BY ActiveFinite, FS_AddElement
<1> QED
  BY <1>1, ActiveFinite, LedgerAssumption DEF Reserved

\* Closing a hold, by a release or by a charge, takes one Turn away.
LEMMA HoldClosed ==
  ASSUME LedgerTypeOK, NEW r \in Active, Active' = Active \ {r}
  PROVE  Reserved' = Reserved - Turn
<1>1. Cardinality(Active') = Cardinality(Active) - 1
  BY ActiveFinite, FS_RemoveElement
<1> QED
  BY <1>1, ActiveFinite, LedgerAssumption DEF Reserved

\* What each operation does to the invariant.
LEMMA ReserveStep ==
  ASSUME LedgerInv, NEW r \in Reservations, Reserve(r)
  PROVE  LedgerInv'
<1> USE DEF LedgerInv, LedgerTypeOK
<1>1. r \notin Active /\ Active' = Active \cup {r}
  BY DEF Reserve, Active, SettledOnce
<1>2. Reserved' = Reserved + Turn
  BY <1>1, HoldOpened
<1>3. LedgerTypeOK'
  BY DEF Reserve
<1>4. SettledOnce'
  BY DEF Reserve, SettledOnce
<1>5. Solvent'
  BY <1>2, ActiveFinite, LedgerAssumption DEF Reserve, Admits, Solvent
<1>6. SealedSettled'
  BY DEF Reserve, SealedSettled
<1> QED
  BY <1>3, <1>4, <1>5, <1>6

LEMMA ReleaseStep ==
  ASSUME LedgerInv, NEW r \in Reservations, Release(r)
  PROVE  LedgerInv'
<1> USE DEF LedgerInv, LedgerTypeOK
<1>1. r \in Active /\ Active' = Active \ {r}
  BY DEF Release, Active
<1>2. Reserved' = Reserved - Turn
  BY <1>1, HoldClosed
<1>3. LedgerTypeOK'
  BY DEF Release, Active
<1>4. SettledOnce'
  BY DEF Release, Active, SettledOnce
<1>5. Solvent'
  BY <1>2, ActiveFinite, LedgerAssumption DEF Release, Solvent
<1>6. SealedSettled'
  BY DEF Release, SealedSettled
<1> QED
  BY <1>3, <1>4, <1>5, <1>6

LEMMA ReleaseAllActiveStep ==
  ASSUME LedgerInv, ReleaseAllActive
  PROVE  LedgerInv'
<1> USE DEF LedgerInv, LedgerTypeOK
<1>1. Active' = {}
  BY DEF ReleaseAllActive, Active
<1>2. Reserved' = 0
  BY <1>1, FS_EmptySet, LedgerAssumption DEF Reserved
<1>3. LedgerTypeOK'
  BY DEF ReleaseAllActive, Active
<1>4. SettledOnce'
  BY DEF ReleaseAllActive, Active, SettledOnce
<1>5. Solvent'
  BY <1>2, ActiveFinite DEF ReleaseAllActive, Solvent
<1>6. SealedSettled'
  BY <1>1 DEF SealedSettled
<1> QED
  BY <1>3, <1>4, <1>5, <1>6

LEMMA RecordUsageStep ==
  ASSUME LedgerInv, NEW r \in Reservations, NEW c \in Costs, RecordUsage(r, c)
  PROVE  LedgerInv'
<1> USE DEF LedgerInv, LedgerTypeOK
<1>1. r \in Active /\ Active' = Active \ {r}
  BY DEF RecordUsage, Active
<1>2. Reserved' = Reserved - Turn
  BY <1>1, HoldClosed
<1>3. c \in Nat
  BY LedgerAssumption
<1>4. Excess(c, Turn) \in Nat /\ c - Turn <= Excess(c, Turn)
  BY <1>3, LedgerAssumption DEF Excess
<1>5. LedgerTypeOK'
  BY <1>3, <1>4 DEF RecordUsage, Active
<1>6. SettledOnce'
  BY DEF RecordUsage, Active, SettledOnce
<1>7. Solvent'
  BY <1>2, <1>3, <1>4, ActiveFinite, LedgerAssumption DEF RecordUsage, Solvent
<1>8. SealedSettled'
  BY DEF RecordUsage, SealedSettled
<1> QED
  BY <1>5, <1>6, <1>7, <1>8

\* The three operations that open and close no hold.
LEMMA OtherStep ==
  ASSUME LedgerInv,
         \/ \E c \in Costs : RecordUnreserved(c)
         \/ \E n \in 1..CapLimit : ReviseCap(n)
         \/ SealRun
         \/ UNCHANGED ledgerVars
  PROVE  LedgerInv'
<1> USE DEF LedgerInv, LedgerTypeOK
<1>1. CASE \E c \in Costs : RecordUnreserved(c)
  <2>1. PICK c \in Costs : RecordUnreserved(c)
    BY <1>1
  <2>2. c \in Nat
    BY LedgerAssumption
  <2>3. Active' = Active /\ Reserved' = Reserved
    BY <2>1 DEF RecordUnreserved, Active, Reserved
  <2> QED
    BY <2>1, <2>2, <2>3, ActiveFinite
    DEF RecordUnreserved, SettledOnce, Solvent, SealedSettled
<1>2. CASE \E n \in 1..CapLimit : ReviseCap(n)
  <2>1. PICK n \in 1..CapLimit : ReviseCap(n)
    BY <1>2
  <2>2. n \in Nat \ {0}
    BY LedgerAssumption
  <2>3. Active' = Active /\ Reserved' = Reserved
    BY <2>1 DEF ReviseCap, Active, Reserved
  <2> QED
    BY <2>1, <2>2, <2>3, ActiveFinite
    DEF ReviseCap, SettledOnce, Solvent, SealedSettled
<1>3. CASE SealRun
  BY <1>3 DEF SealRun, Seal, Active, Reserved, SettledOnce, Solvent, SealedSettled
<1>4. CASE UNCHANGED ledgerVars
  BY <1>4 DEF ledgerVars, Active, Reserved, SettledOnce, Solvent, SealedSettled
<1> QED
  BY <1>1, <1>2, <1>3, <1>4

\* Every ledger step, whoever takes it, preserves the invariant.
LEMMA LedgerStep == LedgerInv /\ [LedgerNext]_ledgerVars => LedgerInv'
BY ReserveStep, ReleaseStep, ReleaseAllActiveStep, RecordUsageStep, OtherStep
DEF LedgerNext

LEMMA LedgerStart == LedgerInit => LedgerInv
<1> SUFFICES ASSUME LedgerInit PROVE LedgerInv
  OBVIOUS
<1>1. Active = {} /\ Reserved = 0
  BY FS_EmptySet, LedgerAssumption DEF LedgerInit, Active, Reserved
<1>2. LedgerTypeOK /\ SettledOnce
  BY LedgerAssumption DEF LedgerInit, LedgerTypeOK, SettledOnce
<1>3. Solvent
  BY <1>1, LedgerAssumption DEF LedgerInit, Solvent
<1>4. SealedSettled
  BY <1>1 DEF SealedSettled
<1> QED
  BY <1>2, <1>3, <1>4 DEF LedgerInv

LEMMA LedgerInductive == LedgerSpec => []LedgerInv
BY LedgerStart, LedgerStep, PTL DEF LedgerSpec

\* The ledger's files only ever hold well-formed books (BudgetLedger's reloads).
THEOREM LedgerTypes == LedgerSpec => []LedgerTypeOK
BY LedgerInductive, PTL DEF LedgerInv

\* record_usage and release can never both close one reservation.
THEOREM ReservationSettledOnce == LedgerSpec => []SettledOnce
BY LedgerInductive, PTL DEF LedgerInv

\* However many workers share the ledger, reserve() under the lock keeps charges
\* plus holds within the ceiling, except for what charges overran their holds.
THEOREM LedgerSolvent == LedgerSpec => []Solvent
BY LedgerInductive, PTL DEF LedgerInv

-----------------------------------------------------------------------------
\* The inductive invariant.

\* A request of this worker is in the making, on its way, or unaccounted for.
Requesting == {"held", "calling", "answered", "ambiguous"}

\* The workers whose current hold may still turn into a charge.
InFlight == {w \in Workers : at[w] \in {"held", "calling", "answered"}}

HoldsOf(w) == {initial[w], current[w]} \ {NoReservation}

\* What is known of the holds of one worker from the place it is at.
TurnTold(w) ==
    /\ w \notin crew => at[w] = "over"
    /\ HoldsOf(w) \subseteq issued
    /\ at[w] \in {"idle", "redirect", "admitted", "over"} => HoldsOf(w) = {}
    /\ at[w] \in Requesting =>
          /\ current[w] \in Active
          /\ initial[w] = current[w] \/ initial[w] \in consumed
    /\ at[w] = "held" => current[w] \notin sent
    /\ at[w] \in {"settled", "followup"} =>
          /\ round[w] < MaxRounds
          /\ current[w] = NoReservation
          /\ initial[w] \in consumed
    /\ at[w] \in {"raising", "unwinding"} /\ lane # "codex" =>
          /\ current[w] \notin sent
          /\ initial[w] \in consumed \/ initial[w] \notin sent

HoldsApart ==
    \A v, w \in Workers : v # w => HoldsOf(v) \cap HoldsOf(w) = {}

\* Where the host makes the requests itself, it never gives back a hold on which
\* one has left.
SentIsKept == lane # "codex" => sent \cap released = {}

\* What is known besides when no peer competes for the ceiling.
AloneTold(w) ==
    /\ ambiguous => stopped /\ at[w] \in {"idle", "over"}
    /\ lane # "codex" =>
          /\ at[w] = "held" => CanStart(0)
          /\ at[w] = "raising" /\ lane = "openai" => current[w] = NoReservation
          /\ at[w] = "unwinding" => current[w] \notin Active

\* Even if every request in flight came to cost the maximum.
WorstCase ==
    spent + MaxCost * Cardinality(InFlight)
        <= cap + (MaxCost - Turn) * Cardinality(crew)

\* The run lease: the campaign and create_warm never work on the run at one time, so
\* what create_warm has seen of the ledger is still so when it seals it.
WarmTold ==
    /\ ~up => queue = 0 /\ \A w \in Workers : at[w] = "over"
    /\ warm # "none" => ~up
    /\ warm = "checked" => Active = {}

HoldsTold == (\A w \in Workers : TurnTold(w)) /\ HoldsApart
AloneIsTold == Serial => \A w \in Workers : AloneTold(w)

RoundsInv ==
    /\ LedgerInv
    /\ RoundsTypeOK
    /\ HoldsTold
    /\ WarmTold
    /\ SentIsKept
    /\ AloneIsTold
    /\ OrphanHoldsAreMarked
    /\ WorstCase

-----------------------------------------------------------------------------
\* Every step is a ledger step.

\* uuid4 draws an id the ledger has not seen.
LEMMA FreshIsNew ==
  ASSUME issued # Reservations, LedgerTypeOK
  PROVE  Fresh \in Reservations /\ Fresh \notin issued
<1>1. \E r \in Reservations : r \notin issued
  BY DEF LedgerTypeOK
<1> QED
  BY <1>1 DEF Fresh

\* What one step of a worker may do to the ledger: nothing, or one operation on a
\* hold of its own.
OwnLedgerStep(w) ==
    \/ UNCHANGED ledgerVars
    \/ Fresh \in Reservations /\ Reserve(Fresh)
    \/ \E r \in HoldsOf(w) : Release(r)
    \/ \E c \in Costs : RecordUsage(current[w], c)

LEMMA ReleaseIfOpenIs ==
  ASSUME LedgerTypeOK, NEW r, ReleaseIfOpen(r)
  PROVE  (r \in Reservations /\ Release(r)) \/ UNCHANGED ledgerVars
BY DEF ReleaseIfOpen, Active, LedgerTypeOK

LEMMA TurnOnLedger ==
  ASSUME RoundsTypeOK, NEW w \in Workers, Turns(w)
  PROVE  OwnLedgerStep(w)
<1> USE RoundsAssumption
<1> LedgerTypeOK
  BY DEF RoundsTypeOK
<1>1. CASE \E r \in {"player", "supervisor"} : StartTurn(w, r)
  BY <1>1 DEF StartTurn, OwnLedgerStep
<1>2. CASE \/ NextGame(w) \/ WorkerEnds(w) \/ SendRequest(w) \/ SessionFails(w) \/ Answer(w)
           \/ NoReceipt(w) \/ RecordFails(w) \/ FollowupSnapshot(w) \/ MarkAmbiguity(w)
  BY <1>2 DEF NextGame, WorkerEnds, SendRequest, SessionFails, Answer, NoReceipt, RecordFails,
    FollowupSnapshot, MarkAmbiguity, OwnLedgerStep
<1>3. CASE ReserveInitial(w)
  BY <1>3, FreshIsNew DEF ReserveInitial, OwnLedgerStep
<1>4. CASE ReserveFollowup(w)
  BY <1>4, FreshIsNew DEF ReserveFollowup, OwnLedgerStep
<1>5. CASE \E c \in Costs, response \in {"final", "tools", "protocol_error"} :
              Settle(w, c, response)
  BY <1>5 DEF Settle, OwnLedgerStep
<1>6. CASE BackendUnwinds(w)
  BY <1>6, ReleaseIfOpenIs DEF BackendUnwinds, OwnLedgerStep, HoldsOf
<1>7. CASE DriverUnwinds(w)
  BY <1>7, ReleaseIfOpenIs DEF DriverUnwinds, OwnLedgerStep, HoldsOf
<1> QED
  BY <1>1, <1>2, <1>3, <1>4, <1>5, <1>6, <1>7 DEF Turns

LEMMA StepOnLedger == RoundsTypeOK /\ WarmTold /\ [Next]_vars => [LedgerNext]_ledgerVars
<1> SUFFICES ASSUME RoundsTypeOK, WarmTold, [Next]_vars PROVE [LedgerNext]_ledgerVars
  OBVIOUS
<1>1. ASSUME NEW w \in Workers, Turns(w) PROVE [LedgerNext]_ledgerVars
  <2>1. OwnLedgerStep(w)
    BY <1>1, TurnOnLedger
  <2>2. \A r : Release(r) \/ (\E c \in Costs : RecordUsage(r, c)) => r \in Reservations
    BY DEF Release, RecordUsage, Active, RoundsTypeOK, LedgerTypeOK
  <2> QED
    BY <2>1, <2>2 DEF OwnLedgerStep, LedgerNext
<1>2. CASE (\E r \in Reservations : ProviderBills(r)) \/ Crash \/ Exit
  BY <1>2 DEF ProviderBills, Crash, Exit
<1>3. CASE Resume
  BY <1>3 DEF Resume, LedgerNext
<1>4. CASE WarmSeals
  BY <1>4 DEF WarmSeals, WarmTold, SealRun, LedgerNext
<1>5. CASE WarmTakesLease \/ WarmChecksHolds \/ WarmGivesUp \/ UNCHANGED vars
  BY <1>5 DEF WarmTakesLease, WarmChecksHolds, WarmGivesUp, vars
<1> QED
  BY <1>1, <1>2, <1>3, <1>4, <1>5 DEF Next

-----------------------------------------------------------------------------
\* Who holds what.

\* What a step of w may do to what its peers hold.
Keeps(w) ==
    /\ \A v \in Workers \ {w} :
          at'[v] = at[v] /\ initial'[v] = initial[v]
          /\ current'[v] = current[v] /\ round'[v] = round[v]
    /\ issued \subseteq issued' /\ consumed \subseteq consumed'
    /\ released' \cup consumed' \subseteq released \cup consumed \cup HoldsOf(w)
    /\ sent' \subseteq sent \cup HoldsOf(w)
    /\ HoldsOf(w)' \subseteq HoldsOf(w) \cup (issued' \ issued)
    /\ lane' = lane /\ crew' = crew

\* The ledger part of Keeps, for each operation.
LEMMA OwnLedgerKeeps ==
  ASSUME NEW w \in Workers, RoundsTypeOK, OwnLedgerStep(w)
  PROVE  /\ issued \subseteq issued' /\ consumed \subseteq consumed'
         /\ released' \cup consumed' \subseteq released \cup consumed \cup HoldsOf(w)
<1>1. CASE UNCHANGED ledgerVars
  BY <1>1 DEF ledgerVars
<1>2. CASE Reserve(Fresh)
  BY <1>2 DEF Reserve
<1>3. CASE \E r \in HoldsOf(w) : Release(r)
  BY <1>3 DEF Release
<1>4. CASE \E c \in Costs : RecordUsage(current[w], c)
  BY <1>4, RoundsAssumption DEF RecordUsage, Active, HoldsOf, RoundsTypeOK, LedgerTypeOK
<1> QED
  BY <1>1, <1>2, <1>3, <1>4 DEF OwnLedgerStep

LEMMA TurnKeeps ==
  ASSUME RoundsTypeOK, HoldsTold, NEW w \in Workers, Turns(w)
  PROVE  Keeps(w)
<1> USE RoundsAssumption DEF RoundsTypeOK
<1>0. /\ issued \subseteq issued' /\ consumed \subseteq consumed'
      /\ released' \cup consumed' \subseteq released \cup consumed \cup HoldsOf(w)
  BY TurnOnLedger, OwnLedgerKeeps
<1>1. lane' = lane /\ crew' = crew
  BY DEF Turns, NextGame, StartTurn, WorkerEnds, ReserveInitial, SendRequest, SessionFails, Answer,
    NoReceipt, RecordFails, Settle, FollowupSnapshot, ReserveFollowup, BackendUnwinds,
    DriverUnwinds, MarkAmbiguity, runVars
<1>2. sent' \subseteq sent \cup HoldsOf(w)
  <2>1. CASE SendRequest(w)
    <3>1. current[w] \in Reservations
      BY <2>1 DEF SendRequest, HoldsTold, TurnTold, Requesting, Active, LedgerTypeOK
    <3> QED
      BY <2>1, <3>1 DEF SendRequest, HoldsOf
  <2>2. CASE ~SendRequest(w)
    BY <2>2 DEF Turns, NextGame, StartTurn, WorkerEnds, ReserveInitial, SessionFails, Answer,
      NoReceipt, RecordFails, Settle, FollowupSnapshot, ReserveFollowup, BackendUnwinds,
      DriverUnwinds, MarkAmbiguity
  <2> QED
    BY <2>1, <2>2
<1>3. \A v \in Workers \ {w} : at'[v] = at[v]
  BY DEF Turns, NextGame, StartTurn, WorkerEnds, ReserveInitial, SendRequest, SessionFails, Answer,
    NoReceipt, RecordFails, Settle, FollowupSnapshot, ReserveFollowup, BackendUnwinds,
    DriverUnwinds, MarkAmbiguity, Goto, Raise, EndFailed
<1>4. \A v \in Workers \ {w} : initial'[v] = initial[v] /\ current'[v] = current[v]
  BY DEF Turns, NextGame, StartTurn, WorkerEnds, ReserveInitial, SendRequest, SessionFails, Answer,
    NoReceipt, RecordFails, Settle, FollowupSnapshot, ReserveFollowup, BackendUnwinds,
    DriverUnwinds, MarkAmbiguity, EndFailed
<1>5. \A v \in Workers \ {w} : round'[v] = round[v]
  BY DEF Turns, NextGame, StartTurn, WorkerEnds, ReserveInitial, SendRequest, SessionFails, Answer,
    NoReceipt, RecordFails, Settle, FollowupSnapshot, ReserveFollowup, BackendUnwinds,
    DriverUnwinds, MarkAmbiguity
<1>6. HoldsOf(w)' \subseteq HoldsOf(w) \cup (issued' \ issued)
  <2>1. CASE ReserveInitial(w)
    BY <2>1, FreshIsNew DEF ReserveInitial, Reserve, EndFailed, HoldsOf
  <2>2. CASE ReserveFollowup(w)
    BY <2>2, FreshIsNew DEF ReserveFollowup, Reserve, HoldsOf
  <2>3. CASE ~ReserveInitial(w) /\ ~ReserveFollowup(w)
    <3>1. initial'[w] \in {initial[w], NoReservation}
      BY <2>3 DEF Turns, NextGame, StartTurn, WorkerEnds, SendRequest, SessionFails, Answer,
        NoReceipt, RecordFails, Settle, FollowupSnapshot, BackendUnwinds,
        DriverUnwinds, MarkAmbiguity, EndFailed
    <3>2. current'[w] \in {current[w], NoReservation}
      BY <2>3 DEF Turns, NextGame, StartTurn, WorkerEnds, SendRequest, SessionFails, Answer,
        NoReceipt, RecordFails, Settle, FollowupSnapshot, BackendUnwinds,
        DriverUnwinds, MarkAmbiguity, EndFailed
    <3> QED
      BY <3>1, <3>2 DEF HoldsOf
  <2> QED
    BY <2>1, <2>2, <2>3
<1> QED
  BY <1>0, <1>1, <1>2, <1>3, <1>4, <1>5, <1>6 DEF Keeps

\* A step of one worker tells nothing new of its peers.
LEMMA PeersKeep ==
  ASSUME HoldsTold, RoundsTypeOK, NEW w \in Workers, Keeps(w),
         NEW v \in Workers, v # w
  PROVE  TurnTold(v)'
<1>1. /\ at'[v] = at[v] /\ initial'[v] = initial[v]
      /\ current'[v] = current[v] /\ round'[v] = round[v]
      /\ lane' = lane /\ crew' = crew
      /\ HoldsOf(v)' = HoldsOf(v)
  BY DEF Keeps, HoldsOf
<1>2. HoldsOf(v) \cap HoldsOf(w) = {}
  BY DEF HoldsTold, HoldsApart
<1>3. current[v] \in Active => current[v] \in Active'
  BY <1>2, RoundsAssumption DEF Keeps, Active, HoldsOf, RoundsTypeOK, LedgerTypeOK
<1>4. \A r \in {initial[v], current[v]} : r \notin sent => r \notin sent'
  BY <1>2, RoundsAssumption DEF Keeps, HoldsOf
<1>5. TurnTold(v) /\ issued \subseteq issued' /\ consumed \subseteq consumed'
  BY DEF HoldsTold, Keeps
<1> QED
  BY <1>1, <1>3, <1>4, <1>5 DEF TurnTold

LEMMA HoldsStayApart ==
  ASSUME HoldsTold, NEW w \in Workers, Keeps(w)
  PROVE  HoldsApart'
<1>1. \A v \in Workers : v # w => HoldsOf(v)' = HoldsOf(v) /\ HoldsOf(v) \subseteq issued
  BY DEF Keeps, HoldsOf, HoldsTold, TurnTold
<1>2. \A v \in Workers : v # w => HoldsOf(v)' \cap HoldsOf(w)' = {}
  BY <1>1 DEF Keeps, HoldsTold, HoldsApart
<1>3. \A v, u \in Workers : v # u => HoldsOf(v)' \cap HoldsOf(u)' = {}
  BY <1>1, <1>2 DEF HoldsTold, HoldsApart
<1> QED
  BY <1>3 DEF HoldsApart

\* What a worker's own step tells of it.
LEMMA OwnTold ==
  ASSUME HoldsTold, RoundsTypeOK, NEW w \in Workers, Turns(w)
  PROVE  TurnTold(w)'
<1> USE RoundsAssumption DEF RoundsTypeOK
<1> LedgerTypeOK /\ TurnTold(w)
  BY DEF HoldsTold
<1>0. Keeps(w)
  BY TurnKeeps
<1>1. CASE \/ NextGame(w)
           \/ \E r \in {"player", "supervisor"} : StartTurn(w, r)
           \/ WorkerEnds(w)
  BY <1>1 DEF NextGame, StartTurn, WorkerEnds, Goto, TurnTold, Requesting, ledgerVars, HoldsOf, Places, runVars
<1>2. CASE \/ SendRequest(w) \/ SessionFails(w) \/ Answer(w)
           \/ NoReceipt(w) \/ RecordFails(w) \/ FollowupSnapshot(w)
  BY <1>2 DEF SendRequest, SessionFails, Answer, NoReceipt, RecordFails, FollowupSnapshot,
    Goto, Raise, TurnTold, Requesting, ledgerVars, HoldsOf, Active, runVars, LedgerTypeOK
<1>3. CASE ReserveInitial(w)
  <2>1. CASE Admits(Turn)
    BY <1>3, <2>1, FreshIsNew DEF ReserveInitial, Reserve, Goto, TurnTold, Requesting, HoldsOf, Active, LedgerTypeOK
  <2>2. CASE ~Admits(Turn)
    BY <1>3, <2>2 DEF ReserveInitial, EndFailed, Goto, TurnTold, Requesting, HoldsOf
  <2> QED
    BY <2>1, <2>2
<1>4. CASE ReserveFollowup(w)
  <2>1. CASE Admits(Turn)
    BY <1>4, <2>1, FreshIsNew DEF ReserveFollowup, Reserve, Goto, TurnTold, Requesting, HoldsOf, Active, LedgerTypeOK, runVars
  <2>2. CASE ~Admits(Turn)
    BY <1>4, <2>2 DEF ReserveFollowup, Raise, Goto, TurnTold, Requesting, HoldsOf, LedgerTypeOK, ledgerVars, runVars
  <2> QED
    BY <2>1, <2>2
<1>5. CASE \E c \in Costs, response \in {"final", "tools", "protocol_error"} :
              Settle(w, c, response)
  <2>1. PICK c \in Costs, response \in {"final", "tools", "protocol_error"} :
              Settle(w, c, response)
    BY <1>5
  <2>2. /\ current'[w] = NoReservation
        /\ initial[w] \in consumed'
        /\ initial[w] \in issued /\ issued' = issued
        /\ lane' = lane /\ crew' = crew /\ w \in crew /\ round' = round
        /\ sent' = sent
    BY <2>1 DEF Settle, RecordUsage, TurnTold, Requesting, Active, LedgerTypeOK, runVars
  <2>3. \/ at'[w] \in {"idle", "redirect"} /\ initial'[w] = NoReservation
        \/ at'[w] = "settled" /\ initial' = initial /\ round[w] < MaxRounds
        \/ at'[w] = "raising" /\ initial' = initial
    BY <2>1 DEF Settle, Goto, Raise
  <2>4. NoReservation \notin sent
    BY DEF LedgerTypeOK
  <2> QED
    BY <2>2, <2>3, <2>4 DEF TurnTold, Requesting, HoldsOf
<1>6. CASE BackendUnwinds(w)
  BY <1>6, <1>0 DEF BackendUnwinds, Goto, TurnTold, Requesting, HoldsOf, Keeps
<1>7. CASE DriverUnwinds(w)
  BY <1>7, <1>0 DEF DriverUnwinds, EndFailed, Goto, TurnTold, Requesting, HoldsOf, Keeps
<1>8. CASE MarkAmbiguity(w)
  BY <1>8, <1>0 DEF MarkAmbiguity, Goto, TurnTold, Requesting, HoldsOf, Keeps
<1> QED
  BY <1>1, <1>2, <1>3, <1>4, <1>5, <1>6, <1>7, <1>8 DEF Turns

LEMMA TurnHoldsTold ==
  ASSUME HoldsTold, RoundsTypeOK, NEW w \in Workers, Turns(w)
  PROVE  HoldsTold'
BY TurnKeeps, OwnTold, PeersKeep, HoldsStayApart DEF HoldsTold

-----------------------------------------------------------------------------
\* The types.

LEMMA TurnTypes ==
  ASSUME LedgerInv, HoldsTold, RoundsTypeOK, NEW w \in Workers, Turns(w), LedgerTypeOK'
  PROVE  RoundsTypeOK'
<1> USE RoundsAssumption DEF RoundsTypeOK
<1>1. at' \in [Workers -> Places]
  BY DEF Turns, NextGame, StartTurn, WorkerEnds, ReserveInitial, SendRequest, SessionFails, Answer,
    NoReceipt, RecordFails, Settle, FollowupSnapshot, ReserveFollowup, BackendUnwinds,
    DriverUnwinds, MarkAmbiguity, Goto, Raise, EndFailed, Places, workerVars
<1>2. role' \in [Workers -> {"player", "supervisor"}]
  BY DEF Turns, NextGame, StartTurn, WorkerEnds, ReserveInitial, SendRequest, SessionFails, Answer,
    NoReceipt, RecordFails, Settle, FollowupSnapshot, ReserveFollowup, BackendUnwinds,
    DriverUnwinds, MarkAmbiguity
<1>3. error' \in [Workers -> Errors]
  BY DEF Turns, NextGame, StartTurn, WorkerEnds, ReserveInitial, SendRequest, SessionFails, Answer,
    NoReceipt, RecordFails, Settle, FollowupSnapshot, ReserveFollowup, BackendUnwinds,
    DriverUnwinds, MarkAmbiguity, Raise, EndFailed, Errors
<1>4. /\ initial' \in [Workers -> Reservations \cup {NoReservation}]
      /\ current' \in [Workers -> Reservations \cup {NoReservation}]
  <2>1. CASE ReserveInitial(w) \/ ReserveFollowup(w)
    BY <2>1, FreshIsNew DEF ReserveInitial, ReserveFollowup, EndFailed
  <2>2. CASE ~ReserveInitial(w) /\ ~ReserveFollowup(w)
    BY <2>2 DEF Turns, NextGame, StartTurn, WorkerEnds, SendRequest, SessionFails, Answer,
      NoReceipt, RecordFails, Settle, FollowupSnapshot, BackendUnwinds, DriverUnwinds,
      MarkAmbiguity, EndFailed
  <2> QED
    BY <2>1, <2>2
<1>5. round' \in [Workers -> 0..MaxRounds]
  <2>1. CASE ReserveInitial(w)
    BY <2>1 DEF ReserveInitial
  <2>2. CASE ReserveFollowup(w)
    <3>1. round[w] + 1 \in 0..MaxRounds
      BY <2>2 DEF ReserveFollowup, HoldsTold, TurnTold
    <3> QED
      BY <2>2, <3>1 DEF ReserveFollowup
  <2>3. CASE ~ReserveInitial(w) /\ ~ReserveFollowup(w)
    BY <2>3 DEF Turns, NextGame, StartTurn, WorkerEnds, SendRequest, SessionFails, Answer,
      NoReceipt, RecordFails, Settle, FollowupSnapshot, BackendUnwinds,
      DriverUnwinds, MarkAmbiguity
  <2> QED
    BY <2>1, <2>2, <2>3
<1>6. stopped' \in BOOLEAN /\ ambiguous' \in BOOLEAN /\ marked' \in BOOLEAN
  BY DEF Turns, NextGame, StartTurn, WorkerEnds, ReserveInitial, SendRequest, SessionFails, Answer,
    NoReceipt, RecordFails, Settle, FollowupSnapshot, ReserveFollowup, BackendUnwinds,
    DriverUnwinds, MarkAmbiguity, EndFailed, runVars
<1>7. /\ lane' \in Lanes /\ crew' \in SUBSET Workers /\ MayCrew(lane', crew')
      /\ up' \in BOOLEAN /\ warm' \in {"none", "leased", "checked"}
  BY DEF Turns, NextGame, StartTurn, WorkerEnds, ReserveInitial, SendRequest, SessionFails, Answer,
    NoReceipt, RecordFails, Settle, FollowupSnapshot, ReserveFollowup, BackendUnwinds,
    DriverUnwinds, MarkAmbiguity, runVars
<1>8. sent' \subseteq issued' /\ billed' \subseteq sent'
  <2>1. issued \subseteq issued'
    BY TurnKeeps DEF Keeps
  <2>2. sent' \subseteq sent \cup HoldsOf(w) /\ HoldsOf(w) \subseteq issued
    BY TurnKeeps DEF Keeps, HoldsTold, TurnTold
  <2>3. billed' = billed /\ sent \subseteq sent'
    BY DEF Turns, NextGame, StartTurn, WorkerEnds, ReserveInitial, SendRequest, SessionFails, Answer,
      NoReceipt, RecordFails, Settle, FollowupSnapshot, ReserveFollowup, BackendUnwinds,
      DriverUnwinds, MarkAmbiguity
  <2> QED
    BY <2>1, <2>2, <2>3
<1>9. queue' \in 0..Games
  <2>1. CASE NextGame(w)
    BY <2>1 DEF NextGame
  <2>2. CASE ~NextGame(w)
    <3>1. queue' = queue
      BY <2>2 DEF Turns, StartTurn, WorkerEnds, ReserveInitial, SendRequest, SessionFails,
        Answer, NoReceipt, RecordFails, Settle, FollowupSnapshot, ReserveFollowup,
        BackendUnwinds, DriverUnwinds, MarkAmbiguity, runVars
    <3> QED
      BY <3>1
  <2> QED
    BY <2>1, <2>2
<1> QED
  BY <1>1, <1>2, <1>3, <1>4, <1>5, <1>6, <1>7, <1>8, <1>9

-----------------------------------------------------------------------------
\* A hold on which a request has left is not given back.

LEMMA TurnKeepsSent ==
  ASSUME HoldsTold, RoundsTypeOK, SentIsKept, NEW w \in Workers, Turns(w)
  PROVE  SentIsKept'
<1> USE RoundsAssumption DEF RoundsTypeOK
<1> SUFFICES ASSUME lane # "codex" PROVE sent' \cap released' = {}
  BY TurnKeeps DEF SentIsKept, Keeps
<1>0. sent \cap released = {} /\ TurnTold(w) /\ LedgerTypeOK
  BY DEF SentIsKept, HoldsTold
<1>1. CASE SendRequest(w)
  BY <1>0, <1>1 DEF SendRequest, TurnTold, Requesting, Active, ledgerVars
<1>2. CASE BackendUnwinds(w)
  BY <1>0, <1>2 DEF BackendUnwinds, ReleaseIfOpen, Release, TurnTold, ledgerVars
<1>3. CASE DriverUnwinds(w)
  BY <1>0, <1>3 DEF DriverUnwinds, ReleaseIfOpen, Release, Active, TurnTold, ledgerVars
<1>4. CASE ~SendRequest(w) /\ ~BackendUnwinds(w) /\ ~DriverUnwinds(w)
  <2>1. sent' = sent
    BY <1>4 DEF Turns, NextGame, StartTurn, WorkerEnds, ReserveInitial, SessionFails, Answer,
      NoReceipt, RecordFails, Settle, FollowupSnapshot, ReserveFollowup, MarkAmbiguity
  <2>2. released' = released
    BY <1>4 DEF Turns, NextGame, StartTurn, WorkerEnds, ReserveInitial, SessionFails, Answer,
      NoReceipt, RecordFails, Settle, FollowupSnapshot, ReserveFollowup, MarkAmbiguity,
      Reserve, RecordUsage, ledgerVars
  <2> QED
    BY <1>0, <2>1, <2>2
<1> QED
  BY <1>1, <1>2, <1>3, <1>4

-----------------------------------------------------------------------------
\* What --jobs 1 gives.

LEMMA TurnOfTheCrew ==
  ASSUME HoldsTold, NEW w \in Workers, Turns(w)
  PROVE  w \in crew
<1>1. at[w] # "over" \/ w \in crew
  BY DEF Turns, NextGame, StartTurn, WorkerEnds, ReserveInitial, SendRequest, SessionFails, Answer,
    NoReceipt, RecordFails, Settle, FollowupSnapshot, ReserveFollowup, BackendUnwinds,
    DriverUnwinds, MarkAmbiguity
<1> QED
  BY <1>1 DEF HoldsTold, TurnTold

\* On one worker, whoever steps is alone: its peers never started.
LEMMA Alone ==
  ASSUME HoldsTold, RoundsTypeOK, Serial, NEW w \in Workers, Turns(w)
  PROVE  \A v \in Workers : v # w => at[v] = "over" /\ HoldsOf(v) = {}
<1>1. IsFiniteSet(crew)
  BY FS_Subset, RoundsAssumption DEF RoundsTypeOK
<1>2. \E x : crew = {x}
  BY <1>1, FS_Singleton DEF Serial
<1>3. crew = {w}
  BY <1>2, TurnOfTheCrew
<1> QED
  BY <1>3 DEF HoldsTold, TurnTold

\* reserve() succeeds only when something is left besides the holds, and its hold
\* is then part of them: the first request on it is never refused.
LEMMA ReservedCanStart ==
  ASSUME LedgerTypeOK, NEW r, Reserve(r)
  PROVE  CanStart(0)'
<1>1. Active' = Active \cup {r} /\ r \notin Active
  BY DEF Reserve, Active, LedgerTypeOK
<1>2. Reserved' = Reserved + Turn
  BY <1>1, HoldOpened
<1> QED
  BY <1>2, ActiveFinite, LedgerAssumption DEF Reserve, Admits, CanStart, LedgerTypeOK

LEMMA OneAloneTold ==
  ASSUME HoldsTold, RoundsTypeOK, Serial, NEW w \in Workers, Turns(w), AloneTold(w)
  PROVE  AloneTold(w)'
<1> USE RoundsAssumption DEF RoundsTypeOK
<1>0. LedgerTypeOK /\ TurnTold(w) /\ lane' = lane
  BY TurnKeeps DEF HoldsTold, Keeps
<1>1. ambiguous' => stopped' /\ at'[w] \in {"idle", "over"}
  <2>1. CASE ambiguous
    BY <2>1 DEF AloneTold, Turns, NextGame, StartTurn, WorkerEnds, ReserveInitial, SendRequest,
      SessionFails, Answer, NoReceipt, RecordFails, Settle, FollowupSnapshot, ReserveFollowup,
      BackendUnwinds, DriverUnwinds, MarkAmbiguity, Goto, runVars
  <2>2. CASE ~ambiguous
    BY <2>2 DEF Turns, NextGame, StartTurn, WorkerEnds, ReserveInitial, SendRequest, SessionFails, Answer,
      NoReceipt, RecordFails, Settle, FollowupSnapshot, ReserveFollowup, BackendUnwinds,
      DriverUnwinds, MarkAmbiguity, Goto, runVars
  <2> QED
    BY <2>1, <2>2
<1>2. at'[w] = "held" => CanStart(0)'
  <2>1. CASE ReserveInitial(w)
    BY <1>0, <2>1, ReservedCanStart DEF ReserveInitial, EndFailed, Goto
  <2>2. CASE ReserveFollowup(w)
    BY <1>0, <2>2, ReservedCanStart DEF ReserveFollowup, Raise, Goto
  <2>3. CASE ~ReserveInitial(w) /\ ~ReserveFollowup(w)
    BY <2>3 DEF Turns, NextGame, StartTurn, WorkerEnds, SendRequest, SessionFails, Answer,
      NoReceipt, RecordFails, Settle, FollowupSnapshot, BackendUnwinds,
      DriverUnwinds, MarkAmbiguity, Goto, Raise, EndFailed
  <2> QED
    BY <2>1, <2>2, <2>3
<1>3. lane = "openai" /\ at'[w] = "raising" => current'[w] = NoReservation
  BY <1>0 DEF AloneTold, TurnTold, Turns, NextGame, StartTurn, WorkerEnds, ReserveInitial, SendRequest,
    SessionFails, Answer, NoReceipt, RecordFails, Settle, FollowupSnapshot, ReserveFollowup,
    BackendUnwinds, DriverUnwinds, MarkAmbiguity, Goto, Raise, EndFailed
<1>4. lane # "codex" /\ at'[w] = "unwinding" => current'[w] \notin Active'
  <2> SUFFICES ASSUME lane # "codex", at'[w] = "unwinding" PROVE current'[w] \notin Active'
    OBVIOUS
  <2>1. BackendUnwinds(w)
    BY DEF Turns, NextGame, StartTurn, WorkerEnds, ReserveInitial, SendRequest, SessionFails, Answer,
      NoReceipt, RecordFails, Settle, FollowupSnapshot, ReserveFollowup, BackendUnwinds,
      DriverUnwinds, MarkAmbiguity, Goto, Raise, EndFailed
  <2>2. lane \in {"anthropic", "openai"}
    OBVIOUS
  <2> QED
    BY <1>0, <2>1, <2>2 DEF BackendUnwinds, BackendReleases, ReleaseIfOpen, Release, Active,
      AloneTold, LedgerTypeOK, ledgerVars
<1> QED
  BY <1>0, <1>1, <1>2, <1>3, <1>4 DEF AloneTold

LEMMA TurnAloneTold ==
  ASSUME HoldsTold, RoundsTypeOK, AloneIsTold, NEW w \in Workers, Turns(w)
  PROVE  AloneIsTold'
<1> SUFFICES ASSUME Serial PROVE \A v \in Workers : AloneTold(v)'
  BY TurnKeeps DEF AloneIsTold, Serial, Keeps
<1>1. AloneTold(w)'
  BY OneAloneTold DEF AloneIsTold
<1>2. \A v \in Workers : v # w => at'[v] = "over"
  BY Alone, TurnKeeps DEF Keeps
<1>3. \A v \in Workers : v # w => AloneTold(v)'
  <2>1. ambiguous' => stopped'
    BY <1>1 DEF AloneTold
  <2> QED
    BY <1>2, <2>1 DEF AloneTold
<1> QED
  BY <1>1, <1>3

\* A lone worker forgets a hold only when it is closed or the chain says that its
\* request is unaccounted for.
LEMMA TurnMarksOrphans ==
  ASSUME HoldsTold, RoundsTypeOK, AloneIsTold, OrphanHoldsAreMarked,
         NEW w \in Workers, Turns(w)
  PROVE  OrphanHoldsAreMarked'
<1> USE RoundsAssumption DEF RoundsTypeOK
<1>0. LedgerTypeOK /\ TurnTold(w) /\ lane' = lane /\ crew' = crew
  BY TurnKeeps DEF HoldsTold, Keeps
<1>1. up' = up /\ (marked => marked') /\ (ambiguous => ambiguous')
  BY DEF Turns, NextGame, StartTurn, WorkerEnds, ReserveInitial, SendRequest, SessionFails, Answer,
    NoReceipt, RecordFails, Settle, FollowupSnapshot, ReserveFollowup, BackendUnwinds,
    DriverUnwinds, MarkAmbiguity, runVars
<1> SUFFICES ASSUME up, ~marked', ~ambiguous', lane # "codex", Serial
             PROVE  \A r \in Active' : r \in {initial'[w], current'[w]}
  BY <1>0, <1>1 DEF OrphanHoldsAreMarked, Serial
<1>2. Active \subseteq HoldsOf(w)
  <2>1. \A r \in Active : r # NoReservation /\ \E v \in Workers : r \in {initial[v], current[v]}
    BY <1>0, <1>1 DEF OrphanHoldsAreMarked, Active, LedgerTypeOK
  <2> QED
    BY <2>1, Alone DEF HoldsOf
<1>3. CASE ReserveInitial(w)
  <2>1. Active = {}
    BY <1>0, <1>2, <1>3 DEF ReserveInitial, TurnTold
  <2> QED
    BY <1>3, <2>1 DEF ReserveInitial, Reserve, Active, ledgerVars
<1>4. CASE ReserveFollowup(w)
  <2>1. Active = {}
    BY <1>0, <1>2, <1>4 DEF ReserveFollowup, TurnTold, HoldsOf, Active
  <2> QED
    BY <1>4, <2>1 DEF ReserveFollowup, Reserve, Active, ledgerVars
<1>5. CASE \E c \in Costs, response \in {"final", "tools", "protocol_error"} :
              Settle(w, c, response)
  BY <1>0, <1>2, <1>5 DEF Settle, RecordUsage, TurnTold, Requesting, HoldsOf, Active
<1>6. CASE DriverUnwinds(w)
  <2>1. current[w] \notin Active
    BY <1>6 DEF DriverUnwinds, AloneIsTold, AloneTold
  <2> QED
    BY <1>2, <1>6, <2>1 DEF DriverUnwinds, ReleaseIfOpen, Release, HoldsOf, Active, ledgerVars
<1>7. CASE MarkAmbiguity(w)
  BY <1>7 DEF MarkAmbiguity
<1>8. CASE BackendUnwinds(w)
  BY <1>2, <1>8 DEF BackendUnwinds, ReleaseIfOpen, Release, HoldsOf, Active, ledgerVars
<1>9. CASE \/ NextGame(w) \/ \E r \in {"player", "supervisor"} : StartTurn(w, r)
           \/ WorkerEnds(w) \/ SendRequest(w) \/ SessionFails(w) \/ Answer(w)
           \/ NoReceipt(w) \/ RecordFails(w) \/ FollowupSnapshot(w)
  <2>1. initial' = initial /\ current' = current /\ UNCHANGED ledgerVars
    BY <1>9 DEF NextGame, StartTurn, WorkerEnds, SendRequest, SessionFails, Answer,
      NoReceipt, RecordFails, FollowupSnapshot
  <2> QED
    BY <1>2, <2>1 DEF Active, HoldsOf, ledgerVars
<1> QED
  BY <1>3, <1>4, <1>5, <1>6, <1>7, <1>8, <1>9 DEF Turns

-----------------------------------------------------------------------------
\* What the workers can still overrun the ceiling by.

\* m: the most a response can cost; t: its hold; h requests of k workers in flight.
LEMMA Overruns ==
  ASSUME NEW m \in Nat, NEW t \in Nat, t <= m, NEW h \in Nat, NEW k \in Nat, h <= k
  PROVE  m * h <= t * h + (m - t) * k
<1>1. (m - t) * h <= (m - t) * k
  <2> DEFINE d == m - t
  <2>1. d \in Nat
    OBVIOUS
  <2>2. PICK j \in Nat : k = h + j
    <3>1. k - h \in Nat /\ k = h + (k - h)
      OBVIOUS
    <3> QED
      BY <3>1
  <2> HIDE DEF d
  <2>3. d * h <= d * k
    <3>1. d * k = d * h + d * j /\ d * j \in Nat /\ d * h \in Nat
      BY <2>1, <2>2
    <3> QED
      BY <3>1
  <2> QED
    BY <2>3 DEF d
<1>2. m * h = t * h + (m - t) * h
  OBVIOUS
<1> QED
  BY <1>1, <1>2

\* The workers in flight are of the crew, and each has a hold of its own.
LEMMA InFlightHolds ==
  ASSUME HoldsTold, RoundsTypeOK
  PROVE  /\ InFlight \subseteq crew /\ IsFiniteSet(InFlight) /\ IsFiniteSet(crew)
         /\ Cardinality(InFlight) \in Nat /\ Cardinality(crew) \in Nat
         /\ Cardinality(InFlight) <= Cardinality(Active)
<1>1. InFlight \subseteq crew
  BY DEF InFlight, HoldsTold, TurnTold
<1>2. IsFiniteSet(crew) /\ IsFiniteSet(InFlight)
  BY <1>1, FS_Subset, RoundsAssumption DEF RoundsTypeOK
<1>3. Cardinality(InFlight) <= Cardinality(Active)
  <2> DEFINE f == [w \in InFlight |-> current[w]]
  <2>1. \A w \in InFlight : w \in Workers /\ current[w] \in Active /\ current[w] \in HoldsOf(w)
    BY RoundsAssumption DEF InFlight, HoldsTold, TurnTold, Requesting, HoldsOf, Active,
      RoundsTypeOK, LedgerTypeOK
  <2>2. f \in [InFlight -> Active]
    BY <2>1
  <2>3. \A v, w \in InFlight : f[v] = f[w] => v = w
    BY <2>1 DEF HoldsTold, HoldsApart
  <2>4. f \in Injection(InFlight, Active)
    BY <2>2, <2>3 DEF Injection, IsInjective
  <2> QED
    BY <2>4, FS_Injection, ActiveFinite DEF RoundsTypeOK
<1> QED
  BY <1>1, <1>2, <1>3, FS_CardinalityType

\* reserve() under the lock is what keeps the worst case within the bound.
LEMMA ReserveWorstCase ==
  ASSUME HoldsTold, HoldsTold', RoundsTypeOK, RoundsTypeOK', NEW w \in Workers,
         Reserve(Fresh), crew' = crew, w \notin InFlight, InFlight' = InFlight \cup {w}
  PROVE  WorstCase'
<1> DEFINE h == Cardinality(InFlight)
           k == Cardinality(crew)
<1>1. h \in Nat /\ k \in Nat /\ h <= Cardinality(Active)
  BY InFlightHolds
<1>2. Cardinality(InFlight') = h + 1
  BY InFlightHolds, FS_AddElement
<1>3. h + 1 <= k
  <2>1. InFlight' \in SUBSET crew' /\ IsFiniteSet(crew')
    <3>1. (InFlight \subseteq crew /\ IsFiniteSet(crew))'
      BY InFlightHolds, HoldsTold', RoundsTypeOK', PTL
    <3> QED
      BY <3>1
  <2>2. Cardinality(InFlight') <= Cardinality(crew')
    BY <2>1, FS_Subset
  <2> QED
    BY <1>2, <2>2
<1>4. Turn * (h + 1) <= Reserved + Turn
  <2>1. Cardinality(Active) \in Nat /\ Reserved = Turn * Cardinality(Active)
    BY ActiveFinite DEF RoundsTypeOK, Reserved
  <2>2. PICK j \in Nat : Cardinality(Active) = h + j
    <3>1. Cardinality(Active) - h \in Nat /\ Cardinality(Active) = h + (Cardinality(Active) - h)
      BY <1>1, <2>1
    <3> QED
      BY <3>1
  <2> HIDE DEF h
  <2>3. Turn * Cardinality(Active) = Turn * h + Turn * j /\ Turn * j \in Nat
    BY <1>1, <2>2, LedgerAssumption
  <2>4. Turn * (h + 1) = Turn * h + Turn
    BY <1>1, LedgerAssumption
  <2> QED
    BY <1>1, <2>1, <2>3, <2>4, LedgerAssumption
<1>5. MaxCost * (h + 1) <= Turn * (h + 1) + (MaxCost - Turn) * k
  <2> HIDE DEF h, k
  <2>1. h + 1 \in Nat
    BY <1>1
  <2> QED
    BY <1>1, <1>3, <2>1, Overruns, RoundsAssumption, LedgerAssumption
<1>6. spent + Reserved + Turn <= cap /\ spent' = spent /\ cap' = cap
  BY DEF Reserve, Admits
<1>7. spent + MaxCost * (h + 1) <= cap + (MaxCost - Turn) * k
  <2>1. spent \in Nat /\ cap \in Nat /\ Reserved \in Nat
    BY ActiveFinite DEF RoundsTypeOK, LedgerTypeOK
  <2> DEFINE a == MaxCost * (h + 1)
             b == Turn * (h + 1)
             c == (MaxCost - Turn) * k
  <2>2. a \in Int /\ b \in Int /\ c \in Int
    BY <1>1, RoundsAssumption, LedgerAssumption
  <2>3. b <= Reserved + Turn /\ a <= b + c
    BY <1>4, <1>5
  <2> HIDE DEF a, b, c
  <2>4. spent + a <= cap + c
    BY <1>6, <2>1, <2>2, <2>3, LedgerAssumption
  <2> QED
    BY <2>4 DEF a, c
<1> QED
  BY <1>2, <1>6, <1>7 DEF WorstCase

\* A worker that stops making its request frees what it might have overrun, also
\* when it ends with the dearest response of all.
LEMMA LandsWorstCase ==
  ASSUME HoldsTold, RoundsTypeOK, WorstCase, NEW w \in InFlight, NEW c \in 0..MaxCost,
         InFlight' = InFlight \ {w}, crew' = crew, spent' = spent + c, cap' = cap
  PROVE  WorstCase'
<1> DEFINE h == Cardinality(InFlight)
           g == Cardinality(InFlight')
           b == (MaxCost - Turn) * Cardinality(crew)
<1>1. h \in Nat /\ Cardinality(crew) \in Nat /\ g = h - 1
  BY InFlightHolds, FS_RemoveElement
<1>2. g \in Nat
  <2>1. IsFiniteSet(InFlight')
    BY InFlightHolds, FS_RemoveElement
  <2> QED
    BY <2>1, FS_CardinalityType
<1>3. h = g + 1
  BY <1>1, <1>2
<1>4. b \in Int
  BY <1>1, RoundsAssumption, LedgerAssumption
<1>5. spent + MaxCost * h <= cap + b
  BY DEF WorstCase
<1>6. spent + c + MaxCost * g <= cap + b
  <2> HIDE DEF b, g, h
  <2>1. MaxCost * h = MaxCost * g + MaxCost /\ MaxCost * g \in Nat
    BY <1>2, <1>3, RoundsAssumption
  <2>2. spent \in Nat /\ cap \in Nat
    BY DEF RoundsTypeOK, LedgerTypeOK
  <2> QED
    BY <1>4, <1>5, <2>1, <2>2, RoundsAssumption
<1> QED
  BY <1>6 DEF WorstCase

LEMMA TurnWorstCase ==
  ASSUME HoldsTold, HoldsTold', RoundsTypeOK, RoundsTypeOK', WorstCase,
         NEW w \in Workers, Turns(w)
  PROVE  WorstCase'
<1> USE RoundsAssumption DEF RoundsTypeOK
<1> DEFINE flying == {"held", "calling", "answered"}
<1>0. crew' = crew /\ LedgerTypeOK /\ LedgerTypeOK' /\ \A v \in Workers \ {w} : at'[v] = at[v]
  BY TurnKeeps DEF Keeps
<1>1. /\ at[w] \in flying /\ at'[w] \in flying => InFlight' = InFlight
      /\ at[w] \notin flying /\ at'[w] \notin flying => InFlight' = InFlight
      /\ at[w] \notin flying /\ at'[w] \in flying =>
            w \notin InFlight /\ InFlight' = InFlight \cup {w}
      /\ at[w] \in flying /\ at'[w] \notin flying =>
            w \in InFlight /\ InFlight' = InFlight \ {w}
  BY <1>0 DEF InFlight
<1>2. CASE ReserveInitial(w)
  <2>1. CASE Admits(Turn)
    <3>1. Reserve(Fresh) /\ at[w] = "admitted" /\ at'[w] = "held"
      BY <1>2, <2>1 DEF ReserveInitial, Goto
    <3> QED
      BY <1>0, <1>1, <3>1, ReserveWorstCase
  <2>2. CASE ~Admits(Turn)
    <3>1. UNCHANGED ledgerVars /\ at[w] = "admitted" /\ at'[w] \in {"idle", "over"}
      BY <1>2, <2>2 DEF ReserveInitial, EndFailed, Goto
    <3> QED
      BY <1>0, <1>1, <3>1 DEF WorstCase, ledgerVars
  <2> QED
    BY <2>1, <2>2
<1>3. CASE ReserveFollowup(w)
  <2>1. CASE Admits(Turn)
    <3>1. Reserve(Fresh) /\ at[w] = "followup" /\ at'[w] = "held"
      BY <1>3, <2>1 DEF ReserveFollowup, Goto
    <3> QED
      BY <1>0, <1>1, <3>1, ReserveWorstCase
  <2>2. CASE ~Admits(Turn)
    <3>1. UNCHANGED ledgerVars /\ at[w] = "followup" /\ at'[w] = "raising"
      BY <1>3, <2>2 DEF ReserveFollowup, Raise, Goto
    <3> QED
      BY <1>0, <1>1, <3>1 DEF WorstCase, ledgerVars
  <2> QED
    BY <2>1, <2>2
<1>4. CASE \E c \in Costs, response \in {"final", "tools", "protocol_error"} :
              Settle(w, c, response)
  <2>1. PICK c \in Costs, response \in {"final", "tools", "protocol_error"} :
              Settle(w, c, response)
    BY <1>4
  <2>2. at[w] = "answered" /\ at'[w] \in {"idle", "redirect", "settled", "raising"}
    BY <2>1 DEF Settle, Goto, Raise
  <2>3. spent' = spent + c /\ cap' = cap /\ c \in 0..MaxCost
    BY <2>1, LedgerAssumption DEF Settle, RecordUsage
  <2> QED
    BY <1>0, <1>1, <2>2, <2>3, LandsWorstCase
<1>5. CASE ~ReserveInitial(w) /\ ~ReserveFollowup(w)
           /\ ~ \E c \in Costs, response \in {"final", "tools", "protocol_error"} :
                   Settle(w, c, response)
  <2>1. spent' = spent /\ cap' = cap
    BY <1>5 DEF Turns, NextGame, StartTurn, WorkerEnds, SendRequest, SessionFails, Answer,
      NoReceipt, RecordFails, FollowupSnapshot, BackendUnwinds, DriverUnwinds,
      MarkAmbiguity, ReleaseIfOpen, Release, ledgerVars
  <2>2. at'[w] \in flying => at[w] \in flying
    <3>1. CASE NextGame(w) \/ WorkerEnds(w) \/ \E r \in {"player", "supervisor"} : StartTurn(w, r)
      BY <3>1 DEF NextGame, WorkerEnds, StartTurn, Goto
    <3>2. CASE BackendUnwinds(w) \/ DriverUnwinds(w) \/ MarkAmbiguity(w)
      BY <3>2 DEF BackendUnwinds, DriverUnwinds, MarkAmbiguity, Goto, EndFailed
    <3>3. CASE \/ SendRequest(w) \/ SessionFails(w) \/ Answer(w) \/ NoReceipt(w)
               \/ RecordFails(w) \/ FollowupSnapshot(w)
      BY <3>3 DEF SendRequest, SessionFails, Answer, NoReceipt, RecordFails, FollowupSnapshot,
        Goto, Raise
    <3> QED
      BY <1>5, <3>1, <3>2, <3>3 DEF Turns
  <2>3. CASE InFlight' = InFlight
    BY <1>0, <2>1, <2>3 DEF WorstCase
  <2>4. CASE w \in InFlight /\ InFlight' = InFlight \ {w}
    <3>1. 0 \in 0..MaxCost /\ spent' = spent + 0
      BY <2>1, <1>0 DEF LedgerTypeOK
    <3> QED
      BY <1>0, <2>1, <2>4, <3>1, LandsWorstCase
  <2> QED
    BY <1>1, <2>2, <2>3, <2>4
<1> QED
  BY <1>2, <1>3, <1>4, <1>5

-----------------------------------------------------------------------------
\* A worker at work means that the campaign has the run, and create_warm has not.

LEMMA TurnWarmTold ==
  ASSUME WarmTold, NEW w \in Workers, Turns(w)
  PROVE  WarmTold'
<1>1. up
  BY DEF WarmTold, Turns, NextGame, StartTurn, WorkerEnds, ReserveInitial, SendRequest,
    SessionFails, Answer, NoReceipt, RecordFails, Settle, FollowupSnapshot, ReserveFollowup,
    BackendUnwinds, DriverUnwinds, MarkAmbiguity
<1>2. up' = up /\ warm' = warm
  BY DEF Turns, NextGame, StartTurn, WorkerEnds, ReserveInitial, SendRequest, SessionFails,
    Answer, NoReceipt, RecordFails, Settle, FollowupSnapshot, ReserveFollowup, BackendUnwinds,
    DriverUnwinds, MarkAmbiguity, runVars
<1> QED
  BY <1>1, <1>2 DEF WarmTold

-----------------------------------------------------------------------------
\* The steps of the host process.

\* Whatever process there was, its workers hold nothing now.
LEMMA NoWorkersInv ==
  ASSUME RoundsInv, NoWorkers, up, up' = FALSE,
         UNCHANGED <<ledgerVars, lane, crew, warm, marked, sent, billed>>
  PROVE  RoundsInv'
<1> USE RoundsAssumption DEF RoundsInv, RoundsTypeOK
<1>0. LedgerInv'
  BY LedgerStep
<1>1. RoundsTypeOK'
  <2>1. at' \in [Workers -> Places] /\ error' \in [Workers -> Errors]
    BY DEF NoWorkers, Places, Errors
  <2>2. round' \in [Workers -> 0..MaxRounds]
    BY DEF NoWorkers
  <2>3. LedgerTypeOK' /\ issued' = issued
    BY <1>0 DEF LedgerInv, ledgerVars
  <2>4. queue' \in 0..Games
    BY DEF NoWorkers
  <2> QED
    BY <2>1, <2>2, <2>3, <2>4 DEF NoWorkers
<1>2. \A w \in Workers : HoldsOf(w)' = {} /\ at'[w] = "over"
  BY DEF NoWorkers, HoldsOf
<1>3. WarmTold'
  BY <1>2 DEF NoWorkers, WarmTold
<1>4. HoldsTold'
  <2>1. \A w \in Workers : TurnTold(w)'
    BY <1>2 DEF TurnTold, Requesting
  <2>2. HoldsApart'
    BY <1>2 DEF HoldsApart
  <2> QED
    BY <2>1, <2>2 DEF HoldsTold
<1>5. SentIsKept'
  BY DEF SentIsKept, ledgerVars
<1>6. AloneIsTold'
  <2>1. ambiguous' = FALSE
    BY DEF NoWorkers
  <2> QED
    BY <1>2, <2>1 DEF AloneIsTold, AloneTold
<1>7. OrphanHoldsAreMarked'
  BY DEF OrphanHoldsAreMarked
<1>8. WorstCase'
  <2>1. InFlight' = {} /\ Cardinality(InFlight') = 0
    BY <1>2, FS_EmptySet DEF InFlight
  <2>2. MaxCost * Cardinality(InFlight) \in Nat /\ MaxCost * 0 = 0
    BY InFlightHolds
  <2>3. spent \in Nat /\ cap \in Nat /\ (MaxCost - Turn) * Cardinality(crew) \in Int
    BY InFlightHolds, LedgerAssumption DEF LedgerTypeOK
  <2>4. spent' = spent /\ cap' = cap /\ crew' = crew
    BY DEF ledgerVars
  <2>5. spent <= cap + (MaxCost - Turn) * Cardinality(crew)
    BY <2>2, <2>3 DEF WorstCase
  <2> QED
    BY <2>1, <2>2, <2>3, <2>4, <2>5 DEF WorstCase
<1> QED
  BY <1>0, <1>1, <1>3, <1>4, <1>5, <1>6, <1>7, <1>8

LEMMA HigherCap ==
  ASSUME NEW x \in Nat, NEW a \in Int, NEW b \in Int, NEW y \in Nat, NEW z \in Nat,
         x + a <= y + b, y <= z
  PROVE  x + a <= z + b
OBVIOUS

\* What create_warm does with its parent.
CreateWarm == WarmTakesLease \/ WarmChecksHolds \/ WarmSeals \/ WarmGivesUp

\* Between two processes, no hold changes hands; a higher ceiling only helps.
LEMMA BetweenProcesses ==
  ASSUME RoundsInv, Resume \/ CreateWarm
  PROVE  RoundsInv'
<1> USE RoundsAssumption DEF RoundsInv, RoundsTypeOK
<1>0. LedgerInv'
  BY StepOnLedger, LedgerStep DEF CreateWarm, Next
<1>1. /\ UNCHANGED <<workerVars, lane, crew, stopped, ambiguous, sent, billed>>
      /\ UNCHANGED <<issued, consumed, released, spent>>
      /\ cap <= cap' /\ cap' \in Nat
      /\ Active' = Active /\ Reserved' = Reserved
  <2>1. /\ UNCHANGED <<workerVars, lane, crew, stopped, ambiguous, sent, billed>>
        /\ UNCHANGED <<issued, consumed, released, spent>>
    BY DEF Resume, CreateWarm, WarmTakesLease, WarmChecksHolds, WarmSeals, WarmGivesUp, Seal,
      ReviseCap, ledgerVars
  <2>2. cap \in Nat /\ cap' \in Nat
    BY <1>0 DEF LedgerInv, LedgerTypeOK
  <2>3. cap <= cap'
    <3>1. CASE UNCHANGED ledgerVars \/ Seal
      BY <2>2, <3>1 DEF ledgerVars, Seal
    <3>2. CASE \E n \in 1..CapLimit : ReviseCap(n)
      <4>1. cap' > cap
        BY <3>2 DEF ReviseCap
      <4> QED
        BY <2>2, <4>1
    <3> QED
      BY <3>1, <3>2 DEF Resume, CreateWarm, WarmTakesLease, WarmChecksHolds, WarmSeals,
        WarmGivesUp
  <2>4. Active' = Active /\ Reserved' = Reserved
    BY <2>1 DEF Active, Reserved
  <2> QED
    BY <2>1, <2>2, <2>3, <2>4
<1>2. RoundsTypeOK'
  <2>1. up' \in BOOLEAN /\ marked' \in BOOLEAN
    BY DEF Resume, CreateWarm, WarmTakesLease, WarmChecksHolds, WarmSeals, WarmGivesUp
  <2>2. warm' \in {"none", "leased", "checked"} /\ queue' \in 0..Games
    BY DEF Resume, CreateWarm, WarmTakesLease, WarmChecksHolds, WarmSeals, WarmGivesUp
  <2> QED
    BY <1>0, <1>1, <2>1, <2>2 DEF LedgerInv, workerVars
<1>3. HoldsTold'
  <2>1. UNCHANGED <<at, initial, current, round>> /\ \A w : HoldsOf(w)' = HoldsOf(w)
    BY <1>1 DEF workerVars, HoldsOf
  <2>2. \A w \in Workers : TurnTold(w)'
    BY <1>1, <2>1 DEF HoldsTold, TurnTold
  <2>3. HoldsApart'
    BY <2>1 DEF HoldsTold, HoldsApart
  <2> QED
    BY <2>2, <2>3 DEF HoldsTold
<1>4. SentIsKept'
  BY <1>1 DEF SentIsKept
<1>5. AloneIsTold'
  <2>1. CanStart(0) => CanStart(0)'
    BY <1>1, ActiveFinite DEF CanStart, Admits, LedgerTypeOK
  <2> QED
    BY <1>1, <2>1 DEF AloneIsTold, AloneTold, Serial, workerVars
<1>6. OrphanHoldsAreMarked'
  BY <1>1 DEF OrphanHoldsAreMarked, WarmTold, Resume, CreateWarm, WarmTakesLease,
    WarmChecksHolds, WarmSeals, WarmGivesUp, runVars
<1>7. WorstCase'
  <2>1. InFlight' = InFlight /\ crew' = crew /\ spent' = spent
    BY <1>1 DEF InFlight, workerVars
  <2> DEFINE a == MaxCost * Cardinality(InFlight)
             b == (MaxCost - Turn) * Cardinality(crew)
  <2>2. a \in Int /\ b \in Int /\ spent \in Nat /\ cap \in Nat
    BY InFlightHolds, LedgerAssumption DEF LedgerTypeOK
  <2>3. spent + a <= cap + b
    BY DEF WorstCase
  <2> HIDE DEF a, b
  <2>4. cap <= cap' /\ cap' \in Nat
    BY <1>1
  <2>5. spent + a <= cap' + b
    BY <2>2, <2>3, <2>4, HigherCap
  <2> QED
    BY <2>1, <2>5 DEF WorstCase, a, b
<1>8. WarmTold'
  BY <1>1 DEF WarmTold, Resume, CreateWarm, WarmTakesLease, WarmChecksHolds, WarmSeals,
    WarmGivesUp, workerVars
<1> QED
  BY <1>0, <1>2, <1>3, <1>4, <1>5, <1>6, <1>7, <1>8

\* A late bill, or nothing.
LEMMA BillsInv ==
  ASSUME RoundsInv,
         (\E r \in Reservations : ProviderBills(r)) \/ UNCHANGED vars
  PROVE  RoundsInv'
<1> USE DEF RoundsInv
<1>1. UNCHANGED <<ledgerVars, workerVars, runVars, sent>> /\ billed' \subseteq sent'
  BY DEF ProviderBills, vars, RoundsTypeOK
<1>2. LedgerInv' /\ RoundsTypeOK'
  <2>1. LedgerInv'
    BY <1>1, LedgerStep
  <2> QED
    BY <1>1, <2>1 DEF RoundsTypeOK, LedgerInv, ledgerVars, workerVars, runVars
<1>3. HoldsTold' /\ WarmTold' /\ SentIsKept'
  BY <1>1 DEF HoldsTold, WarmTold, HoldsApart, TurnTold, HoldsOf, Active, SentIsKept,
    ledgerVars, workerVars, runVars
<1>4. AloneIsTold' /\ OrphanHoldsAreMarked' /\ WorstCase'
  BY <1>1 DEF AloneIsTold, AloneTold, Serial, CanStart, Admits, Reserved, Active,
    OrphanHoldsAreMarked, WorstCase, InFlight, ledgerVars, workerVars, runVars
<1> QED
  BY <1>2, <1>3, <1>4

LEMMA RoundsStart == Init => RoundsInv
<1> SUFFICES ASSUME Init PROVE RoundsInv
  OBVIOUS
<1> USE RoundsAssumption
<1>0. LedgerInv
  BY LedgerStart DEF Init
<1>1. RoundsTypeOK
  <2>1. at \in [Workers -> Places] /\ error \in [Workers -> Errors]
    BY DEF Init, Places, Errors
  <2>2. round \in [Workers -> 0..MaxRounds]
    BY DEF Init
  <2>3. LedgerTypeOK
    BY <1>0 DEF LedgerInv
  <2>4. queue \in 0..Games
    BY DEF Init
  <2> QED
    BY <2>1, <2>2, <2>3, <2>4 DEF Init, RoundsTypeOK
<1>2. \A w \in Workers : HoldsOf(w) = {} /\ at[w] = "over"
  BY DEF Init, HoldsOf
<1>3. HoldsTold /\ WarmTold /\ SentIsKept
  BY <1>2 DEF HoldsTold, WarmTold, HoldsApart, TurnTold, Requesting, SentIsKept, Init
<1>4. AloneIsTold /\ OrphanHoldsAreMarked
  BY <1>2 DEF AloneIsTold, AloneTold, OrphanHoldsAreMarked, Init, LedgerInit, Active
<1>5. WorstCase
  <2>1. InFlight = {} /\ Cardinality(InFlight) = 0 /\ MaxCost * 0 = 0
    BY <1>2, FS_EmptySet DEF InFlight
  <2>2. (MaxCost - Turn) * Cardinality(crew) \in Nat
    <3>1. MaxCost - Turn \in Nat /\ Cardinality(crew) \in Nat
      BY <1>1, <1>3, InFlightHolds, LedgerAssumption
    <3> QED
      BY <3>1
  <2>3. spent = 0 /\ cap \in Nat
    BY LedgerAssumption DEF Init, LedgerInit
  <2> DEFINE b == (MaxCost - Turn) * Cardinality(crew)
  <2> HIDE DEF b
  <2>4. b \in Nat
    BY <2>2 DEF b
  <2>5. 0 + 0 <= cap + b
    BY <2>3, <2>4
  <2> QED
    BY <2>1, <2>3, <2>5 DEF WorstCase, b
<1> QED
  BY <1>0, <1>1, <1>3, <1>4, <1>5 DEF RoundsInv

LEMMA RoundsStep == RoundsInv /\ [Next]_vars => RoundsInv'
<1> SUFFICES ASSUME RoundsInv, [Next]_vars PROVE RoundsInv'
  OBVIOUS
<1>0. LedgerInv'
  BY StepOnLedger, LedgerStep DEF RoundsInv
<1>1. ASSUME NEW w \in Workers, Turns(w) PROVE RoundsInv'
  <2>1. LedgerTypeOK'
    BY <1>0 DEF LedgerInv
  <2>2. HoldsTold' /\ RoundsTypeOK'
    BY <1>1, <2>1, TurnHoldsTold, TurnTypes DEF RoundsInv
  <2>3. WarmTold' /\ SentIsKept' /\ AloneIsTold' /\ OrphanHoldsAreMarked' /\ WorstCase'
    BY <1>1, <2>2, TurnWarmTold, TurnKeepsSent, TurnAloneTold, TurnMarksOrphans, TurnWorstCase DEF RoundsInv
  <2> QED
    BY <1>0, <2>2, <2>3 DEF RoundsInv
<1>2. CASE Crash \/ Exit
  BY <1>2, NoWorkersInv DEF Crash, Exit
<1> QED
  BY <1>1, <1>2, BetweenProcesses, BillsInv DEF Next, CreateWarm

LEMMA RoundsInductive == Spec => []RoundsInv
BY RoundsStart, RoundsStep, PTL DEF Spec

-----------------------------------------------------------------------------
\* A campaign, with all its threads, crashes and resumes, implements the ledger: it
\* only ever opens, settles, raises and seals as BudgetLedger allows.
THEOREM CampaignKeepsLedger == Spec => LedgerSpec
<1>1. Init => LedgerInit
  BY DEF Init
<1>2. RoundsInv /\ [Next]_vars => [LedgerNext]_ledgerVars
  BY StepOnLedger DEF RoundsInv
<1> QED
  BY <1>1, <1>2, RoundsInductive, PTL DEF Spec, LedgerSpec

\* The state of the workers, the run and the ledger keeps its types.
THEOREM RoundsTypes == Spec => []RoundsTypeOK
BY RoundsInductive, PTL DEF RoundsInv

\* What the ledger promises holds of the campaign: no hold is both given back and
\* charged, and holds and charges stay within the ceiling but for overruns.
THEOREM CampaignIsSolvent == Spec => [](SettledOnce /\ Solvent)
BY RoundsInductive, PTL DEF RoundsInv, LedgerInv

\* create_warm's check for open holds is some steps before the seal: the run lease it
\* keeps from the one to the other is what makes the sealed parent free of holds.
THEOREM SealLeavesNoHold == Spec => []SealedSettled
BY RoundsInductive, PTL DEF RoundsInv, LedgerInv

\* Where the host makes the requests itself, every request the provider charged for
\* is in the books or still holds its reservation, whatever was lost or crashed.
THEOREM ApiRequestsAreAccounted == Spec => []ApiReceiptOrHold
<1>1. RoundsInv => ApiReceiptOrHold
  BY DEF RoundsInv, SentIsKept, ApiReceiptOrHold, ReceiptOrHold, RoundsTypeOK, Active
<1> QED
  BY <1>1, RoundsInductive, PTL

\* On one worker, a live process forgets no hold without the event that says so, or the
\* flag when that event could not be written.
THEOREM OrphansAreMarked == Spec => []OrphanHoldsAreMarked
BY RoundsInductive, PTL DEF RoundsInv

\* However many workers interleave, recorded spend passes the ceiling by at most
\* one overrun each.
THEOREM OverspendIsBounded == Spec => []BoundedOverspend
<1>1. RoundsInv => BoundedOverspend
  <2> SUFFICES ASSUME RoundsInv PROVE BoundedOverspend
    OBVIOUS
  <2> DEFINE a == MaxCost * Cardinality(InFlight)
             b == (MaxCost - Turn) * Cardinality(crew)
  <2>1. a \in Nat /\ b \in Int /\ spent \in Nat /\ cap \in Nat
    BY InFlightHolds, RoundsAssumption, LedgerAssumption DEF RoundsInv, RoundsTypeOK, LedgerTypeOK
  <2>2. spent + a <= cap + b
    BY DEF RoundsInv, WorstCase
  <2> HIDE DEF a, b
  <2>3. spent <= cap + b
    BY <2>1, <2>2
  <2> QED
    BY <2>3 DEF BoundedOverspend, b
<1> QED
  BY <1>1, RoundsInductive, PTL

\* With --jobs 1, after an ambiguous outcome this process sends nothing more, though its
\* thread goes on to the games that are queued: the stop flag keeps it at their start.
THEOREM AmbiguityIsFinal == Spec => AmbiguityStopsModelWork
<1>1. RoundsInv /\ [Next]_vars => (ambiguous /\ ambiguous' /\ Serial => sent' = sent)
  <2> SUFFICES ASSUME RoundsInv, [Next]_vars, ambiguous, Serial
               PROVE  sent' = sent
    OBVIOUS
  <2>1. \A w \in Workers : at[w] \in {"idle", "over"}
    BY DEF RoundsInv, AloneIsTold, AloneTold
  <2>2. ASSUME NEW w \in Workers, Turns(w) PROVE sent' = sent
    BY <2>1, <2>2 DEF Turns, NextGame, StartTurn, WorkerEnds, ReserveInitial, SendRequest,
      SessionFails, Answer, NoReceipt, RecordFails, Settle, FollowupSnapshot, ReserveFollowup,
      BackendUnwinds, DriverUnwinds, MarkAmbiguity
  <2> QED
    BY <2>2 DEF Next, ProviderBills, Crash, Exit, Resume, WarmTakesLease, WarmChecksHolds,
      WarmSeals, WarmGivesUp, vars
<1> QED
  BY <1>1, RoundsInductive, PTL DEF Spec, AmbiguityStopsModelWork
=============================================================================
