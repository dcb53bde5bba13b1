---------------------------- MODULE BudgetLedger ----------------------------
(***************************************************************************)
(* What runtime/budget.py promises: one lifetime ceiling shared by every    *)
(* worker, process and role of a run.  Each operation of the class         *)
(* BudgetLedger reloads the files and decides under `.budget.lock`, so     *)
(* here an operation is one atomic action; BudgetChains shows the three    *)
(* hash-chained files, the lock and the crashes that implement it.         *)
(*                                                                         *)
(* Every caller that reserves asks for the same amount (the campaign's     *)
(* TURN_RESERVATION_USD; a follow-up copies the amount of the reservation  *)
(* it continues), so reserved money is Turn times the open reservations.   *)
(***************************************************************************)
EXTENDS Integers, FiniteSets

CONSTANTS
    Reservations,   \* the uuid4 identifiers reserve() may draw
    Turn,           \* the amount of one reservation
    Costs,          \* what one priced provider response may cost
    InitialCap,     \* the first cap revision
    CapLimit,       \* bound: the highest ceiling an operator asks for
    SpendLimit      \* bound: unreserved charges stop being recorded above it

ASSUME LedgerAssumption ==
    /\ IsFiniteSet(Reservations)
    /\ Turn \in Nat \ {0}
    /\ Costs \subseteq Nat
    /\ InitialCap \in Nat \ {0}
    /\ CapLimit \in Nat
    /\ SpendLimit \in Nat

VARIABLES
    cap,        \* the last record of config-revisions.jsonl
    spent,      \* the sum of the costs in usage.jsonl
    issued,     \* ids with a reserve record in budget-reservations.jsonl
    released,   \* ids with a release record there
    consumed,   \* ids named by a usage record
    sealed,     \* sealed.json exists
    overrun     \* history: what charges have exceeded their reservations by

ledgerVars == <<cap, spent, issued, released, consumed, sealed, overrun>>

-----------------------------------------------------------------------------
Active == (issued \ released) \ consumed

Reserved == Turn * Cardinality(Active)

Excess(charge, estimate) == IF charge > estimate THEN charge - estimate ELSE 0

\* Mutant of Admits: admission against recorded spend only, holds forgotten.
AdmitsIgnoringHolds(amount) == spent + amount <= cap

\* BudgetSnapshot.available_usd against a request: the refusal test reserve() repeats
\* under the lock after its callers have tested an unlocked snapshot.
Admits(amount) == spent + Reserved + amount <= cap

\* ensure_can_start: unlike can_start it also refuses when nothing is left.
CanStart(amount) == Admits(amount) /\ spent < cap

LedgerInit ==
    /\ cap = InitialCap
    /\ spent = 0
    /\ issued = {} /\ released = {} /\ consumed = {}
    /\ sealed = FALSE
    /\ overrun = 0

-----------------------------------------------------------------------------
Reserve(r) ==
    /\ ~sealed
    /\ r \notin issued
    /\ Admits(Turn)
    /\ issued' = issued \cup {r}
    /\ UNCHANGED <<cap, spent, released, consumed, sealed, overrun>>

Release(r) ==
    /\ ~sealed
    /\ r \in Active
    /\ released' = released \cup {r}
    /\ UNCHANGED <<cap, spent, issued, consumed, sealed, overrun>>

\* release_all_active: recovery closes whatever is open, one record at a time,
\* without reopening the lock in between.
ReleaseAllActive ==
    /\ ~sealed
    /\ released' = released \cup Active
    /\ UNCHANGED <<cap, spent, issued, consumed, sealed, overrun>>

RecordUsage(r, cost) ==
    /\ ~sealed
    /\ r \in Active
    /\ spent' = spent + cost
    /\ consumed' = consumed \cup {r}
    /\ overrun' = overrun + Excess(cost, Turn)
    /\ UNCHANGED <<cap, issued, released, sealed>>

\* record_usage with no reservation: the generic evolve targets, which only ran
\* ensure_can_start before the turn.
RecordUnreserved(cost) ==
    /\ ~sealed
    /\ spent' = spent + cost
    /\ overrun' = overrun + cost
    /\ UNCHANGED <<cap, issued, released, consumed, sealed>>

ReviseCap(newCap) ==
    /\ ~sealed
    /\ newCap > cap
    /\ cap' = newCap
    /\ UNCHANGED <<spent, issued, released, consumed, sealed, overrun>>

\* sealed.json appears; create_warm has looked for open holds some steps before.
Seal ==
    /\ ~sealed
    /\ sealed' = TRUE
    /\ UNCHANGED <<cap, spent, issued, released, consumed, overrun>>

\* What the ledger is promised by create_warm: no parent is sealed with open holds.
SealRun == Active = {} /\ Seal

LedgerNext ==
    \/ \E r \in Reservations : Reserve(r) \/ Release(r)
    \/ ReleaseAllActive
    \/ \E r \in Reservations, c \in Costs : RecordUsage(r, c)
    \/ \E c \in Costs : spent + c <= SpendLimit /\ RecordUnreserved(c)
    \/ \E n \in 1..CapLimit : ReviseCap(n)
    \/ SealRun

LedgerSpec == LedgerInit /\ [][LedgerNext]_ledgerVars

-----------------------------------------------------------------------------
LedgerTypeOK ==
    /\ cap \in Nat \ {0}
    /\ spent \in Nat
    /\ issued \subseteq Reservations
    /\ released \subseteq issued
    /\ consumed \subseteq issued
    /\ sealed \in BOOLEAN
    /\ overrun \in Nat

\* A reservation is settled at most once: its money is either given back or
\* replaced by a charge, whatever the order in which a backend and the driver
\* around it try to close it (both call release on a failure).
SettledOnce == released \cap consumed = {}

\* Concurrent admissions never oversubscribe the ceiling: charges and holds
\* together exceed it by no more than charges have overrun their own holds.
Solvent == spent + Reserved <= cap + overrun

\* A sealed parent carries no open hold, so nothing can ever be charged to it
\* after its children have copied its evidence: between the moment create_warm finds
\* no hold and the moment sealed.json exists nobody opens one.
SealedSettled == sealed => Active = {}
=============================================================================
