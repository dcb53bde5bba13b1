---------------------------- MODULE BudgetChains ----------------------------
(***************************************************************************)
(* How runtime/budget.py and runtime/_io.py implement BudgetLedger: three  *)
(* append-only JSONL chains and one advisory lock.  An operation takes     *)
(* `.budget.lock`, reloads the chains it needs, decides, appends its       *)
(* records one write at a time and unlocks.  A write may be cut short (the *)
(* result of os.write is not looked at) and the process may die between    *)
(* any two steps; nothing ever repairs a damaged last line.                *)
(***************************************************************************)
EXTENDS Sums, SequencesExt

NoReservation == "none"     \* record_usage called without a reservation_id

CONSTANTS
    Clients,        \* threads of the run's process that share the ledger
    NoClient,       \* the lock is free
    Reservations, Turn, Costs, InitialCap, CapLimit, SpendLimit

ASSUME ChainsAssumption ==
    /\ NoClient \notin Clients
    /\ IsFiniteSet(Reservations) /\ NoReservation \notin Reservations
    /\ Turn \in Nat \ {0}
    /\ Costs \subseteq Nat
    /\ InitialCap \in Nat \ {0}
    /\ CapLimit \in Nat /\ SpendLimit \in Nat

VARIABLES
    chain,      \* chain[name]: the parseable records of the file, in order
    tail,       \* tail[name]: how the last line of the file ends
    lock,       \* who holds `.budget.lock`
    todo,       \* todo[c]: records the operation of c has still to append
    granted,    \* granted[c]: ids reserve() has returned to c in this process
    drawn,      \* uuid4 values that have been drawn
    sealed

vars == <<chain, tail, lock, todo, granted, drawn, sealed>>

Names == {"revisions", "usage", "reservations"}

Capped(n) == [cap |-> n]
Usage(r, c) == [id |-> r, cost |-> c]
Entry(kind, r) == [kind |-> kind, id |-> r]
Write(name, record) == [to |-> name, record |-> record]

-----------------------------------------------------------------------------
\* What a reload computes.

\* Mutant of Readable: a loader that skips a malformed last line.
ReadableSkippingTorn(names) == names \subseteq Names

\* load_jsonl raises on a malformed last line; a line that lacks only its newline
\* still parses.
Readable(names) == \A name \in names : tail[name] # "torn"

Consumed == {u.id : u \in ToSet(chain["usage"])} \ {NoReservation}

Holds == chain["reservations"]

\* The replay in _active_reservations_unlocked: active after n records is what the last
\* of them to name it has reserved ...
ActiveAfter(n) ==
    {r \in Reservations :
        \E i \in 1..n : /\ Holds[i] = Entry("reserve", r)
                        /\ \A j \in (i + 1)..n : Holds[j].id # r}

\* ... and whether it raised: a record reserves what is not active, or releases what is.
Replays ==
    \A n \in DOMAIN Holds :
        (Holds[n].kind = "reserve") <=> (Holds[n].id \notin ActiveAfter(n - 1))

Open == ActiveAfter(Len(Holds)) \ Consumed

Cap == IF chain["revisions"] = <<>> THEN InitialCap ELSE Last(chain["revisions"]).cap

Spent == Total([i \in DOMAIN chain["usage"] |-> chain["usage"][i].cost])

\* Mutant of Available: the open holds are left out of the projection.
AvailableIgnoringHolds == Cap - Spent

Available == Cap - Spent - Turn * Cardinality(Open)

Ids(kind) == {e.id : e \in {f \in ToSet(chain["reservations"]) : f.kind = kind}}

-----------------------------------------------------------------------------
Init ==
    /\ chain = [name \in Names |-> <<>>]
    /\ tail = [name \in Names |-> "whole"]
    /\ lock = NoClient
    /\ todo = [c \in Clients |-> <<>>]
    /\ granted = [c \in Clients |-> {}]
    /\ drawn = {}
    /\ sealed = FALSE

\* Entering an operation: lock, _ensure_mutable, reload, and the records to append.
\* A refusal raises with nothing written, so only accepted calls are steps.
Begin(c, writes) ==
    /\ lock = NoClient
    /\ ~sealed
    /\ lock' = c
    /\ todo' = [todo EXCEPT ![c] = writes]
    /\ UNCHANGED <<chain, tail, sealed>>

\* The constructor writes the first revision of an empty ledger.
BeginInitialCap(c) ==
    /\ Readable({"revisions"})
    /\ chain["revisions"] = <<>>
    /\ Begin(c, <<Write("revisions", Capped(InitialCap))>>)
    /\ UNCHANGED <<granted, drawn>>

BeginReserve(c, r) ==
    /\ chain["revisions"] # <<>>
    /\ Readable(Names)
    /\ r \notin drawn
    /\ Turn <= Available
    /\ Begin(c, <<Write("reservations", Entry("reserve", r))>>)
    /\ drawn' = drawn \cup {r}
    /\ UNCHANGED granted

\* Mutant of BeginRelease: the second of two owners releases again.
BeginReleaseTwice(c, r) ==
    /\ r \in granted[c]
    /\ Readable({"usage", "reservations"})
    /\ Begin(c, <<Write("reservations", Entry("release", r))>>)
    /\ UNCHANGED <<granted, drawn>>

BeginRelease(c, r) ==
    /\ r \in granted[c]
    /\ Readable({"usage", "reservations"})
    /\ r \in Open
    /\ Begin(c, <<Write("reservations", Entry("release", r))>>)
    /\ UNCHANGED <<granted, drawn>>

\* release_all_active belongs to recovery: this process has reserved nothing yet.
BeginReleaseAllActive(c) ==
    /\ \A d \in Clients : granted[d] = {}
    /\ Readable({"usage", "reservations"})
    /\ Open # {}
    /\ \E order \in SetToSeqs(Open) :
          Begin(c, [i \in DOMAIN order |->
                       Write("reservations", Entry("release", order[i]))])
    /\ UNCHANGED <<granted, drawn>>

BeginRecordUsage(c, r, cost) ==
    /\ r \in granted[c]
    /\ Readable({"usage", "reservations"})
    /\ r \in Open
    /\ Begin(c, <<Write("usage", Usage(r, cost))>>)
    /\ UNCHANGED <<granted, drawn>>

BeginRecordUnreserved(c, cost) ==
    /\ Readable({"usage"})
    /\ Spent + cost <= SpendLimit
    /\ Begin(c, <<Write("usage", Usage(NoReservation, cost))>>)
    /\ UNCHANGED <<granted, drawn>>

BeginReviseCap(c, newCap) ==
    /\ chain["revisions"] # <<>>
    /\ Readable(Names)
    /\ newCap > Cap
    /\ Begin(c, <<Write("revisions", Capped(newCap))>>)
    /\ UNCHANGED <<granted, drawn>>

\* append_jsonl: one write, of which the kernel may have taken only a part.  A new
\* line glued to an unterminated one makes a malformed line of both.
AppendOutcome(name, record, ending) ==
    IF tail[name] = "whole" /\ ending # "torn"
    THEN /\ chain' = [chain EXCEPT ![name] = Append(@, record)]
         /\ tail' = [tail EXCEPT ![name] = ending]
    ELSE /\ tail' = [tail EXCEPT ![name] = "torn"]
         /\ UNCHANGED chain

AppendNext(c) ==
    /\ lock = c
    /\ todo[c] # <<>>
    /\ LET next == Head(todo[c]) IN
          /\ Readable({next.to})
          /\ \E ending \in {"whole", "unterminated", "torn"} :
                AppendOutcome(next.to, next.record, ending)
          /\ granted' = [granted EXCEPT ![c] =
                IF next.to = "reservations" /\ next.record.kind = "reserve"
                THEN @ \cup {next.record.id} ELSE @]
    /\ todo' = [todo EXCEPT ![c] = Tail(@)]
    /\ UNCHANGED <<lock, drawn, sealed>>

\* Mutant of Leave: the lock is dropped before the last record is written.
LeaveEarly(c) ==
    /\ lock = c
    /\ lock' = NoClient
    /\ UNCHANGED <<chain, tail, todo, granted, drawn, sealed>>

\* Leaving the with block, after the last record or because _append_chain found
\* that an earlier write of this operation had torn the file.
Leave(c) ==
    /\ lock = c
    /\ todo[c] # <<>> => ~Readable({Head(todo[c]).to})
    /\ lock' = NoClient
    /\ todo' = [todo EXCEPT ![c] = <<>>]
    /\ UNCHANGED <<chain, tail, granted, drawn, sealed>>

\* The process dies: the kernel drops the lock, the files stay, callers forget.
Crash ==
    /\ lock' = NoClient
    /\ todo' = [c \in Clients |-> <<>>]
    /\ granted' = [c \in Clients |-> {}]
    /\ UNCHANGED <<chain, tail, drawn, sealed>>

\* create_warm, under the run lease: the process that seals has no turn of its own.
Seal ==
    /\ ~sealed
    /\ lock = NoClient /\ \A c \in Clients : granted[c] = {}
    /\ Readable({"usage", "reservations"})
    /\ Open = {}
    /\ sealed' = TRUE
    /\ UNCHANGED <<chain, tail, lock, todo, granted, drawn>>

Next ==
    \/ \E c \in Clients :
          \/ BeginInitialCap(c)
          \/ \E r \in Reservations : BeginReserve(c, r) \/ BeginRelease(c, r)
          \/ BeginReleaseAllActive(c)
          \/ \E r \in Reservations, cost \in Costs : BeginRecordUsage(c, r, cost)
          \/ \E cost \in Costs : BeginRecordUnreserved(c, cost)
          \/ \E n \in 1..CapLimit : BeginReviseCap(c, n)
          \/ AppendNext(c)
          \/ Leave(c)
    \/ Crash
    \/ Seal

Spec == Init /\ [][Next]_vars

-----------------------------------------------------------------------------
ChainsTypeOK ==
    /\ DOMAIN chain = Names
    /\ ToSet(chain["revisions"]) \subseteq [cap : Nat \ {0}]
    /\ ToSet(chain["usage"]) \subseteq [id : Reservations \cup {NoReservation}, cost : Costs]
    /\ ToSet(chain["reservations"]) \subseteq
          [kind : {"reserve", "release"}, id : Reservations]
    /\ tail \in [Names -> {"whole", "unterminated", "torn"}]
    /\ lock \in Clients \cup {NoClient}
    /\ \A c \in Clients : todo[c] # <<>> => lock = c
    /\ granted \in [Clients -> SUBSET Reservations]
    /\ drawn \subseteq Reservations
    /\ sealed \in BOOLEAN

\* Whatever the interleaving, the crashes and the short writes, the chains never
\* come to say something their own loader rejects: a duplicate or inactive entry,
\* a reservation consumed twice, a cap that did not rise.  Such a record would make
\* every later operation of the run raise.
ReplayAccepts ==
    /\ Replays
    /\ \A i, j \in DOMAIN chain["usage"] :
          /\ i # j
          /\ chain["usage"][i].id # NoReservation
          => chain["usage"][i].id # chain["usage"][j].id
    /\ \A i \in 1..(Len(chain["revisions"]) - 1) :
          chain["revisions"][i].cap < chain["revisions"][i + 1].cap

\* As long as the books can be read, every reservation a thread was granted is in
\* them: still open, or closed by a record.  No interleaving of writes drops a hold
\* silently, so no provider request runs on money the ledger does not know of.
GrantedIsBooked ==
    Readable(Names) => \A c \in Clients : granted[c] \subseteq Ids("reserve")

\* By how much a charge exceeded the hold it consumed.
Overrun(u) == IF u.id = NoReservation THEN u.cost
              ELSE IF u.cost > Turn THEN u.cost - Turn ELSE 0

\* The chains and the lock implement the atomic ledger.
Ledger == INSTANCE BudgetLedger WITH
    cap <- Cap,
    spent <- Spent,
    issued <- Ids("reserve"),
    released <- Ids("release"),
    consumed <- Consumed,
    overrun <- Total([i \in DOMAIN chain["usage"] |-> Overrun(chain["usage"][i])])

ImplementsLedger == Ledger!LedgerSpec
=============================================================================
