--------------------------- MODULE ProviderRounds ---------------------------
(***************************************************************************)
(* The money path of an ARC campaign: workers of one host process play     *)
(* player and supervisor turns, each turn is a loop of provider requests,  *)
(* and each request runs on one ledger reservation                         *)
(* (campaign_runner.py's _BudgetedDriver around runtime/backends.py).      *)
(*                                                                         *)
(* A request may be billed by the provider whether or not the host ever    *)
(* learns of it: `billed' is that truth, the ledger is what the host       *)
(* believes.  The host process may die at any step and be resumed.         *)
(***************************************************************************)
EXTENDS BudgetLedger

CONSTANTS
    Workers,        \* the threads a campaign's pool can have
    NoReservation,  \* Python's None
    Games,          \* games of the roster that are not banked at the start
    Lanes,          \* backends a run may use: "anthropic", "openai", "codex"
    MaxRounds,      \* max_tool_rounds
    MaxCost         \* what one response can cost at most

ASSUME RoundsAssumption ==
    /\ IsFiniteSet(Workers)
    /\ NoReservation \notin Reservations
    /\ Games \in Nat
    /\ Lanes \subseteq {"anthropic", "openai", "codex"}
    /\ MaxRounds \in Nat \ {0}
    /\ MaxCost \in Nat /\ Turn <= MaxCost
    /\ \A c \in Costs : c <= MaxCost

VARIABLES
    lane,       \* the manifest's backend
    crew,       \* the --jobs threads of this run's pool
    queue,      \* games the pool's threads have not taken yet
    up,         \* a process holds the run lease and runs the campaign
    warm,       \* how far create_warm has got with this run as the parent
    at,         \* at[w]: where worker w is in its turn
    role,       \* role[w]: whose turn it is, "player" or "supervisor"
    error,      \* error[w]: the exception unwinding through the backend
    initial,    \* initial[w]: the driver's `reservation'
    current,    \* current[w]: the backend's `current_reservation'
    round,      \* round[w]: round_number
    stopped,    \* CampaignRunner._stop
    ambiguous,  \* CampaignRunner._provider_ambiguous
    marked,     \* the event chain holds provider.usage_ambiguous or
                \* budget.reservations_unreconciled
    sent,       \* reservations on which a request has left the host
    billed      \* those of them the provider has charged for

workerVars == <<at, role, error, initial, current, round>>
runVars == <<lane, crew, queue, up, warm, stopped, ambiguous, marked>>
vars == <<ledgerVars, workerVars, runVars, sent, billed>>

Places == {"idle", "redirect", "admitted", "held", "calling", "answered",
           "settled", "followup", "raising", "unwinding", "ambiguous", "over"}
Errors == {"none", "budget", "backend", "other"}

Busy == {w \in Workers : at[w] \notin {"idle", "over"}}

\* Bound: an episode starts only while every episode in progress can still draw the
\* ids its rounds and the supervisor's turn after it may need, so that no worker ever
\* waits for the model's supply of uuids.
IdsSuffice ==
    Cardinality(issued) + (MaxRounds + 1) * (Cardinality(Busy) + 1)
        <= Cardinality(Reservations)

\* A new uuid4; which one makes no difference, ids are only compared.
Fresh == CHOOSE r \in Reservations : r \notin issued

\* _validate_campaign_jobs: the qualifying lane requires --jobs 1.
MayCrew(backend, pool) ==
    /\ pool \in {Workers, {CHOOSE w \in Workers : TRUE}}
    /\ backend = "anthropic" => Cardinality(pool) = 1

Serial == Cardinality(crew) = 1

Init ==
    /\ LedgerInit
    /\ lane \in Lanes
    /\ crew \in SUBSET Workers /\ MayCrew(lane, crew)
    /\ queue = Games
    /\ up = TRUE /\ warm = "none"
    /\ at = [w \in Workers |-> "over"]
    /\ role = [w \in Workers |-> "player"]
    /\ error = [w \in Workers |-> "none"]
    /\ initial = [w \in Workers |-> NoReservation]
    /\ current = [w \in Workers |-> NoReservation]
    /\ round = [w \in Workers |-> 0]
    /\ stopped = FALSE /\ ambiguous = FALSE /\ marked = FALSE
    /\ sent = {} /\ billed = {}

Goto(w, place) == at' = [at EXCEPT ![w] = place]

-----------------------------------------------------------------------------
\* The campaign's loop around a turn.

\* A thread whose game is over takes the next one, whatever has happened meanwhile:
\* only _run_game looks at the stop flag.
NextGame(w) ==
    /\ up
    /\ w \in crew /\ at[w] = "over"
    /\ queue > 0
    /\ queue' = queue - 1
    /\ Goto(w, "idle")
    /\ UNCHANGED <<ledgerVars, role, error, initial, current, round>>
    /\ UNCHANGED <<lane, crew, up, warm, stopped, ambiguous, marked, sent, billed>>

\* How a turn that raised ends in _run_game and _supervisor_directions: a player's
\* BudgetExceeded stops the campaign, its BackendError is retried, anything else
\* fails the game; of a supervisor's errors these two, and some of the others
\* (ValueError, not OSError), fall back to the host's own directions.
EndFailed(w, err) ==
    /\ \/ /\ err = "backend" \/ role[w] = "supervisor"
          /\ Goto(w, "idle")
          /\ UNCHANGED stopped
       \/ /\ err = "other" \/ (role[w] = "player" /\ err = "budget")
          /\ Goto(w, "over")
          /\ stopped' = (stopped \/ err = "budget")
    /\ error' = [error EXCEPT ![w] = "none"]
    /\ initial' = [initial EXCEPT ![w] = NoReservation]
    /\ current' = [current EXCEPT ![w] = NoReservation]

\* _reserve: the unlocked snapshot.  The stop flag is looked at before a player's
\* episode, never before the supervisor's turn that may follow it.
StartTurn(w, r) ==
    /\ up
    /\ \/ r = "player" /\ at[w] = "idle" /\ ~stopped /\ IdsSuffice
       \/ r = "supervisor" /\ at[w] = "redirect"
    /\ role' = [role EXCEPT ![w] = r]
    /\ IF Admits(Turn)
       THEN Goto(w, "admitted") /\ UNCHANGED stopped
       ELSE IF r = "player"
       THEN Goto(w, "over") /\ stopped' = TRUE
       ELSE Goto(w, "idle") /\ UNCHANGED stopped
    /\ UNCHANGED <<ledgerVars, error, initial, current, round>>
    /\ UNCHANGED <<lane, crew, queue, up, warm, ambiguous, marked, sent, billed>>

\* A worker leaves the loop of a game: stop flag seen, game banked or attempts used up.
WorkerEnds(w) ==
    /\ up
    /\ at[w] = "idle"
    /\ Goto(w, "over")
    /\ UNCHANGED <<ledgerVars, role, error, initial, current, round>>
    /\ UNCHANGED <<runVars, sent, billed>>

\* reserve() under the lock; a peer may have taken what the snapshot showed, and
\* then BudgetExceeded is raised before there is anything to release.
ReserveInitial(w) ==
    /\ at[w] = "admitted"
    /\ IF Admits(Turn)
       THEN /\ issued # Reservations
            /\ Reserve(Fresh)
            /\ initial' = [initial EXCEPT ![w] = Fresh]
            /\ current' = [current EXCEPT ![w] = Fresh]
            /\ round' = [round EXCEPT ![w] = 1]
            /\ Goto(w, "held")
            /\ UNCHANGED <<error, stopped>>
       ELSE /\ EndFailed(w, "budget")
            /\ UNCHANGED <<ledgerVars, round>>
    /\ UNCHANGED <<role, lane, crew, queue, up, warm, ambiguous, marked, sent, billed>>

-----------------------------------------------------------------------------
\* One provider round.

Raise(w, err) ==
    /\ Goto(w, "raising")
    /\ error' = [error EXCEPT ![w] = err]

\* ensure_can_start, and the request leaves the host.
SendRequest(w) ==
    /\ at[w] = "held"
    /\ IF CanStart(0)
       THEN /\ Goto(w, "calling")
            /\ sent' = sent \cup {current[w]}
            /\ UNCHANGED error
       ELSE Raise(w, "budget") /\ UNCHANGED sent
    /\ UNCHANGED <<ledgerVars, role, initial, current, round, runVars, billed>>

\* Anthropic keeps the conversation in a session file: opening it before the first
\* request or saving it after a charged response can fail, with a BackendError or,
\* when the transcript cannot be decoded or encoded, with a ValueError.
SessionFails(w) ==
    /\ lane = "anthropic"
    /\ at[w] = "settled" \/ (at[w] = "held" /\ round[w] = 1)
    /\ \E err \in {"backend", "other"} : Raise(w, err)
    /\ UNCHANGED <<ledgerVars, role, initial, current, round, runVars, sent, billed>>

\* The provider charges for a request, possibly long after the host gave up on it.
ProviderBills(r) ==
    /\ r \in sent \ billed
    /\ billed' = billed \cup {r}
    /\ UNCHANGED <<ledgerVars, workerVars, runVars, sent>>

\* A response with trustworthy usage.
Answer(w) ==
    /\ at[w] = "calling"
    /\ current[w] \in billed
    /\ Goto(w, "answered")
    /\ UNCHANGED <<ledgerVars, role, error, initial, current, round, runVars, sent, billed>>

\* Mutant of NoReceipt: an SDK request without a response is waited for.
NoReceiptWithoutTimeout(w) ==
    /\ at[w] = "calling"
    /\ lane # "codex" => current[w] \in billed
    /\ IF lane = "codex"
       THEN Raise(w, "backend")
       ELSE Goto(w, "ambiguous") /\ UNCHANGED error
    /\ UNCHANGED <<ledgerVars, role, initial, current, round, runVars, sent, billed>>

\* No trustworthy receipt.  An SDK call ends in a connection error or a timeout, or the
\* response has no usage: AmbiguousProviderError.  A Codex process fails or prints no
\* usable events, a plain BackendError; nobody gives it a time limit.
NoReceipt(w) ==
    /\ at[w] = "calling"
    /\ IF lane = "codex"
       THEN Raise(w, "backend")
       ELSE Goto(w, "ambiguous") /\ UNCHANGED error
    /\ UNCHANGED <<ledgerVars, role, initial, current, round, runVars, sent, billed>>

\* record_usage itself fails (a damaged chain, a full disk).
RecordFails(w) ==
    /\ at[w] = "answered"
    /\ IF lane = "codex"
       THEN Raise(w, "other")
       ELSE Goto(w, "ambiguous") /\ UNCHANGED error
    /\ UNCHANGED <<ledgerVars, role, initial, current, round, runVars, sent, billed>>

\* Mutant of Settle: the round limit is off by one.
SettleOneRoundMore(w, cost, response) ==
    /\ at[w] = "answered"
    /\ RecordUsage(current[w], cost)
    /\ response = "tools" => role[w] = "player"
    /\ current' = [current EXCEPT ![w] = NoReservation]
    /\ IF response = "tools" /\ round[w] <= MaxRounds
       THEN Goto(w, "settled") /\ UNCHANGED <<error, initial>>
       ELSE Raise(w, "backend") /\ UNCHANGED initial
    /\ UNCHANGED <<role, round, runVars, sent, billed>>

\* The usage is charged, then the response decides: the turn is final, it asks for
\* tools, or it breaks the protocol (charged all the same).  Codex loops in its own
\* process, so one request is the whole turn, and a supervisor is offered no tools.
Settle(w, cost, response) ==
    /\ at[w] = "answered"
    /\ RecordUsage(current[w], cost)
    /\ response = "tools" => role[w] = "player"
    /\ lane = "codex" => response = "final"
    /\ current' = [current EXCEPT ![w] = NoReservation]
    /\ CASE response = "final" ->
              /\ \/ Goto(w, "idle")
                 \/ role[w] = "player" /\ Goto(w, "redirect")
              /\ initial' = [initial EXCEPT ![w] = NoReservation]
              /\ UNCHANGED error
         [] response = "tools" /\ round[w] < MaxRounds ->
              Goto(w, "settled") /\ UNCHANGED <<error, initial>>
         [] OTHER ->
              Raise(w, "backend") /\ UNCHANGED initial
    /\ UNCHANGED <<role, round, runVars, sent, billed>>

\* _reserve_followup: again a snapshot first, the reservation afterwards.
FollowupSnapshot(w) ==
    /\ at[w] = "settled"
    /\ IF Admits(Turn)
       THEN Goto(w, "followup") /\ UNCHANGED error
       ELSE Raise(w, "budget")
    /\ UNCHANGED <<ledgerVars, role, initial, current, round, runVars, sent, billed>>

ReserveFollowup(w) ==
    /\ at[w] = "followup"
    /\ IF Admits(Turn)
       THEN /\ issued # Reservations
            /\ Reserve(Fresh)
            /\ current' = [current EXCEPT ![w] = Fresh]
            /\ round' = [round EXCEPT ![w] = @ + 1]
            /\ Goto(w, "held")
            /\ UNCHANGED error
       ELSE /\ Raise(w, "budget")
            /\ UNCHANGED <<ledgerVars, current, round>>
    /\ UNCHANGED <<role, initial, runVars, sent, billed>>

-----------------------------------------------------------------------------
\* An exception that is not ambiguous unwinds through two owners of the hold.

\* Mutant of ReleaseIfOpen: a hold that was charged is given back as well.
ReleaseIfIssued(r) ==
    IF r \in issued
    THEN /\ released' = released \cup {r}
         /\ UNCHANGED <<cap, spent, issued, consumed, sealed, overrun>>
    ELSE UNCHANGED ledgerVars

ReleaseIfOpen(r) ==
    IF r \in Active THEN Release(r) ELSE UNCHANGED ledgerVars

\* The backend: Anthropic's outer except and Codex's error paths release the
\* reservation of the round; OpenAI's loop has no such handler.
BackendReleases(w) == lane = "anthropic" \/ (lane = "codex" /\ error[w] = "backend")

BackendUnwinds(w) ==
    /\ at[w] = "raising"
    /\ IF BackendReleases(w)
       THEN ReleaseIfOpen(current[w])
       ELSE UNCHANGED ledgerVars
    /\ Goto(w, "unwinding")
    /\ UNCHANGED <<role, error, initial, current, round, runVars, sent, billed>>

\* The driver: _release_failed on the reservation it opened, KeyError suppressed.
DriverUnwinds(w) ==
    /\ at[w] = "unwinding"
    /\ ReleaseIfOpen(initial[w])
    /\ EndFailed(w, error[w])
    /\ UNCHANGED <<role, round, lane, crew, queue, up, warm, ambiguous, marked, sent, billed>>

\* Mutants of MarkAmbiguity: the hold is given back; the stop is left to the main thread.
MarkAmbiguityReleasing(w) ==
    /\ at[w] = "ambiguous"
    /\ ReleaseIfOpen(current[w])
    /\ ambiguous' = TRUE /\ stopped' = TRUE /\ marked' = TRUE
    /\ Goto(w, "over")
    /\ initial' = [initial EXCEPT ![w] = NoReservation]
    /\ current' = [current EXCEPT ![w] = NoReservation]
    /\ UNCHANGED <<role, error, round, lane, crew, queue, up, warm, sent, billed>>

MarkAmbiguityUnstopped(w) ==
    /\ at[w] = "ambiguous"
    /\ ambiguous' = TRUE /\ marked' = TRUE
    /\ Goto(w, "over")
    /\ initial' = [initial EXCEPT ![w] = NoReservation]
    /\ current' = [current EXCEPT ![w] = NoReservation]
    /\ UNCHANGED <<ledgerVars, role, error, round, lane, crew, queue, up, warm, stopped>>
    /\ UNCHANGED <<sent, billed>>

\* AmbiguousProviderError: nothing is released, both flags are set, then the event is
\* appended, which may fail; either way the game ends with an exception.
MarkAmbiguity(w) ==
    /\ at[w] = "ambiguous"
    /\ ambiguous' = TRUE /\ stopped' = TRUE
    /\ marked' \in {TRUE, marked}
    /\ Goto(w, "over")
    /\ initial' = [initial EXCEPT ![w] = NoReservation]
    /\ current' = [current EXCEPT ![w] = NoReservation]
    /\ UNCHANGED <<ledgerVars, role, error, round, lane, crew, queue, up, warm, sent, billed>>

-----------------------------------------------------------------------------
\* The process.

NoWorkers ==
    /\ queue' = 0
    /\ at' = [w \in Workers |-> "over"]
    /\ role' = [w \in Workers |-> "player"]
    /\ error' = [w \in Workers |-> "none"]
    /\ initial' = [w \in Workers |-> NoReservation]
    /\ current' = [w \in Workers |-> NoReservation]
    /\ round' = [w \in Workers |-> 0]
    /\ stopped' = FALSE /\ ambiguous' = FALSE

\* The host dies between any two steps, or every game has ended and it exits.
Crash ==
    /\ up
    /\ up' = FALSE
    /\ NoWorkers
    /\ UNCHANGED <<ledgerVars, lane, crew, warm, marked, sent, billed>>

Exit ==
    /\ up
    /\ queue = 0 /\ \A w \in Workers : at[w] = "over"
    /\ up' = FALSE
    /\ NoWorkers
    /\ UNCHANGED <<ledgerVars, lane, crew, warm, marked, sent, billed>>

\* Mutant of Resume: the holds a crash left are kept but not reported.
ResumeUnmarked ==
    /\ ~up /\ ~sealed /\ warm = "none"
    /\ up' = TRUE
    /\ queue' \in 0..Games
    /\ UNCHANGED <<ledgerVars, workerVars, lane, crew, warm, stopped, ambiguous, marked>>
    /\ UNCHANGED <<sent, billed>>

\* --resume, under the run lease: an optional higher ceiling, then every hold still open
\* is reported as possibly unreported usage and kept, and the games that are not banked
\* are queued.
Resume ==
    /\ ~up /\ ~sealed /\ warm = "none"
    /\ up' = TRUE
    /\ queue' \in 0..Games
    /\ (\E n \in 1..CapLimit : ReviseCap(n)) \/ UNCHANGED ledgerVars
    /\ marked' = (marked \/ Active # {})
    /\ UNCHANGED <<workerVars, lane, crew, warm, stopped, ambiguous, sent, billed>>

\* Mutant of WarmTakesLease: create_warm works on what it has opened, without the lease.
WarmTakesNoLease ==
    /\ warm = "none" /\ ~sealed
    /\ warm' = "leased"
    /\ UNCHANGED <<ledgerVars, workerVars, lane, crew, queue, up, stopped, ambiguous, marked>>
    /\ UNCHANGED <<sent, billed>>

\* --results: create_warm takes the parent's lease ...
WarmTakesLease ==
    /\ ~up
    /\ warm = "none" /\ ~sealed
    /\ warm' = "leased"
    /\ UNCHANGED <<ledgerVars, workerVars, lane, crew, queue, up, stopped, ambiguous, marked>>
    /\ UNCHANGED <<sent, billed>>

\* ... refuses a parent with open holds ...
WarmChecksHolds ==
    /\ warm = "leased"
    /\ warm' = IF Active = {} THEN "checked" ELSE "none"
    /\ UNCHANGED <<ledgerVars, workerVars, lane, crew, queue, up, stopped, ambiguous, marked>>
    /\ UNCHANGED <<sent, billed>>

\* ... checkpoints its memory, appends run.sealed, lists its files, and seals it.
WarmSeals ==
    /\ warm = "checked"
    /\ Seal
    /\ warm' = "none"
    /\ UNCHANGED <<workerVars, lane, crew, queue, up, stopped, ambiguous, marked, sent, billed>>

\* It may fail or die before the seal exists.
WarmGivesUp ==
    /\ warm # "none"
    /\ warm' = "none"
    /\ UNCHANGED <<ledgerVars, workerVars, lane, crew, queue, up, stopped, ambiguous, marked>>
    /\ UNCHANGED <<sent, billed>>

Turns(w) ==
    \/ NextGame(w)
    \/ \E r \in {"player", "supervisor"} : StartTurn(w, r)
    \/ WorkerEnds(w)
    \/ ReserveInitial(w)
    \/ SendRequest(w)
    \/ SessionFails(w)
    \/ Answer(w)
    \/ NoReceipt(w)
    \/ RecordFails(w)
    \/ \E c \in Costs, response \in {"final", "tools", "protocol_error"} :
          Settle(w, c, response)
    \/ FollowupSnapshot(w)
    \/ ReserveFollowup(w)
    \/ BackendUnwinds(w)
    \/ DriverUnwinds(w)
    \/ MarkAmbiguity(w)

Next ==
    \/ \E w \in Workers : Turns(w)
    \/ \E r \in Reservations : ProviderBills(r)
    \/ Crash
    \/ Exit
    \/ Resume
    \/ WarmTakesLease
    \/ WarmChecksHolds
    \/ WarmSeals
    \/ WarmGivesUp

Spec == Init /\ [][Next]_vars

\* A Codex process that was started runs as long as it likes: subprocess.run gets no
\* time limit.
Unlimited(w) == lane = "codex" /\ at[w] = "calling"

\* Threads are scheduled and SDK calls return.
FairSpec == Spec /\ \A w \in Workers : WF_vars(~Unlimited(w) /\ Turns(w))

-----------------------------------------------------------------------------
RoundsTypeOK ==
    /\ LedgerTypeOK
    /\ lane \in Lanes
    /\ crew \in SUBSET Workers /\ MayCrew(lane, crew)
    /\ queue \in 0..Games
    /\ up \in BOOLEAN /\ warm \in {"none", "leased", "checked"}
    /\ at \in [Workers -> Places]
    /\ role \in [Workers -> {"player", "supervisor"}]
    /\ error \in [Workers -> Errors]
    /\ initial \in [Workers -> Reservations \cup {NoReservation}]
    /\ current \in [Workers -> Reservations \cup {NoReservation}]
    /\ round \in [Workers -> 0..MaxRounds]
    /\ stopped \in BOOLEAN /\ ambiguous \in BOOLEAN /\ marked \in BOOLEAN
    /\ sent \subseteq issued /\ billed \subseteq sent

\* Every request the provider has charged for is either in the books or still holds
\* its worst-case reservation: after lost responses, failed receipts, host crashes and
\* late billing alike, the ceiling accounts for it.
ReceiptOrHold == billed \subseteq consumed \cup Active

\* The same, of the lanes whose requests the host makes itself.
ApiReceiptOrHold == lane # "codex" => ReceiptOrHold

\* In a live process a hold that no turn is going to settle comes with an ambiguity
\* marker in the event chain, or with the ambiguity flag if that event could not be
\* written: money is never withheld from the run, nor the run disqualified by the hold,
\* without a request that may have gone unreported.  Of the lanes whose requests the
\* host makes itself, on one worker.
OrphanHoldsAreMarked ==
    up /\ ~marked /\ ~ambiguous /\ lane # "codex" /\ Serial =>
        \A r \in Active : \E w \in Workers : r \in {initial[w], current[w]}

\* What --jobs 1 is required for: once a provider outcome is ambiguous, this process
\* sends nothing more.  The pool's thread goes on with the games that are queued, and
\* the flag its last act in this one has set is all that keeps it from a request.
AmbiguityStopsModelWork ==
    [][ambiguous /\ ambiguous' /\ Serial => sent' = sent]_vars

\* However the workers interleave, recorded spend passes the lifetime ceiling by at
\* most one overrun per worker: an overage blocks every turn not yet admitted.
BoundedOverspend == spent <= cap + (MaxCost - Turn) * Cardinality(crew)

\* A stop (no money left, or an ambiguous outcome) reaches every worker: each finishes
\* the turn it is in and leaves this game and all that are queued, unless it waits for a
\* Codex process.
StopReachesEveryone ==
    stopped ~> (~up \/ \A w \in crew : Unlimited(w) \/ (at[w] = "over" /\ queue = 0))
=============================================================================
