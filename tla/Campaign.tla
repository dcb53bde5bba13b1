------------------------------ MODULE Campaign ------------------------------
(***************************************************************************)
(* campaign_runner.py: one game of a campaign.  Its worker plays attempts  *)
(* of several model episodes, over the bank of verified wins               *)
(* (arc/campaign.py), the durable trace of each attempt and the one        *)
(* checkpoint of the run.                                                  *)
(*                                                                         *)
(* Games share the stop flag, `_state_lock' and the checkpoint, nothing    *)
(* else, so the workers of the other games are one environment, `peers':   *)
(* they may stop the campaign, and they save it.  A worker changes its     *)
(* GameRunState one attribute at a time and without the lock; whoever      *)
(* saves holds the lock, but copies the states of all games attribute by   *)
(* attribute while their workers run.  So one assignment is one step here, *)
(* and so is one attribute copied.                                         *)
(***************************************************************************)
EXTENDS Integers, SequencesExt

CONSTANTS
    Jobs,               \* the manifest's --jobs: "one" worker at a time or "many"
    NoSession,          \* Python's None
    Attempts,           \* attempts_per_game
    Episodes,           \* episodes_per_attempt
    ErrorLimit,         \* consecutive backend errors that end an attempt (2)
    ZeroLimit,          \* consecutive episodes without an action that do (5)
    WinLevels,          \* levels of the game
    MaxActions,         \* the action budget of an attempt
    Qualifying          \* rank of a win of exactly 100 RHAE; lower ranks are fallbacks

ASSUME CampaignAssumption ==
    /\ Jobs \in {"one", "many"}
    /\ Attempts \in Nat \ {0} /\ Episodes \in Nat \ {0}
    /\ ErrorLimit \in Nat \ {0} /\ ZeroLimit \in Nat \ {0}
    /\ WinLevels \in Nat \ {0} /\ MaxActions \in Nat \ {0}
    /\ Qualifying \in Nat \ {0}

VARIABLES
    up,         \* a process holds the run lease and runs the campaign
    live,       \* the GameRunState in memory
    todo,       \* attributes the worker is about to assign
    at, after,  \* where the worker is, and where it goes once it has saved
    left,       \* iterations left in the episode loop
    lock,       \* who holds _state_lock: "free", "worker" or "peer"
    draft,      \* the copy of `live' a saving peer is making
    unread,     \* the attributes it has still to copy
    stopped,    \* the runner's _stop event
    trace,      \* trace[a]: the durable trace of attempt a
    bank,       \* the selected win of bank.json
    anchored,   \* the event chain has a game.banked event
    saved       \* the game's part of checkpoint.json

workerVars == <<live, todo, at, after, left>>
peerVars == <<draft, unread>>
diskVars == <<trace, bank, anchored, saved>>
vars == <<up, workerVars, lock, peerVars, stopped, diskVars>>

\* In the order of the dataclass, which is the order asdict reads them in.
Attributes == <<"attempt", "episodes", "session", "actions", "levels", "zero",
                "errors", "banked">>

Fresh == [attempt |-> 1, episodes |-> 0, session |-> NoSession, actions |-> 0,
          levels |-> 0, zero |-> 0, errors |-> 0, banked |-> FALSE]

\* `prompted' is history: a turn was started in the attempt.
NoTrace == [prompted |-> FALSE, exists |-> FALSE, actions |-> 0, levels |-> 0,
            rank |-> 0]

Trace == trace[live.attempt]

\* What a provider session knows: a response id names the conversation up to that
\* response, and so the position of the game it was given in.
Position == [attempt |-> live.attempt, actions |-> Trace.actions,
             levels |-> Trace.levels]

Init ==
    /\ up = FALSE
    /\ live = Fresh /\ todo = <<>> /\ at = "done" /\ after = "done" /\ left = 0
    /\ lock = "free" /\ draft = Fresh /\ unread = <<>>
    /\ stopped = FALSE
    /\ trace = [a \in 1..Attempts |-> NoTrace]
    /\ bank = [rank |-> 0, actions |-> 0]
    /\ anchored = FALSE
    /\ saved = Fresh

-----------------------------------------------------------------------------
Set(attribute, value) == <<[attribute |-> attribute, value |-> value]>>

Ready(place) == at = place /\ todo = <<>>

Assign ==
    /\ todo # <<>>
    /\ live' = [live EXCEPT ![Head(todo).attribute] = Head(todo).value]
    /\ todo' = Tail(todo)
    /\ UNCHANGED <<up, at, after, left, lock, peerVars, stopped, diskVars>>

Goto(place) == at' = place /\ UNCHANGED <<todo, after>>

\* The assignments, then the checkpoint, then on to `place'.
AssignAndSave(assignments, place) ==
    /\ todo' = assignments
    /\ at' = "saving"
    /\ after' = place

\* Mutant of Reconciled: a session is kept although the trace has moved on.
ReconciledKeepingSession ==
    Set("actions", Trace.actions) \o Set("levels", Trace.levels)

\* _reconcile_trace_state: the trace is the authority; a session that has not seen
\* all of it is dropped before the rest is brought up to date.
Reconciled ==
    (IF Trace.actions > live.actions \/ Trace.levels # live.levels \/ ~Trace.exists
     THEN Set("session", NoSession) ELSE <<>>)
    \o Set("actions", Trace.actions) \o Set("levels", Trace.levels)

\* ... saved if it changed anything; a checkpoint ahead of the trace fails the worker.
Reconcile(place) ==
    IF Trace.exists /\ Trace.actions < live.actions
    THEN Goto("done")
    ELSE IF \A s \in ToSet(Reconciled) : live[s.attribute] = s.value
    THEN Goto(place)
    ELSE AssignAndSave(Reconciled, place)

\* Mutant of MayLock: _state_lock is a plain Lock.
MayLockOnce == lock = "free"

\* It is an RLock: a worker that is banking holds it already.
MayLock == lock \in {"free", "worker"}

\* _checkpoint by the worker: its own state is at rest while it is copied, and
\* write_checkpoint replaces the file atomically.
Save ==
    /\ Ready("saving")
    /\ MayLock
    /\ saved' = live
    /\ lock' = "free"
    /\ Goto(after)
    /\ UNCHANGED <<up, live, left, peerVars, stopped, trace, bank, anchored>>

-----------------------------------------------------------------------------
\* The peers.

\* With one job a peer saves before this worker starts or after it has ended.
PeerBeginsSave ==
    /\ up
    /\ lock = "free"
    /\ Jobs = "one" => at \in {"queued", "done"}
    /\ lock' = "peer"
    /\ unread' = Attributes
    /\ UNCHANGED <<up, workerVars, draft, stopped, diskVars>>

PeerCopies ==
    /\ unread # <<>>
    /\ draft' = [draft EXCEPT ![Head(unread)] = live[Head(unread)]]
    /\ unread' = Tail(unread)
    /\ UNCHANGED <<up, workerVars, lock, stopped, diskVars>>

PeerWrites ==
    /\ lock = "peer"
    /\ unread = <<>>
    /\ saved' = draft
    /\ draft' = Fresh
    /\ lock' = "free"
    /\ UNCHANGED <<up, workerVars, unread, stopped, trace, bank, anchored>>

\* A peer runs out of money, or an outcome of its provider is ambiguous.
PeerStops ==
    /\ up
    /\ Jobs = "one" => at \in {"queued", "done"}
    /\ stopped' = TRUE
    /\ UNCHANGED <<up, workerVars, lock, peerVars, diskVars>>

-----------------------------------------------------------------------------
\* _run_game.

StartWorker ==
    /\ at = "queued"
    /\ Jobs = "one" => lock = "free"
    /\ Goto("loop")
    /\ UNCHANGED <<up, live, left, lock, peerVars, stopped, diskVars>>

Loop ==
    /\ Ready("loop")
    /\ IF live.attempt > Attempts \/ live.banked \/ stopped
       THEN Goto("done")
       ELSE Reconcile("entering")
    /\ UNCHANGED <<up, live, left, lock, peerVars, stopped, diskVars>>

Episode ==
    /\ Ready("episodes")
    /\ IF left <= 0 THEN Goto("advancing")
       ELSE IF stopped THEN Goto("done")
       ELSE Reconcile("prompting")
    /\ UNCHANGED <<up, live, left, lock, peerVars, stopped, diskVars>>

\* The turn starts on the session of the state.
Prompt ==
    /\ Ready("prompting")
    /\ left' = left - 1
    /\ trace' = [trace EXCEPT ![live.attempt].prompted = TRUE]
    /\ Goto("playing")
    /\ UNCHANGED <<up, live, lock, peerVars, stopped, bank, anchored, saved>>

\* The tool server starts and writes the header of a new trace.
OpenTrace ==
    /\ Ready("playing")
    /\ ~Trace.exists
    /\ trace' = [trace EXCEPT ![live.attempt].exists = TRUE]
    /\ UNCHANGED <<up, workerVars, lock, peerVars, stopped, bank, anchored, saved>>

\* The agent plays an action; the episode ends with the level, the trace with a win.
Play(levelUp, rank) ==
    /\ Ready("playing")
    /\ Trace.exists /\ Trace.rank = 0
    /\ Trace.actions < MaxActions
    /\ Trace.levels = live.levels
    /\ LET levels == Trace.levels + levelUp
       IN  trace' = [trace EXCEPT ![live.attempt] =
             [Trace EXCEPT !.actions = @ + 1, !.levels = levels,
                           !.rank = IF levels = WinLevels THEN rank ELSE 0]]
    /\ UNCHANGED <<up, workerVars, lock, peerVars, stopped, bank, anchored, saved>>

\* The counters stop at their limits, beyond which nothing tells their values apart.
UpTo(limit, n) == IF n > limit THEN limit ELSE n

TurnCompletes ==
    /\ Ready("playing")
    /\ todo' = Set("errors", 0) \o Set("episodes", live.episodes + 1)
               \o Set("session", Position) \o Set("actions", Trace.actions)
               \o (IF Trace.levels > live.levels THEN Set("session", NoSession) ELSE <<>>)
               \o Set("levels", Trace.levels)
               \o Set("zero", IF Trace.actions = live.actions
                              THEN UpTo(ZeroLimit, live.zero + 1) ELSE 0)
    /\ at' = "observing"
    /\ UNCHANGED <<up, live, after, left, lock, peerVars, stopped, diskVars>>

\* The supervisor, when it has a redirect to ask for, may end ambiguously or fail.
Observe ==
    /\ Ready("observing")
    /\ \/ AssignAndSave(<<>>, "judging") /\ UNCHANGED stopped
       \/ Goto("done") /\ stopped' \in {stopped, TRUE}
    /\ UNCHANGED <<up, live, left, lock, peerVars, diskVars>>

\* No money for the turn, or an error that is nobody's: the worker ends as it is.
TurnAborts ==
    /\ Ready("playing")
    /\ stopped' \in {stopped, TRUE}
    /\ Goto("done")
    /\ UNCHANGED <<up, live, left, lock, peerVars, diskVars>>

TurnIsAmbiguous ==
    /\ Ready("playing")
    /\ stopped' = TRUE
    /\ AssignAndSave(Set("session", NoSession) \o Reconciled, "done")
    /\ UNCHANGED <<up, live, left, lock, peerVars, diskVars>>

TurnFails ==
    /\ Ready("playing")
    /\ todo' = Set("errors", UpTo(ErrorLimit, live.errors + 1))
               \o Set("session", NoSession) \o Reconciled
    /\ at' = "recovering"
    /\ UNCHANGED <<up, live, after, left, lock, peerVars, stopped, diskVars>>

-----------------------------------------------------------------------------
\* _bank_if_complete, and what its three callers do when there is no win.

\* Mutant of WinFound: only the trace of a turn that completed is looked at.
WinFoundAfterTurn == at = "judging" /\ Trace.rank > 0

WinFound == Trace.rank > 0

BankWin ==
    /\ at \in {"entering", "judging", "recovering"} /\ todo = <<>>
    /\ WinFound
    /\ Goto("banking")
    /\ UNCHANGED <<up, live, left, lock, peerVars, stopped, diskVars>>

\* Mutant of Enter: the loop always starts from the full number of episodes.
EnterAfresh ==
    /\ Ready("entering") /\ ~WinFound
    /\ left' = Episodes
    /\ Goto("episodes")
    /\ UNCHANGED <<up, live, lock, peerVars, stopped, diskVars>>

Enter ==
    /\ Ready("entering") /\ ~WinFound
    /\ left' = Episodes - live.episodes
    /\ Goto("episodes")
    /\ UNCHANGED <<up, live, lock, peerVars, stopped, diskVars>>

ContinueAfterTurn ==
    /\ Ready("judging") /\ ~WinFound
    /\ Goto(IF live.zero >= ZeroLimit THEN "advancing" ELSE "episodes")
    /\ UNCHANGED <<up, live, left, lock, peerVars, stopped, diskVars>>

ContinueAfterError ==
    /\ Ready("recovering") /\ ~WinFound
    /\ AssignAndSave(<<>>, IF live.errors >= ErrorLimit THEN "advancing" ELSE "episodes")
    /\ UNCHANGED <<up, live, left, lock, peerVars, stopped, diskVars>>

\* CampaignBank.consider: higher RHAE first, fewer actions break a tie.
Better(win, other) ==
    \/ win.rank > other.rank
    \/ win.rank = other.rank /\ win.actions < other.actions

WinOf(t) == [rank |-> t.rank, actions |-> t.actions]

\* Mutant of Bank: the state is changed and the event appended without the lock.
BankUnlocked ==
    /\ Ready("banking")
    /\ bank' = IF Better(WinOf(Trace), bank) THEN WinOf(Trace) ELSE bank
    /\ todo' = Set("banked", Trace.rank = Qualifying) \o Set("actions", Trace.actions)
               \o Set("levels", Trace.levels) \o Set("session", NoSession)
    /\ at' = "anchoring"
    /\ UNCHANGED <<up, live, after, left, lock, peerVars, stopped, trace, anchored,
                   saved>>

\* The replayed win is offered to the bank and the state follows, under the lock.
Bank ==
    /\ Ready("banking")
    /\ lock = "free"
    /\ lock' = "worker"
    /\ bank' = IF Better(WinOf(Trace), bank) THEN WinOf(Trace) ELSE bank
    /\ todo' = Set("banked", Trace.rank = Qualifying) \o Set("actions", Trace.actions)
               \o Set("levels", Trace.levels) \o Set("session", NoSession)
    /\ at' = "anchoring"
    /\ UNCHANGED <<up, live, after, left, peerVars, stopped, trace, anchored,
                   saved>>

\* The event, then the checkpoint, still under the lock.
Anchor ==
    /\ Ready("anchoring")
    /\ anchored' = (anchored \/ live.banked)
    /\ AssignAndSave(<<>>, IF live.banked THEN "done" ELSE "advancing")
    /\ UNCHANGED <<up, live, left, lock, peerVars, stopped, trace, bank, saved>>

\* Mutant of NextAttempt: the episode count of the last attempt is carried over.
NextAttemptKeepingEpisodes ==
    Set("attempt", live.attempt + 1)
    \o Set("session", NoSession) \o Set("actions", 0) \o Set("levels", 0)
    \o Set("zero", 0) \o Set("errors", 0)

NextAttempt ==
    Set("attempt", live.attempt + 1) \o Set("episodes", 0)
    \o Set("session", NoSession) \o Set("actions", 0) \o Set("levels", 0)
    \o Set("zero", 0) \o Set("errors", 0)

\* _advance_attempt.
Advance ==
    /\ Ready("advancing")
    /\ AssignAndSave(NextAttempt, "loop")
    /\ UNCHANGED <<up, live, left, lock, peerVars, stopped, diskVars>>

-----------------------------------------------------------------------------
\* run, and the process around it.

\* The first start or --resume: the checkpoint is loaded, a completion flag without a
\* qualifying win in the bank is taken back, and the state is saved as running.
Resume ==
    /\ ~up
    /\ up' = TRUE
    /\ live' = [saved EXCEPT !.banked = @ /\ bank.rank = Qualifying]
    /\ saved' = live'
    /\ at' = IF live'.banked THEN "done" ELSE "queued"
    /\ UNCHANGED <<todo, after, left, lock, peerVars, stopped, trace, bank, anchored>>

Gone ==
    /\ up' = FALSE
    /\ live' = saved'
    /\ todo' = <<>> /\ at' = "done" /\ after' = "done" /\ left' = 0
    /\ lock' = "free" /\ draft' = Fresh /\ unread' = <<>>
    /\ stopped' = FALSE
    /\ UNCHANGED <<trace, bank, anchored>>

\* All futures have completed: the last checkpoint, and the process ends.
Finish ==
    /\ up
    /\ Ready("done")
    /\ lock = "free"
    /\ saved' = live
    /\ Gone

Crash ==
    /\ up
    /\ UNCHANGED saved
    /\ Gone

\* What waits for the lock, or for the only place of the pool.
Wait == Save \/ Bank \/ StartWorker

Work ==
    \/ Assign \/ Loop \/ Episode \/ Prompt
    \/ TurnCompletes \/ TurnAborts \/ TurnIsAmbiguous \/ TurnFails \/ Observe
    \/ BankWin \/ Enter \/ ContinueAfterTurn \/ ContinueAfterError \/ Anchor \/ Advance

Next ==
    \/ Work
    \/ Wait
    \/ OpenTrace
    \/ \E levelUp \in 0..1, rank \in 1..Qualifying : Play(levelUp, rank)
    \/ PeerBeginsSave \/ PeerCopies \/ PeerWrites \/ PeerStops
    \/ Resume \/ Finish \/ Crash

Spec == Init /\ [][Next]_vars

\* Threads are scheduled, provider turns return and files can be written.  That a turn
\* returns holds of the lanes that call an SDK, whose client gives up on a request; a
\* codex process is run without a time limit (backends.py:342), and a campaign of that
\* lane can wait for one for ever: it is not a campaign of this formula.  A peer that
\* has saved goes back to a turn of minutes and ends at last, so whoever waits for the
\* lock, for its place in the pool or for the last future gets there.
FairSpec ==
    /\ Spec
    /\ WF_vars(Work) /\ SF_vars(Wait) /\ SF_vars(Finish)
    /\ WF_vars(PeerCopies \/ PeerWrites)

-----------------------------------------------------------------------------
CampaignTypeOK ==
    /\ up \in BOOLEAN /\ stopped \in BOOLEAN
    /\ lock \in {"free", "worker", "peer"}
    /\ unread # <<>> => lock = "peer"
    /\ \A state \in {live, saved, draft} :
          /\ state.attempt \in 1..(Attempts + 1)
          /\ state.episodes \in 0..Episodes
          /\ state.actions \in 0..MaxActions /\ state.levels \in 0..WinLevels
          /\ state.zero \in 0..ZeroLimit /\ state.errors \in 0..ErrorLimit
          /\ state.banked \in BOOLEAN
    /\ left \in 0..Episodes
    /\ bank.rank \in 0..Qualifying /\ anchored \in BOOLEAN

\* A checkpoint that counts the game as complete is backed by a 100-RHAE win in the
\* bank and by its event in the chain, at whatever step of banking the host dies and
\* whichever peer happens to save at that moment.
QualifiedIsProven == saved.banked => bank.rank = Qualifying /\ anchored

\* No verified win is left behind: once the campaign has gone on to a later attempt,
\* the bank holds a win at least as good as any that earlier attempts reached, also
\* when the turn that won was lost to an error or a crash.
WinsAreBanked ==
    \A a \in DOMAIN trace :
        a < saved.attempt /\ trace[a].rank > 0 => ~Better(WinOf(trace[a]), bank)

\* A turn resumes a provider session only if that session has seen every action of
\* the trace (_reconcile_trace_state: "Its old provider session is then unsafe to
\* resume").
SessionsAreCurrent ==
    Ready("prompting") /\ live.session # NoSession => live.session = Position

\* An attempt is given up only after the model was prompted in it.
AttemptsArePlayed == \A a \in DOMAIN trace : a < saved.attempt => trace[a].prompted

\* A campaign comes to an end by itself: attempts and episodes are bounded, and
\* nobody waits for the state lock for ever.
CampaignEnds == up ~> ~up
=============================================================================
