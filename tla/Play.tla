-------------------------------- MODULE Play --------------------------------
(***************************************************************************)
(* One game of a serial API lane: the campaign's episode loop              *)
(* (campaign_runner.py), the ARC runtime that applies and records actions  *)
(* (arc/tools.py), the trace (arc/trace.py) and the supervisor that        *)
(* watches it (runtime/supervisor.py).                                     *)
(*                                                                         *)
(* The game itself is external: a deterministic function of the frame and  *)
(* the action.  A frame's hash is its `cell'.                              *)
(***************************************************************************)
EXTENDS Scoring, FiniteSets

CONSTANTS
    Actions,            \* ARC actions, RESET among them
    Frames,             \* [cell, levels, status]
    First,              \* the frame of a fresh environment
    Legal(_),           \* legal_actions of a frame
    Apply(_, _),        \* the frame an action leads to
    NoChange,           \* NO_CHANGE_THRESHOLD (3)
    Deaths,             \* REPEATED_DEATH_THRESHOLD (2)
    Plateau,            \* ACTION_PLATEAU_THRESHOLD (20)
    EvidencePlateau,    \* EVIDENCE_PLATEAU_THRESHOLD (10)
    ZeroEpisodes,       \* ZERO_ACTION_EPISODE_THRESHOLD (2)
    MaxIdle,            \* idle episodes that end an attempt (5)
    MaxErrors,          \* backend errors in a row that end an attempt (2)
    Episodes,           \* episodes_per_attempt
    Attempts,           \* attempts_per_game
    MaxCrashes          \* bound: the host's process dies

\* The game is played as the adapter presents it: a fresh game has completed nothing
\* (trace.py:114 refuses another), levels are never lost, `win_levels' of them win it, and
\* a won game offers no action.
ASSUME PlayAssumption ==
    /\ First \in Frames /\ First.levels = 0
    /\ \A f \in Frames : Legal(f) \subseteq Actions
    /\ \A f \in Frames : \A a \in Legal(f) : Apply(f, a) \in Frames
    /\ \A f \in Frames : f.levels \in 0..Len(Baselines)
    /\ \A f \in Frames : \A a \in Legal(f) : Apply(f, a).levels >= f.levels
    /\ \A f \in Frames : f.status = "WIN" <=> f.levels = Len(Baselines)
    /\ \A f \in Frames : f.status = "WIN" => Legal(f) = {}
    /\ \A f \in Frames : f.status \in {"NOT_FINISHED", "WIN", "GAME_OVER"}
    /\ {NoChange, Deaths, Plateau, EvidencePlateau, ZeroEpisodes, MaxIdle, MaxErrors,
        Episodes, Attempts} \subseteq Nat \ {0}

VARIABLES
    trace,      \* whole records of the attempt's trace.jsonl
    file,       \* the file is absent, whole or ends in a torn record
    rt,         \* the ArcToolRuntime of the episode
    host,       \* where the campaign's loop is
    loop,       \* episodes the loop has left, actions and levels when this one began
    sup,        \* the loop's Supervisor
    game,       \* the GameRunState in memory
    saved,      \* the GameRunState of the checkpoint
    crashes

vars == <<trace, file, rt, host, loop, sup, game, saved, crashes>>

FrameAt(steps, n) == IF n = 0 THEN First ELSE steps[n].frame
Current == FrameAt(trace, Len(trace))
Levels(steps) == FrameAt(steps, Len(steps)).levels

\* What a supervisor was shown is not part of its state in the code.
FreshSupervisor ==
    [noChange |-> 0, noChangeFired |-> FALSE, signature |-> 0, deaths |-> 0,
     deathFired |-> FALSE, sinceProgress |-> 0, sinceEvidence |-> 0, plateauFired |-> FALSE,
     zero |-> 0, zeroFired |-> FALSE, shown |-> <<>>]

NoRedirect == "none"

FreshGame(n) ==
    [attempt |-> n, episodes |-> 0, actions |-> 0, levels |-> First.levels, idle |-> 0,
     errors |-> 0, supervisor |-> FreshSupervisor, redirect |-> NoRedirect, banked |-> FALSE]

NoRuntime == [at |-> "none"]

Init ==
    /\ trace = <<>> /\ file = "absent"
    /\ rt = NoRuntime
    /\ host = "down"
    /\ loop = [left |-> 0, actions |-> 0, levels |-> First.levels]
    /\ sup = FreshSupervisor
    /\ game = FreshGame(1)
    /\ saved = FreshGame(1)
    /\ crashes = 0

\* The process ends; the next one finds its checkpoint.
Exit ==
    /\ rt' = NoRuntime /\ host' = "down"
    /\ sup' = FreshSupervisor /\ game' = saved

Die == crashes < MaxCrashes /\ crashes' = crashes + 1 /\ Exit

-----------------------------------------------------------------------------
\* arc/trace.py

\* replay_into_environment: every record is legal where it stands and is what a fresh game
\* answers.
Replays(steps) ==
    \A n \in DOMAIN steps :
        LET f == FrameAt(steps, n - 1) IN
        steps[n].action \in Legal(f) /\ steps[n].frame = Apply(f, steps[n].action)

\* What can be on disk once a write was interrupted or has failed: nothing of the record
\* (not even what close() flushes later), a part of it, or all of it.
Landed(record) ==
    \/ UNCHANGED <<trace, file>>
    \/ file' = "torn" /\ UNCHANGED trace
    \/ trace' = Append(trace, record) /\ UNCHANGED file

-----------------------------------------------------------------------------
\* arc/tools.py

\* __init__ with a new trace file, and the crash that leaves it without its header.
Open ==
    /\ host = "opening" /\ file = "absent"
    /\ \/ /\ file' = "whole"
          /\ rt' = [at |-> "ready", history |-> <<First>>, fatal |-> FALSE, boundary |-> FALSE]
          /\ host' = "playing"
          /\ UNCHANGED <<sup, game, crashes>>
       \/ /\ file' = "torn"
          /\ Die
    /\ UNCHANGED <<trace, loop, saved>>

Readable == file # "torn" /\ Replays(trace)

\* Mutant of Reopen: the recorded actions are not replayed.
ReopenFresh ==
    /\ host = "opening" /\ file # "absent"
    /\ Readable /\ Len(trace) <= action_budget
    /\ rt' = [at |-> "ready", history |-> <<First>>, fatal |-> FALSE, boundary |-> FALSE]
    /\ host' = "playing"
    /\ UNCHANGED <<trace, file, loop, sup, game, saved, crashes>>

\* resume: the recorded actions are played again in a fresh environment.
Reopen ==
    /\ host = "opening" /\ file # "absent"
    /\ Readable /\ Len(trace) <= action_budget
    /\ rt' = [at |-> "ready", history |-> [n \in 1..(Len(trace) + 1) |-> FrameAt(trace, n - 1)],
              fatal |-> FALSE, boundary |-> FALSE]
    /\ host' = "playing"
    /\ UNCHANGED <<trace, file, loop, sup, game, saved, crashes>>

Frame == rt.history[Len(rt.history)]
action_count == Len(rt.history) - 1

\* play, up to the engine's answer.  Refused actions change nothing.
Step(a) ==
    /\ rt.at = "ready"
    /\ ~rt.fatal /\ ~rt.boundary
    /\ Frame.status # "WIN"
    /\ action_count < action_budget
    /\ a \in Legal(Frame)
    /\ rt' = [at |-> "stepped", history |-> Append(rt.history, Apply(Frame, a)),
              fatal |-> FALSE, boundary |-> FALSE, action |-> a]
    /\ UNCHANGED <<trace, file, host, loop, sup, game, saved, crashes>>

Answered(isFatal, atBoundary) ==
    rt' = [at |-> "ready", history |-> rt.history, fatal |-> isFatal, boundary |-> atBoundary]

\* The engine raised, having stepped or not.
StepFails ==
    /\ rt.at = "ready"
    /\ ~rt.fatal /\ ~rt.boundary
    /\ Legal(Frame) # {} /\ action_count < action_budget
    /\ Answered(TRUE, FALSE)
    /\ UNCHANGED <<trace, file, host, loop, sup, game, saved, crashes>>

Prior == rt.history[Len(rt.history) - 1]
Played == [action |-> rt.action, frame |-> Frame]

\* The record is durable; a completed level ends the episode.
Commit ==
    /\ rt.at = "stepped"
    /\ trace' = Append(trace, Played)
    /\ Answered(FALSE, Frame.levels > Prior.levels)
    /\ UNCHANGED <<file, host, loop, sup, game, saved, crashes>>

\* Mutant of CommitFails: the error is reported and play goes on.
CommitFailsGoingOn ==
    /\ rt.at = "stepped"
    /\ Landed(Played)
    /\ Answered(FALSE, FALSE)
    /\ UNCHANGED <<host, loop, sup, game, saved, crashes>>

\* The append raised: the engine is ahead of the evidence and stays unusable.
CommitFails ==
    /\ rt.at = "stepped"
    /\ Landed(Played)
    /\ Answered(TRUE, FALSE)
    /\ UNCHANGED <<host, loop, sup, game, saved, crashes>>

-----------------------------------------------------------------------------
\* runtime/supervisor.py

\* The counters after one transition; death paths are told apart by the records they end
\* in, and a record's hash covers everything before it.
Counted(s, n, progress, evidence) ==
    LET unchanged == FrameAt(trace, n).cell = FrameAt(trace, n - 1).cell
        death == FrameAt(trace, n).status = "GAME_OVER"
        sameDeath == death /\ s.signature = n
    IN [s EXCEPT
            !.shown = Append(@, n),
            !.sinceProgress = IF progress THEN 0 ELSE @ + 1,
            !.sinceEvidence = IF evidence THEN 0 ELSE @ + 1,
            !.plateauFired = @ /\ ~progress /\ ~evidence,
            !.noChange = IF unchanged THEN @ + 1 ELSE 0,
            !.noChangeFired = @ /\ unchanged,
            !.signature = IF death THEN n ELSE @,
            !.deaths = IF sameDeath THEN @ + 1 ELSE IF death THEN 1 ELSE @,
            !.deathFired = @ /\ (death => sameDeath)]

\* record_transition: at most one redirect, the first that is due and has not fired.
RecordTransition(s, n, evidence) ==
    LET c == Counted(s, n, FrameAt(trace, n).levels > FrameAt(trace, n - 1).levels, evidence) IN
    IF c.noChange >= NoChange /\ ~c.noChangeFired
    THEN [supervisor |-> [c EXCEPT !.noChangeFired = TRUE], redirect |-> "NO_STATE_CHANGE"]
    ELSE IF c.deaths >= Deaths /\ ~c.deathFired
    THEN [supervisor |-> [c EXCEPT !.deathFired = TRUE], redirect |-> "REPEATED_DEATH"]
    ELSE IF c.sinceProgress >= Plateau /\ c.sinceEvidence >= EvidencePlateau /\ ~c.plateauFired
    THEN [supervisor |-> [c EXCEPT !.plateauFired = TRUE], redirect |-> "PROGRESS_PLATEAU"]
    ELSE [supervisor |-> c, redirect |-> NoRedirect]

\* _observe_supervisor: `redirect or record_transition(...)' shows no transition after the
\* one that redirects.
Observed(s, start, verified) ==
    LET after[i \in 0..(Len(trace) - start)] ==
            IF i = 0 THEN [supervisor |-> s, redirect |-> NoRedirect]
            ELSE LET acc == after[i - 1] IN
                 IF acc.redirect # NoRedirect THEN acc
                 ELSE RecordTransition(acc.supervisor, start + i, verified /\ i = 1)
    IN  after[Len(trace) - start]

\* record_episode
RecordEpisode(s, count) ==
    LET zero == IF count = 0 THEN s.zero + 1 ELSE 0
        fired == s.zeroFired /\ count = 0
        due == zero >= ZeroEpisodes /\ ~fired
    IN [supervisor |-> [s EXCEPT !.zero = zero, !.zeroFired = fired \/ due],
        redirect |-> IF due THEN "ZERO_ACTION_EPISODES" ELSE NoRedirect]

-----------------------------------------------------------------------------
\* campaign_runner.py

\* The host process starts, or starts again from its checkpoint.
Resume ==
    /\ host = "down"
    /\ ~game.banked
    /\ host' = "attempt"
    /\ UNCHANGED <<trace, file, rt, loop, sup, game, saved, crashes>>

\* _reconcile_trace_state: the trace is authoritative.
Reconciled(g) == [g EXCEPT !.actions = Len(trace), !.levels = Levels(trace)]

Won == Len(trace) > 0 /\ Current.status = "WIN"
Progress == [n \in DOMAIN trace |-> trace[n].frame.levels]
Score == score_game(actions_per_completed_level(Progress))

\* _bank_if_complete and the checkpoint before it: a win worth 100 ends the game, another one
\* the attempt.
Disposition(g, otherwise) ==
    /\ IF Won /\ Score = Perfect
       THEN host' = "down" /\ game' = [g EXCEPT !.banked = TRUE]
       ELSE host' = (IF Won THEN "over" ELSE otherwise) /\ game' = g
    /\ saved' = game'

\* The top of the attempt: its supervisor is the checkpoint's, and completed episodes are
\* not played again.
BeginAttempt ==
    /\ host = "attempt"
    /\ game.attempt <= Attempts
    /\ Readable
    /\ sup' = game.supervisor
    /\ loop' = [loop EXCEPT !.left = Episodes - game.episodes]
    /\ Disposition(Reconciled(game), "episode")
    /\ UNCHANGED <<trace, file, rt, crashes>>

BeginEpisode ==
    /\ host = "episode"
    /\ Readable
    /\ IF loop.left > 0
       THEN /\ host' = "opening"
            /\ loop' = [left |-> loop.left - 1, actions |-> Len(trace), levels |-> Levels(trace)]
            /\ game' = Reconciled(game) /\ saved' = Reconciled(game)
       ELSE host' = "over" /\ UNCHANGED <<loop, game, saved>>
    /\ UNCHANGED <<trace, file, rt, sup, crashes>>

\* The model ends its turn, and play() of the driver closes the runtime.
EndEpisode ==
    /\ rt.at = "ready"
    /\ rt' = NoRuntime
    /\ host' = "ended"
    /\ UNCHANGED <<trace, file, loop, sup, game, saved, crashes>>

\* A BackendError: what was played stays, the supervisor is not shown it.
EpisodeFails ==
    /\ rt.at = "ready"
    /\ Readable
    /\ rt' = NoRuntime
    /\ LET failed == Reconciled([game EXCEPT !.errors = @ + 1]) IN
       Disposition(failed, IF failed.errors >= MaxErrors THEN "over" ELSE "episode")
    /\ UNCHANGED <<trace, file, loop, sup, crashes>>

\* After a completed turn: the supervisor sees the episode's transitions, and a redirect
\* waits for the next prompt.  Verified memory may have grown, in any lane.
Observe ==
    /\ host = "ended"
    /\ Readable
    /\ \E verified \in BOOLEAN :
          LET delta == Len(trace) - loop.actions
              seen == IF file = "absent" THEN [supervisor |-> sup, redirect |-> NoRedirect]
                      ELSE Observed(sup, loop.actions, verified)
              closed == RecordEpisode(seen.supervisor, delta)
          IN /\ sup' = closed.supervisor
             /\ game' = [Reconciled(game) EXCEPT
                            !.episodes = @ + 1, !.errors = 0,
                            !.idle = IF delta = 0 THEN @ + 1 ELSE 0,
                            !.supervisor = closed.supervisor,
                            !.redirect = IF seen.redirect # NoRedirect THEN seen.redirect
                                         ELSE closed.redirect]
    /\ host' = "observed"
    /\ UNCHANGED <<trace, file, rt, loop, saved, crashes>>

\* The checkpoint of a completed episode, and what follows from the trace.
SaveEpisode ==
    /\ host = "observed"
    /\ Disposition(game, IF game.idle >= MaxIdle THEN "over" ELSE "episode")
    /\ UNCHANGED <<trace, file, rt, loop, sup, crashes>>

\* Mutant of AdvanceAttempt: the next attempt inherits the counters.
AdvanceAttemptWatched ==
    /\ host = "over"
    /\ game' = [FreshGame(game.attempt + 1) EXCEPT !.supervisor = game.supervisor]
    /\ saved' = game'
    /\ trace' = <<>> /\ file' = "absent"
    /\ host' = "attempt"
    /\ UNCHANGED <<rt, loop, sup, crashes>>

\* _advance_attempt: another directory, another trace.
AdvanceAttempt ==
    /\ host = "over"
    /\ game' = FreshGame(game.attempt + 1)
    /\ saved' = game'
    /\ trace' = <<>> /\ file' = "absent"
    /\ host' = "attempt"
    /\ UNCHANGED <<rt, loop, sup, crashes>>

\* A trace that load_trace refuses ends the command, and the next one.
Refuse ==
    /\ \/ host \in {"attempt", "episode", "opening", "ended"}
       \/ host = "playing" /\ rt.at = "ready"
    /\ ~Readable
    /\ Exit
    /\ UNCHANGED <<trace, file, loop, saved, crashes>>

Crash ==
    /\ host # "down"
    /\ IF rt.at = "stepped" THEN Landed(Played) ELSE UNCHANGED <<trace, file>>
    /\ Die
    /\ UNCHANGED <<loop, saved>>

Next ==
    \/ Resume \/ BeginAttempt \/ BeginEpisode \/ Open \/ Reopen
    \/ \E a \in Actions : Step(a)
    \/ StepFails \/ Commit \/ CommitFails
    \/ EndEpisode \/ EpisodeFails \/ Observe \/ SaveEpisode \/ AdvanceAttempt
    \/ Refuse \/ Crash

Spec == Init /\ [][Next]_vars

-----------------------------------------------------------------------------
PlayTypeOK ==
    /\ trace \in Seq([action : Actions, frame : Frames])
    /\ file \in {"absent", "whole", "torn"}
    /\ rt.at \in {"none", "ready", "stepped"}
    /\ host \in {"down", "attempt", "episode", "opening", "playing", "ended", "observed", "over"}
    /\ (host = "playing") <=> (rt.at # "none")
    /\ loop \in [left : 0..Episodes, actions : Nat, levels : Nat]
    /\ game.attempt \in 1..(Attempts + 1) /\ game.episodes \in 0..Episodes

\* The durable trace is what a fresh game plays, action by action (trace.py:382 says so of
\* what it accepts): legal actions only, no more than the private budget, nothing after a win.
TraceIsPlayed ==
    /\ PlayTypeOK
    /\ Replays(trace)
    /\ Len(trace) <= action_budget
    /\ \A n \in DOMAIN trace : trace[n].frame.status = "WIN" => n = Len(trace)

\* A runtime that will take another action has recorded all the earlier ones, on a whole
\* file; after a failed record or step it plays no more (tools.py:394 and 427).
PlayableIsDurable ==
    rt.at # "none" /\ ~rt.fatal =>
        LET recorded == [n \in 1..(Len(trace) + 1) |-> FrameAt(trace, n - 1)] IN
        /\ file = "whole"
        /\ rt.at = "ready" => rt.history = recorded
        /\ rt.at = "stepped" => rt.history = Append(recorded, Frame)

\* The score rests on actions that were played: the completed levels of the trace are
\* charged exactly the actions up to the last completion, and the 100 that makes a game
\* qualify needs a win in which every level took actions of its own.
ScoreIsEarned ==
    LET charged == actions_per_completed_level(Progress)
        completing == {n \in DOMAIN trace :
                          trace[n].frame.levels > FrameAt(trace, n - 1).levels}
    IN /\ Len(charged) = Levels(trace)
       /\ completing = {} => charged = <<>>
       /\ completing # {} => /\ Total(charged) \in completing
                             /\ \A n \in completing : n <= Total(charged)
       /\ Score <= Perfect
       /\ Score = Perfect => Won /\ \A level \in DOMAIN charged : charged[level] > 0

Trailing(P(_)) ==
    LET stops == {n \in DOMAIN trace : ~P(n)} IN
    Cardinality({n \in DOMAIN trace : \A m \in stops : m < n})

Unmoved(n) == trace[n].frame.cell = FrameAt(trace, n - 1).cell
Unadvanced(n) == trace[n].frame.levels = FrameAt(trace, n - 1).levels

\* A supervisor is shown a transition of this attempt's trace once and in order, through
\* failed episodes, crashes and new attempts; while it was shown them all, the stalls it
\* counts are those of the trace.
SupervisorIsCurrent ==
    LET s == game.supervisor IN
    /\ \A i \in DOMAIN s.shown : s.shown[i] \in DOMAIN trace
    /\ \A i, j \in DOMAIN s.shown : i < j => s.shown[i] < s.shown[j]
    /\ Len(s.shown) = Len(trace) =>
          /\ s.noChange = Trailing(Unmoved)
          /\ s.sinceProgress = Trailing(Unadvanced)
=============================================================================
