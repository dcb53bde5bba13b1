----------------------------- MODULE Submission -----------------------------
(***************************************************************************)
(* One run on its way to an official scorecard: cli.py's compete,          *)
(* validate, report and the end of a campaign, validation.py, reporting.py *)
(* and arc/official.py.                                                    *)
(*                                                                         *)
(* Commands take turns, for each holds the lease of the run to its end or  *)
(* to the death of its process (RunLease, RunStore).  The service keeps    *)
(* its scorecards whatever happens here; the world (the repository, the    *)
(* prompt bundle, the game cache) changes under the feet of any command.   *)
(***************************************************************************)
EXTENDS Integers, Sequences, FiniteSets

CONSTANTS
    Games,          \* the public roster
    NoCard,         \* Python's None, for a scorecard id
    MaxCommands     \* bound: commands that are started

ASSUME SubmissionAssumption ==
    /\ Games # {} /\ IsFiniteSet(Games)
    /\ NoCard \notin Nat
    /\ MaxCommands \in Nat

VARIABLES
    bank,       \* the selected trace of every game, by what it is worth
    cold,       \* a cold run
    clean,      \* no contamination, by its lane, its bundle or its charges
    sealed,     \* the run has become a parent
    pinned,     \* the world agrees with the manifest, the games with their traces
    claim,      \* <mode>-submission.claim.json
    artifact,   \* <mode>-submission.json
    events,     \* the submission's events in the run's chain
    report,     \* the last report: printed, and kept as report.json by a run without a seal
    cards,      \* the service's scorecards, in the order they were opened
    proc,       \* the command that holds the lease
    started     \* commands started so far

durable == <<claim, artifact, events, report>>
run == <<bank, cold, clean, sealed>>
vars == <<run, pinned, durable, cards, proc, started>>

Modes == {"dry-run", "competition"}

\* A game without a winning trace, with one, and with one worth 100 RHAE.
Unsolved == 0
Win == 1
Perfect == 2
Banks == [Games -> {Unsolved, Win, Perfect}]

Complete(b) == \A g \in Games : b[g] # Unsolved
AllPerfect(b) == \A g \in Games : b[g] = Perfect

NoClaim == [status |-> "none"]
NoArtifact == [card |-> NoCard]
NoReport == [status |-> "none"]
NoCommand == [at |-> "idle"]
NoSubmission == "none"

Init ==
    /\ bank = [g \in Games |-> Unsolved]
    /\ cold \in BOOLEAN /\ clean \in BOOLEAN
    /\ sealed = FALSE
    /\ pinned = TRUE
    /\ claim = [m \in Modes |-> NoClaim]
    /\ artifact = [m \in Modes |-> NoArtifact]
    /\ events = {}
    /\ report = NoReport
    /\ cards = <<>>
    /\ proc = NoCommand
    /\ started = 0

Goto(place) == proc' = [proc EXCEPT !.at = place]
Stop == proc' = NoCommand
Claim(m, c) == claim' = [claim EXCEPT ![m] = c]
Record(kind, m, a) == events' = events \cup {[kind |-> kind, mode |-> m, artifact |-> a]}

-----------------------------------------------------------------------------
\* The world and the peers of this run.

\* Somebody edits the repository, the bundle or the cache, or puts it back.
WorldMoves ==
    /\ pinned' = ~pinned
    /\ UNCHANGED <<run, durable, cards, proc, started>>

Start(command) ==
    /\ proc = NoCommand
    /\ started < MaxCommands
    /\ started' = started + 1
    /\ proc' = command

\* _integrity_comparison finds no error.
Intact == pinned

\* A resumed campaign, once its preflight has passed, improves the bank and may meet an
\* ambiguous charge; then it reports.
StartCampaign ==
    /\ ~sealed
    /\ Intact
    /\ Start([at |-> "campaign"])
    /\ UNCHANGED <<run, pinned, durable, cards>>

Improve ==
    /\ proc.at = "campaign"
    /\ \E g \in Games, value \in {Win, Perfect} :
          /\ value > bank[g]
          /\ bank' = [bank EXCEPT ![g] = value]
    /\ clean' \in {clean, FALSE}
    /\ UNCHANGED <<cold, sealed, pinned, durable, cards, proc, started>>

EndCampaign ==
    /\ proc.at = "campaign"
    /\ proc' = [at |-> "validate", job |-> "report"]
    /\ UNCHANGED <<run, pinned, durable, cards, started>>

StartReport ==
    /\ Start([at |-> "validate", job |-> "report"])
    /\ UNCHANGED <<run, pinned, durable, cards>>

\* create_warm seals the run.
BecomeParent ==
    /\ proc = NoCommand
    /\ sealed' = TRUE
    /\ UNCHANGED <<bank, cold, clean, pinned, durable, cards, proc, started>>

\* A sealed run, a pending claim and a finished submission are refused.
StartCompete(m) ==
    /\ ~sealed
    /\ artifact[m] = NoArtifact /\ claim[m] = NoClaim
    /\ Start([at |-> "validate", job |-> "compete", mode |-> m])
    /\ UNCHANGED <<run, pinned, durable, cards>>

-----------------------------------------------------------------------------
\* _validate_and_build_report

\* Mutant of Presented: the artifact is not compared with the bank.
PresentedAsStored(m) ==
    /\ claim[m].status = "completed" /\ claim[m].artifact = artifact[m]
    /\ [kind |-> "completed", mode |-> m, artifact |-> artifact[m]] \in events

\* _read_submission: the artifact of a mode is the run's own, its claim is completed and
\* the chain names it.
Presented(m) ==
    /\ artifact[m].replays = bank
    /\ claim[m].status = "completed" /\ claim[m].artifact = artifact[m]
    /\ [kind |-> "completed", mode |-> m, artifact |-> artifact[m]] \in events

\* The competition artifact is looked for first; one that does not hold is an error.
Submitted ==
    IF artifact["competition"] # NoArtifact THEN "competition"
    ELSE IF artifact["dry-run"] # NoArtifact THEN "dry-run"
    ELSE NoSubmission

SubmissionReads == Submitted # NoSubmission => Presented(Submitted)

\* A drift of the world is an error of every validation; an unsolved game is none, but
\* leaves the run incomplete.
Valid == Intact /\ Complete(bank)
Eligible == Valid /\ AllPerfect(bank) /\ clean /\ cold

\* _status
Status(submission) ==
    IF ~Intact THEN "invalid"
    ELSE IF ~clean THEN "contaminated"
    ELSE IF submission # NoSubmission THEN submission
    ELSE IF Complete(bank) THEN "locally-validated"
    ELSE "in-progress"

\* build_run_report with the summary of a scorecard that is named after its mode.
ReportOf(submission) ==
    [status |-> Status(submission), bank |-> bank, submission |-> submission,
     accepted |-> submission = "competition" /\ AllPerfect(artifact["competition"].replays)]

\* A validation inside compete gates it.
Validate ==
    /\ proc.at = "validate"
    /\ IF SubmissionReads
       THEN /\ report' = ReportOf(Submitted)
            /\ IF proc.job = "report" THEN Stop
               ELSE IF proc.mode = "competition" /\ Eligible THEN Goto("confirm")
               ELSE IF proc.mode = "dry-run" /\ Valid THEN Goto("claim")
               ELSE Stop
       ELSE Stop /\ UNCHANGED report
    /\ UNCHANGED <<run, pinned, claim, artifact, events, cards, started>>

\* Anything but YES on the controlling terminal ends the command.
Confirm ==
    /\ proc.at = "confirm"
    /\ Goto("claim") \/ Stop
    /\ UNCHANGED <<run, pinned, durable, cards, started>>

-----------------------------------------------------------------------------
\* The claim, and the scorecard under it.

\* Mutant of WriteClaim: the scorecard is asked for before the chain has the claim.
WriteClaimUnannounced ==
    /\ proc.at = "claim"
    /\ Claim(proc.mode, [status |-> "claimed", card |-> NoCard, roster |-> bank,
                          artifact |-> NoArtifact])
    /\ proc' = [at |-> "preflight", mode |-> proc.mode, roster |-> bank, card |-> NoCard,
                played |-> {}, ended |-> "no"]
    /\ UNCHANGED <<run, pinned, artifact, events, report, cards, started>>

\* Exclusive creation; from here on an exception is recorded.
WriteClaim ==
    /\ proc.at = "claim"
    /\ Claim(proc.mode, [status |-> "claimed", card |-> NoCard, roster |-> bank,
                          artifact |-> NoArtifact])
    /\ proc' = [at |-> "announce", mode |-> proc.mode, roster |-> bank, card |-> NoCard,
                played |-> {}, ended |-> "no"]
    /\ UNCHANGED <<run, pinned, artifact, events, report, cards, started>>

AppendClaimed ==
    /\ proc.at = "announce"
    /\ Record("claimed", proc.mode, NoArtifact)
    /\ Goto("preflight")
    /\ UNCHANGED <<run, pinned, claim, artifact, report, cards, started>>

\* Mutant of Raise: a failure between opening and closing goes straight to the handler.
RaiseUnclosed(how) ==
    proc' = [proc EXCEPT !.ended = how, !.at = "fail"]

\* A failure is followed by the close whenever the id of a scorecard is known.
Raise(how) ==
    proc' = [proc EXCEPT !.ended = how, !.at = IF proc.card = NoCard THEN "fail" ELSE "close"]

\* Every trace is replayed once more on local games; StepFails if one does not win.
Preflight ==
    /\ proc.at = "preflight"
    /\ Goto("open")
    /\ UNCHANGED <<run, pinned, durable, cards, started>>

\* The service opens a scorecard and its answer arrives or is lost; StepFails if it opens
\* none.
OpenCard ==
    /\ proc.at = "open"
    /\ cards' = Append(cards, [mode |-> proc.mode, state |-> "open", played |-> {},
                               bank |-> bank])
    /\ \/ proc' = [proc EXCEPT !.at = "record", !.card = Len(cards')]
       \/ Raise("error")
    /\ UNCHANGED <<run, pinned, durable, started>>

\* record_opened
RecordOpened ==
    /\ proc.at = "record"
    /\ Claim(proc.mode, [claim[proc.mode] EXCEPT !.status = "opened", !.card = proc.card])
    /\ Goto("opened")
    /\ UNCHANGED <<run, pinned, artifact, events, report, cards, started>>

AppendOpened ==
    /\ proc.at = "opened"
    /\ Record("opened", proc.mode, NoArtifact)
    /\ Goto("replay")
    /\ UNCHANGED <<run, pinned, claim, artifact, report, cards, started>>

\* One game after the other; StepFails if a replay leaves its trace or ends without WIN.
ReplayGame ==
    /\ proc.at = "replay"
    /\ \E g \in Games \ proc.played :
          /\ cards' = [cards EXCEPT ![proc.card].played = @ \cup {g}]
          /\ proc' = [proc EXCEPT !.played = @ \cup {g}]
    /\ UNCHANGED <<run, pinned, durable, started>>

Replayed ==
    /\ proc.at = "replay"
    /\ proc.played = Games
    /\ Goto("close")
    /\ UNCHANGED <<run, pinned, durable, cards, started>>

\* The close raises, done or not, or returns an answer that _validate_official_response
\* accepts or refuses.  An interrupted command has a handler to run only if the close
\* raised: that exception replaces the interrupt.
AfterClose(outcome) ==
    IF outcome = "raises" \/ proc.ended = "error" \/ (outcome = "refused" /\ proc.ended = "no")
    THEN proc' = [proc EXCEPT !.ended = "error", !.at = "fail"]
    ELSE IF proc.ended = "interrupt" THEN Stop ELSE Goto("artifact")

CloseCard ==
    /\ proc.at = "close"
    /\ \E state \in {"closed", "unclosed"}, outcome \in {"raises", "refused", "accepted"} :
          /\ outcome = "accepted" => state = "closed"
          /\ cards' = [cards EXCEPT ![proc.card].state = state]
          /\ AfterClose(outcome)
    /\ UNCHANGED <<run, pinned, durable, started>>

-----------------------------------------------------------------------------
\* The outcome.

Summary == [card |-> proc.card, replays |-> proc.roster]

WriteArtifact ==
    /\ proc.at = "artifact"
    /\ artifact' = [artifact EXCEPT ![proc.mode] = Summary]
    /\ Goto("anchor")
    /\ UNCHANGED <<run, pinned, claim, events, report, cards, started>>

AppendCompleted ==
    /\ proc.at = "anchor"
    /\ Record("completed", proc.mode, Summary)
    /\ Goto("complete")
    /\ UNCHANGED <<run, pinned, claim, artifact, report, cards, started>>

CompleteClaim ==
    /\ proc.at = "complete"
    /\ Claim(proc.mode, [claim[proc.mode] EXCEPT !.status = "completed", !.artifact = Summary])
    /\ Goto("final")
    /\ UNCHANGED <<run, pinned, artifact, events, report, cards, started>>

\* The report is built with the summary at hand.
FinalReport ==
    /\ proc.at = "final"
    /\ report' = ReportOf(proc.mode)
    /\ Stop
    /\ UNCHANGED <<run, pinned, claim, artifact, events, cards, started>>

\* Mutant of RecordFailure: the claim is withdrawn, so that the submission can be retried.
RecordFailureWithdrawing ==
    /\ proc.at = "fail"
    /\ claim' \in {claim, [claim EXCEPT ![proc.mode] = NoClaim]}
    /\ \/ Record("failed", proc.mode, NoArtifact)
       \/ UNCHANGED events
    /\ Stop
    /\ UNCHANGED <<run, pinned, artifact, report, cards, started>>

\* Each of the two records may fail in its turn and is then left out.  The claim in memory
\* knows the id of the scorecard even if writing it down is what failed.
RecordFailure ==
    /\ proc.at = "fail"
    /\ claim' \in {claim, [claim EXCEPT ![proc.mode] =
                          [@ EXCEPT !.status = "failed", !.card = proc.card]]}
    /\ \/ Record("failed", proc.mode, NoArtifact)
       \/ UNCHANGED events
    /\ Stop
    /\ UNCHANGED <<run, pinned, artifact, report, cards, started>>

Guarded == {"announce", "preflight", "open", "record", "opened", "replay", "artifact",
            "anchor", "complete"}
BeforeClose == {"record", "opened", "replay"}

\* A write or an append of the guarded part raises.
StepFails ==
    /\ proc.at \in Guarded
    /\ IF proc.at \in BeforeClose THEN Raise("error")
       ELSE proc' = [proc EXCEPT !.ended = "error", !.at = "fail"]
    /\ UNCHANGED <<run, pinned, durable, cards, started>>

\* Control-C runs the finally clause and no handler.
Interrupted ==
    /\ proc.at \in BeforeClose
    /\ Raise("interrupt")
    /\ UNCHANGED <<run, pinned, durable, cards, started>>

\* The process dies, or fails before it has claimed anything.  A claim cut short is a file
\* all the same.
Crash ==
    /\ proc # NoCommand
    /\ claim' \in {claim} \cup
          (IF proc.at = "claim" THEN {[claim EXCEPT ![proc.mode] = [status |-> "torn"]]} ELSE {})
    /\ Stop
    /\ UNCHANGED <<run, pinned, artifact, events, report, cards, started>>

Next ==
    \/ WorldMoves \/ StartCampaign \/ Improve \/ EndCampaign \/ StartReport \/ BecomeParent
    \/ \E m \in Modes : StartCompete(m)
    \/ Validate \/ Confirm \/ WriteClaim \/ AppendClaimed \/ Preflight \/ OpenCard
    \/ RecordOpened \/ AppendOpened \/ ReplayGame \/ Replayed \/ CloseCard
    \/ WriteArtifact \/ AppendCompleted \/ CompleteClaim \/ FinalReport
    \/ RecordFailure \/ StepFails \/ Interrupted \/ Crash

Spec == Init /\ [][Next]_vars
-----------------------------------------------------------------------------
Statuses == {"none", "torn", "claimed", "opened", "failed", "completed"}
CardStates == {"open", "closed", "unclosed"}

SubmissionTypeOK ==
    /\ bank \in Banks
    /\ {cold, clean, sealed, pinned} \subseteq BOOLEAN
    /\ \A m \in Modes : /\ claim[m].status \in Statuses
                        /\ artifact[m].card \in DOMAIN cards \cup {NoCard}
    /\ \A i \in DOMAIN cards : /\ cards[i].mode \in Modes /\ cards[i].state \in CardStates
                              /\ cards[i].played \subseteq Games /\ cards[i].bank \in Banks
    /\ started \in 0..MaxCommands

CardsOf(m) == {i \in DOMAIN cards : cards[i].mode = m}

\* However many commands are started, interrupted or killed, and whether or not the
\* service's answer arrived, a run opens at most one scorecard of a mode.
OneCardPerMode == \A m \in Modes : Cardinality(CardsOf(m)) <= 1

\* Before the service knows of a scorecard the run durably does: the claim is on disk and
\* in the chain, it names the bank as it is replayed, and that bank is complete - for a
\* competition, perfect and eligible.
CardsAreClaimed ==
    \A i \in DOMAIN cards :
        LET m == cards[i].mode IN
        /\ claim[m].status \notin {"none", "torn"}
        /\ claim[m].roster = cards[i].bank
        /\ [kind |-> "claimed", mode |-> m, artifact |-> NoArtifact] \in events
        /\ Complete(cards[i].bank)
        /\ m = "competition" => cold /\ AllPerfect(cards[i].bank)

\* What a claim says survives to tell the operator the truth about the scorecard: the one
\* it names exists; a claim that failed or completed asked for its close; a completed one
\* closed it with every game played and left an anchored artifact.
ClaimTellsTheCard ==
    /\ SubmissionTypeOK
    /\ \A m \in Modes :
          /\ claim[m].status \in {"opened", "failed", "completed"} /\ claim[m].card # NoCard =>
                /\ claim[m].card \in CardsOf(m)
                /\ claim[m].status # "opened" => cards[claim[m].card].state # "open"
          /\ claim[m].status = "opened" => claim[m].card # NoCard
          /\ claim[m].status = "completed" =>
                /\ cards[claim[m].card].state = "closed" /\ cards[claim[m].card].played = Games
                /\ artifact[m] = [card |-> claim[m].card, replays |-> claim[m].roster]
                /\ [kind |-> "completed", mode |-> m, artifact |-> artifact[m]] \in events

\* A report never presents a scorecard that is not closed, did not replay every game, or
\* replayed another bank than the report's own, and accepts none but a perfect competition.
ReportedIsSubmitted ==
    report # NoReport /\ report.submission # NoSubmission =>
        /\ \E i \in CardsOf(report.submission) :
              cards[i].state = "closed" /\ cards[i].played = Games /\ cards[i].bank = report.bank
        /\ report.accepted => report.submission = "competition" /\ AllPerfect(report.bank)
=============================================================================
