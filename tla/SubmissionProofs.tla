-------------------------- MODULE SubmissionProofs --------------------------
(***************************************************************************)
(* Proofs about a run's way to an official scorecard, for every roster of   *)
(* games and every number of commands.                                     *)
(*                                                                         *)
(* The inductive invariant follows the claim: what the run knows of a mode *)
(* from the claim on disk (ModeTold), and what the command that holds the  *)
(* lease knows at the place it has reached (AskingTold, HoldingTold).      *)
(***************************************************************************)
EXTENDS Submission, FiniteSetTheorems, SequenceTheorems, TLAPS

-----------------------------------------------------------------------------
\* The inductive invariant.

CardRecords ==
    [mode : Modes, state : CardStates, played : SUBSET Games, bank : Banks]
Summaries == [card : Nat, replays : Banks]
Torn == [status |-> "torn"]
ClaimRecords ==
    [status : {"claimed", "opened", "failed", "completed"}, card : Nat \cup {NoCard},
     roster : Banks, artifact : Summaries \cup {NoArtifact}]

\* A compete command before its claim, and from then on.
Asking == [at : {"validate", "confirm", "claim"}, job : {"compete"}, mode : Modes]
Before == {"announce", "preflight", "open"}
Closed == {"artifact", "anchor", "complete", "final"}
HoldPlaces == Before \cup BeforeClose \cup Closed \cup {"close", "fail"}
Holding ==
    [at : HoldPlaces, mode : Modes, roster : Banks,
     card : Nat \cup {NoCard}, played : SUBSET Games, ended : {"no", "error", "interrupt"}]
Campaigning == [at |-> "campaign"]
Reporting == [at |-> "validate", job |-> "report"]

Shapes ==
    /\ bank \in Banks
    /\ {cold, clean, sealed, pinned} \subseteq BOOLEAN
    /\ claim \in [Modes -> {NoClaim, Torn} \cup ClaimRecords]
    /\ artifact \in [Modes -> Summaries \cup {NoArtifact}]
    /\ cards \in Seq(CardRecords)
    /\ proc \in {NoCommand, Campaigning, Reporting} \cup Asking \cup Holding
    /\ started \in 0..MaxCommands

\* What is known of a mode from its claim.
ModeTold(m) ==
    /\ claim[m].status \in {"none", "torn"} => CardsOf(m) = {} /\ artifact[m] = NoArtifact
    /\ claim[m].status \in {"opened", "completed"} => claim[m].card # NoCard
    /\ claim[m].status \in {"opened", "failed", "completed"} /\ claim[m].card # NoCard =>
          /\ claim[m].card \in CardsOf(m)
          /\ claim[m].status # "opened" => cards[claim[m].card].state # "open"
    /\ claim[m].status = "completed" =>
          /\ cards[claim[m].card].state = "closed" /\ cards[claim[m].card].played = Games
          /\ artifact[m] = [card |-> claim[m].card, replays |-> claim[m].roster]
          /\ [kind |-> "completed", mode |-> m, artifact |-> artifact[m]] \in events
    /\ artifact[m].card \in DOMAIN cards \cup {NoCard}
    /\ \A i, j \in CardsOf(m) : i = j

\* What the claims of a mode have been granted for.
Granted(m, b) == Complete(b) /\ (m = "competition" => cold /\ AllPerfect(b))

AskingTold ==
    proc \in Asking =>
        /\ claim[proc.mode] = NoClaim
        /\ proc.at # "validate" => Granted(proc.mode, bank)

HoldingTold ==
    proc \in Holding =>
        LET m == proc.mode IN
        /\ claim[m] \in ClaimRecords /\ claim[m].roster = bank /\ proc.roster = bank
        /\ Granted(m, bank)
        /\ proc.at \in Before => CardsOf(m) = {} /\ proc.card = NoCard /\ proc.played = {}
        /\ proc.at \in Before \cup {"record"} => claim[m].status = "claimed"
        /\ proc.card # NoCard => proc.card \in CardsOf(m) /\ cards[proc.card].played = proc.played
        /\ proc.at \notin {"announce", "fail"} =>
              [kind |-> "claimed", mode |-> m, artifact |-> NoArtifact] \in events
        /\ proc.at \in BeforeClose \cup {"close"} =>
              proc.card # NoCard /\ cards[proc.card].state = "open"
        /\ proc.at \in Before \cup BeforeClose => proc.ended = "no"
        /\ proc.at = "close" /\ proc.ended = "no" =>
              proc.played = Games /\ claim[m].status = "opened"
        /\ proc.at \in {"opened", "replay"} \cup (Closed \ {"final"}) =>
              claim[m].status = "opened" /\ claim[m].card = proc.card
        /\ proc.at \in Closed => 
              proc.card # NoCard /\ cards[proc.card].state = "closed" /\ proc.played = Games
        /\ proc.at \in Closed \ {"artifact"} => artifact[m] = Summary
        /\ proc.at \in {"complete", "final"} =>
              [kind |-> "completed", mode |-> m, artifact |-> Summary] \in events
        /\ proc.at = "final" => claim[m].status = "completed"
        /\ proc.at \in {"close", "fail"} => claim[m].status \in {"claimed", "opened"}
        /\ proc.at \in {"close", "fail"} /\ claim[m].status = "opened" => claim[m].card = proc.card
        /\ proc.at = "fail" /\ proc.card # NoCard => cards[proc.card].state # "open"


SubmissionInv ==
    /\ Shapes
    /\ \A m \in Modes : ModeTold(m)
    /\ CardsAreClaimed
    /\ AskingTold
    /\ HoldingTold
    /\ ReportedIsSubmitted

-----------------------------------------------------------------------------
\* The command.

\* Where a command is tells what it is.
LEMMA CommandAt ==
  ASSUME Shapes
  PROVE  /\ proc.at = "idle" => proc = NoCommand
         /\ proc.at = "campaign" => proc = Campaigning
         /\ proc.at = "validate" => proc = Reporting \/ proc \in Asking
         /\ proc.at \in {"confirm", "claim"} => proc \in Asking
         /\ proc.at \in HoldPlaces => proc \in Holding
         /\ proc \in Holding => proc.at \in HoldPlaces
BY DEF Shapes, NoCommand, Campaigning, Reporting, Asking, Holding, HoldPlaces, Before,
   BeforeClose, Closed

LEMMA HoldingFields ==
  ASSUME NEW p \in Holding
  PROVE  /\ p.at \in HoldPlaces /\ p.mode \in Modes /\ p.roster \in Banks
         /\ p.card \in Nat \cup {NoCard} /\ p.played \in SUBSET Games
         /\ p.ended \in {"no", "error", "interrupt"}
BY DEF Holding

LEMMA HoldingGoes ==
  ASSUME NEW p \in Holding, NEW place \in HoldPlaces
  PROVE  LET q == [p EXCEPT !.at = place] IN
         /\ q \in Holding /\ q.at = place /\ q.mode = p.mode /\ q.roster = p.roster
         /\ q.card = p.card /\ q.played = p.played /\ q.ended = p.ended
BY DEF Holding

LEMMA HoldingEnds ==
  ASSUME NEW p \in Holding, NEW place \in HoldPlaces, NEW how \in {"no", "error", "interrupt"}
  PROVE  LET q == [p EXCEPT !.ended = how, !.at = place] IN
         /\ q \in Holding /\ q.at = place /\ q.mode = p.mode /\ q.roster = p.roster
         /\ q.card = p.card /\ q.played = p.played /\ q.ended = how
BY DEF Holding

LEMMA HoldingOpens ==
  ASSUME NEW p \in Holding, NEW place \in HoldPlaces, NEW c \in Nat
  PROVE  LET q == [p EXCEPT !.at = place, !.card = c] IN
         /\ q \in Holding /\ q.at = place /\ q.mode = p.mode /\ q.roster = p.roster
         /\ q.card = c /\ q.played = p.played /\ q.ended = p.ended
BY DEF Holding

LEMMA HoldingPlays ==
  ASSUME NEW p \in Holding, NEW g \in Games
  PROVE  LET q == [p EXCEPT !.played = @ \cup {g}] IN
         /\ q \in Holding /\ q.at = p.at /\ q.mode = p.mode /\ q.roster = p.roster
         /\ q.card = p.card /\ q.played = p.played \cup {g} /\ q.ended = p.ended
BY DEF Holding

LEMMA AskingGoes ==
  ASSUME NEW p \in Asking, NEW place \in {"confirm", "claim"}
  PROVE  LET q == [p EXCEPT !.at = place] IN
         q \in Asking /\ q.at = place /\ q.mode = p.mode /\ q.job = "compete"
BY DEF Asking

\* The three kinds of command are distinct.
LEMMA CommandKinds ==
  /\ NoCommand \notin Holding /\ Campaigning \notin Holding /\ Reporting \notin Holding
  /\ NoCommand \notin Asking /\ Campaigning \notin Asking /\ Reporting \notin Asking
  /\ Asking \cap Holding = {}
BY DEF NoCommand, Campaigning, Reporting, Asking, Holding, HoldPlaces, Before, BeforeClose, Closed

-----------------------------------------------------------------------------
\* Cards and claims.

LEMMA CardFields ==
  ASSUME Shapes, NEW i \in DOMAIN cards
  PROVE  /\ i \in Nat /\ i # NoCard
         /\ cards[i] \in CardRecords
         /\ cards[i].mode \in Modes /\ cards[i].state \in CardStates
         /\ cards[i].played \in SUBSET Games /\ cards[i].bank \in Banks
<1>1. i \in Nat /\ cards[i] \in CardRecords
  BY DEF Shapes
<1> QED
  BY <1>1, SubmissionAssumption DEF CardRecords

\* The service opens one more scorecard.
LEMMA CardAppended ==
  ASSUME Shapes, NEW c \in CardRecords, cards' = Append(cards, c)
  PROVE  /\ cards' \in Seq(CardRecords)
         /\ Len(cards') \in Nat /\ Len(cards') \notin DOMAIN cards
         /\ DOMAIN cards' = DOMAIN cards \cup {Len(cards')}
         /\ \A i \in DOMAIN cards : cards'[i] = cards[i]
         /\ cards'[Len(cards')] = c
<1>1. cards \in Seq(CardRecords) /\ Len(cards) \in Nat /\ DOMAIN cards = 1..Len(cards)
  BY DEF Shapes
<1>2. Len(cards') = Len(cards) + 1 /\ cards' \in Seq(CardRecords)
  BY <1>1
<1>3. DOMAIN cards' = 1..(Len(cards) + 1)
  BY <1>2, <1>1
<1>4. \A i \in 1..Len(cards) : cards'[i] = cards[i]
  BY <1>1
<1>5. cards'[Len(cards) + 1] = c
  BY <1>1
<1> QED
  BY <1>1, <1>2, <1>3, <1>4, <1>5

\* The service notes something on an open scorecard.
LEMMA CardChanged ==
  ASSUME Shapes, NEW k \in DOMAIN cards, NEW c \in CardRecords,
         cards' = [cards EXCEPT ![k] = c]
  PROVE  /\ cards' \in Seq(CardRecords)
         /\ DOMAIN cards' = DOMAIN cards
         /\ \A i \in DOMAIN cards : i # k => cards'[i] = cards[i]
         /\ cards'[k] = c
<1>1. cards \in Seq(CardRecords)
  BY DEF Shapes
<1> QED
  BY <1>1

LEMMA ClaimFields ==
  ASSUME NEW c \in ClaimRecords
  PROVE  /\ c.status \in {"claimed", "opened", "failed", "completed"}
         /\ c.card \in Nat \cup {NoCard} /\ c.roster \in Banks
         /\ c.artifact \in Summaries \cup {NoArtifact}
BY DEF ClaimRecords

LEMMA ClaimOpened ==
  ASSUME NEW c \in ClaimRecords, NEW k \in Nat \cup {NoCard}, NEW s \in {"opened", "failed"}
  PROVE  LET d == [c EXCEPT !.status = s, !.card = k] IN
         d \in ClaimRecords /\ d.status = s /\ d.card = k /\ d.roster = c.roster
BY DEF ClaimRecords

LEMMA ClaimCompleted ==
  ASSUME NEW c \in ClaimRecords, NEW a \in Summaries
  PROVE  LET d == [c EXCEPT !.status = "completed", !.artifact = a] IN
         /\ d \in ClaimRecords /\ d.status = "completed" /\ d.card = c.card
         /\ d.roster = c.roster /\ d.artifact = a
BY DEF ClaimRecords

\* A claim of a command is not the absence of one.
LEMMA ClaimKinds ==
  /\ NoClaim \notin ClaimRecords /\ Torn \notin ClaimRecords
  /\ NoClaim.status = "none" /\ Torn.status = "torn"
BY DEF NoClaim, Torn, ClaimRecords

LEMMA SummaryOf ==
  ASSUME proc \in Holding, proc.card # NoCard
  PROVE  Summary \in Summaries /\ Summary.card = proc.card /\ Summary.replays = proc.roster
         /\ Summary # NoArtifact
BY HoldingFields DEF Summary, Summaries, NoArtifact

-----------------------------------------------------------------------------
\* Steps that touch neither the run's records nor the service.

Durably == <<cold, claim, artifact, events, cards>>

LEMMA QuietTold ==
  ASSUME \A m \in Modes : ModeTold(m), CardsAreClaimed, UNCHANGED Durably
  PROVE  (\A m \in Modes : ModeTold(m)') /\ CardsAreClaimed'
<1>1. \A m \in Modes : CardsOf(m)' = CardsOf(m)
  BY DEF CardsOf, Durably
<1>2. \A m \in Modes : ModeTold(m)'
  BY <1>1 DEF ModeTold, Durably
<1>3. CardsAreClaimed'
  BY DEF CardsAreClaimed, Durably
<1> QED
  BY <1>2, <1>3

\* A report that was right stays right while closed scorecards are left alone.
LEMMA ReportKept ==
  ASSUME ReportedIsSubmitted, report' = report,
         \A i \in DOMAIN cards : cards[i].state = "closed" =>
            i \in DOMAIN cards' /\ cards'[i] = cards[i]
  PROVE  ReportedIsSubmitted'
<1> SUFFICES ASSUME report # NoReport, report.submission # NoSubmission
             PROVE  /\ \E i \in CardsOf(report.submission)' :
                          /\ cards'[i].state = "closed" /\ cards'[i].played = Games
                          /\ cards'[i].bank = report.bank
                    /\ report.accepted =>
                          report.submission = "competition" /\ AllPerfect(report.bank)
  BY DEF ReportedIsSubmitted, CardsOf
<1>1. PICK i \in CardsOf(report.submission) :
          cards[i].state = "closed" /\ cards[i].played = Games /\ cards[i].bank = report.bank
  BY DEF ReportedIsSubmitted
<1>2. i \in CardsOf(report.submission)' /\ cards'[i] = cards[i]
  BY <1>1 DEF CardsOf
<1> QED
  BY <1>1, <1>2 DEF ReportedIsSubmitted

\* A report about the run's bank that presents a closed and fully played scorecard of
\* that bank.
LEMMA ReportMade ==
  ASSUME NEW submission, report' = ReportOf(submission), UNCHANGED cards,
         submission # NoSubmission =>
            /\ \E i \in CardsOf(submission) :
                  cards[i].state = "closed" /\ cards[i].played = Games /\ cards[i].bank = bank
            /\ artifact[submission].replays = bank
  PROVE  ReportedIsSubmitted'
<1> DEFINE status == Status(submission)
<1>1. report' = [status |-> status, bank |-> bank, submission |-> submission,
        accepted |-> submission = "competition" /\ AllPerfect(artifact["competition"].replays)]
  BY DEF ReportOf
<1> HIDE DEF status
<1>2. /\ report'.submission = submission /\ report'.bank = bank
      /\ report'.accepted =
            (submission = "competition" /\ AllPerfect(artifact["competition"].replays))
  BY <1>1
<1> SUFFICES ASSUME submission # NoSubmission
             PROVE  /\ \E i \in CardsOf(submission)' :
                          /\ cards'[i].state = "closed" /\ cards'[i].played = Games
                          /\ cards'[i].bank = bank
                    /\ report'.accepted => submission = "competition" /\ AllPerfect(bank)
  BY <1>2 DEF ReportedIsSubmitted, CardsOf, AllPerfect
<1> QED
  BY <1>2 DEF CardsOf

LEMMA PresentedIsPlayed ==
  ASSUME SubmissionInv, NEW m \in Modes, Presented(m)
  PROVE  /\ \E i \in CardsOf(m) :
               cards[i].state = "closed" /\ cards[i].played = Games /\ cards[i].bank = bank
         /\ artifact[m].replays = bank
<1>1. claim[m].status = "completed" /\ artifact[m].replays = bank
  BY DEF Presented
<1>2. ModeTold(m)
  BY DEF SubmissionInv
<1> DEFINE k == claim[m].card
<1>3. /\ k \in CardsOf(m) /\ cards[k].state = "closed" /\ cards[k].played = Games
      /\ artifact[m] = [card |-> k, replays |-> claim[m].roster]
  BY <1>1, <1>2 DEF ModeTold
<1>4. claim[m].roster = bank
  BY <1>1, <1>3
<1>5. cards[k].bank = claim[m].roster
  BY <1>3 DEF CardsOf, SubmissionInv, CardsAreClaimed
<1> QED
  BY <1>1, <1>3, <1>4, <1>5

LEMMA ValidateReports ==
  ASSUME SubmissionInv, Validate
  PROVE  ReportedIsSubmitted'
<1>1. UNCHANGED cards
  BY DEF Validate
<1>2. CASE SubmissionReads
  <2>1. report' = ReportOf(Submitted)
    BY <1>2 DEF Validate
  <2>2. Submitted # NoSubmission => Submitted \in Modes /\ Presented(Submitted)
    BY <1>2 DEF SubmissionReads, Submitted, Modes, NoSubmission
  <2> QED
    BY <1>1, <2>1, <2>2, PresentedIsPlayed, ReportMade
<1>3. CASE ~SubmissionReads
  BY <1>1, <1>3, ReportKept DEF Validate, SubmissionInv
<1> QED
  BY <1>2, <1>3

LEMMA FinalReports ==
  ASSUME SubmissionInv, FinalReport
  PROVE  ReportedIsSubmitted'
<1>1. proc.at = "final" /\ proc \in Holding /\ proc.mode \in Modes
  BY CommandAt, HoldingFields DEF FinalReport, SubmissionInv, HoldPlaces, Closed
<1>2. /\ proc.card \in CardsOf(proc.mode) /\ cards[proc.card].state = "closed"
      /\ cards[proc.card].played = Games
      /\ artifact[proc.mode] = Summary /\ proc.roster = bank
      /\ claim[proc.mode].roster = bank
  BY <1>1 DEF SubmissionInv, HoldingTold, Closed
<1>3. cards[proc.card].bank = bank
  BY <1>2 DEF SubmissionInv, CardsAreClaimed, CardsOf
<1>4. artifact[proc.mode].replays = bank
  BY <1>2 DEF Summary
<1> QED
  BY <1>2, <1>3, <1>4, ReportMade DEF FinalReport

-----------------------------------------------------------------------------
\* Commands that have claimed nothing yet, and the world around them.

Quiet ==
    \/ WorldMoves \/ StartCampaign \/ Improve \/ EndCampaign \/ StartReport \/ BecomeParent
    \/ (\E m \in Modes : StartCompete(m)) \/ Validate \/ Confirm

LEMMA QuietShapes ==
  ASSUME Shapes, Quiet
  PROVE  Shapes'
<1>1. UNCHANGED <<claim, artifact, cards>>
  BY DEF Quiet, WorldMoves, StartCampaign, Improve, EndCampaign, StartReport, BecomeParent,
    StartCompete, Validate, Confirm, durable
<1>2. bank' \in Banks /\ {cold', clean', sealed', pinned'} \subseteq BOOLEAN
  <2>1. CASE Improve
    <3>1. PICK g \in Games, value \in {Win, Perfect} : bank' = [bank EXCEPT ![g] = value]
      BY <2>1 DEF Improve
    <3>2. bank' \in Banks
      BY <3>1 DEF Shapes, Banks
    <3> QED
      BY <2>1, <3>2 DEF Improve, Shapes
  <2>2. CASE ~Improve
    BY <2>2 DEF Quiet, WorldMoves, StartCampaign, EndCampaign, StartReport, BecomeParent,
      StartCompete, Validate, Confirm, run, Shapes
  <2> QED
    BY <2>1, <2>2
<1>3. started' \in 0..MaxCommands
  <2>1. started' = started \/ (started < MaxCommands /\ started' = started + 1)
    BY DEF Quiet, WorldMoves, StartCampaign, Improve, EndCampaign, StartReport, BecomeParent,
      StartCompete, Validate, Confirm, Start
  <2>2. started \in 0..MaxCommands
    BY DEF Shapes
  <2> QED
    BY <2>1, <2>2, SubmissionAssumption
<1>4. proc' \in {NoCommand, Campaigning, Reporting} \cup Asking \cup Holding
  <2>1. CASE \/ WorldMoves \/ StartCampaign \/ Improve \/ EndCampaign \/ StartReport
             \/ BecomeParent
    BY <2>1 DEF WorldMoves, StartCampaign, Improve, EndCampaign, StartReport, BecomeParent,
      Start, Shapes, Campaigning, Reporting
  <2>2. CASE \E m \in Modes : StartCompete(m)
    BY <2>2 DEF StartCompete, Start, Asking
  <2>3. CASE Validate
    <3>1. proc' = NoCommand \/ (proc.job # "report"
             /\ \E place \in {"confirm", "claim"} : proc' = [proc EXCEPT !.at = place])
      BY <2>3 DEF Validate, Stop, Goto
    <3>2. proc = Reporting \/ proc \in Asking
      BY <2>3, CommandAt DEF Validate
    <3>3. Reporting.job = "report"
      BY DEF Reporting
    <3> QED
      BY ZenonT(60), <3>1, <3>2, <3>3, AskingGoes
  <2>4. CASE Confirm
    BY <2>4, CommandAt, AskingGoes DEF Confirm, Goto, Stop
  <2> QED
    BY <2>1, <2>2, <2>3, <2>4 DEF Quiet
<1> QED
  BY <1>1, <1>2, <1>3, <1>4 DEF Shapes

LEMMA QuietStep ==
  ASSUME SubmissionInv, Quiet
  PROVE  SubmissionInv'
<1>0. Shapes /\ Shapes'
  BY QuietShapes DEF SubmissionInv
<1>1. UNCHANGED Durably
  BY DEF Quiet, WorldMoves, StartCampaign, Improve, EndCampaign, StartReport, BecomeParent,
    StartCompete, Validate, Confirm, durable, run, Durably
<1>2. (\A m \in Modes : ModeTold(m)') /\ CardsAreClaimed'
  BY <1>1, QuietTold DEF SubmissionInv
<1>3. AskingTold'
  <2> SUFFICES ASSUME proc' \in Asking
               PROVE  /\ claim'[proc'.mode] = NoClaim
                      /\ proc'.at # "validate" => Granted(proc'.mode, bank')
    BY <1>1 DEF AskingTold, Granted, Durably
  <2>1. CASE WorldMoves \/ BecomeParent
    BY <1>1, <2>1 DEF WorldMoves, BecomeParent, SubmissionInv, AskingTold, Durably, run
  <2>2. CASE StartCampaign \/ Improve \/ EndCampaign \/ StartReport
    <3>1. proc' \in {Campaigning, Reporting}
      BY <1>0, <2>2, CommandAt DEF StartCampaign, Improve, EndCampaign, StartReport, Start,
        Campaigning, Reporting
    <3> QED
      BY <3>1, CommandKinds
  <2>3. CASE \E m \in Modes : StartCompete(m)
    BY <1>1, <2>3 DEF StartCompete, Start, Durably
  <2>4. CASE Validate
    <3>1. proc \in Asking
      <4>1. proc' # NoCommand /\ proc.job # "report"
        BY <2>4, CommandKinds DEF Validate, Stop
      <4> QED
        BY <1>0, <2>4, <4>1, CommandAt DEF Validate, Reporting
    <3>2. PICK place \in {"confirm", "claim"} :
             /\ proc' = [proc EXCEPT !.at = place] /\ bank' = bank
             /\ Complete(bank) /\ (proc.mode = "competition" => Eligible)
      <4>1. proc' # NoCommand
        BY CommandKinds
      <4> QED
        BY <2>4, <4>1 DEF Validate, Stop, Goto, Eligible, Valid, run
    <3>3. proc'.mode = proc.mode /\ claim[proc.mode] = NoClaim
      BY <3>1, <3>2, AskingGoes DEF SubmissionInv, AskingTold
    <3>4. Granted(proc.mode, bank)
      BY <3>2 DEF Granted, Eligible
    <3> QED
      BY <1>1, <3>2, <3>3, <3>4 DEF Durably
  <2>5. CASE Confirm
    <3>1. proc \in Asking /\ Granted(proc.mode, bank) /\ claim[proc.mode] = NoClaim
      BY <1>0, <2>5, CommandAt DEF Confirm, SubmissionInv, AskingTold
    <3>2. proc' = [proc EXCEPT !.at = "claim"] /\ bank' = bank
      BY <2>5, CommandKinds DEF Confirm, Goto, Stop, run
    <3> QED
      BY <1>1, <3>1, <3>2, AskingGoes DEF Durably
  <2> QED
    BY <2>1, <2>2, <2>3, <2>4, <2>5 DEF Quiet
<1>4. HoldingTold'
  <2>1. CASE WorldMoves \/ BecomeParent
    <3>1. UNCHANGED <<Durably, proc, bank>>
      BY <1>1, <2>1 DEF WorldMoves, BecomeParent, run
    <3> QED
      BY <3>1 DEF SubmissionInv, HoldingTold, Granted, CardsOf, Summary, Durably
  <2>2. CASE ~WorldMoves /\ ~BecomeParent
    <3>1. proc' \notin Holding
      <4>1. CASE StartCampaign \/ Improve \/ EndCampaign \/ StartReport
        BY <1>0, <4>1, CommandAt, CommandKinds DEF StartCampaign, Improve, EndCampaign,
          StartReport, Start, Campaigning, Reporting
      <4>2. CASE \E m \in Modes : StartCompete(m)
        BY <4>2, CommandKinds DEF StartCompete, Start, Asking
      <4>3. CASE Validate
        <5>1. proc' = NoCommand \/ proc'.at \in {"confirm", "claim"}
          <6>1. CASE proc = Reporting
            BY <4>3, <6>1 DEF Validate, Stop, Reporting
          <6>2. CASE proc \in Asking
            BY <4>3, <6>2, AskingGoes DEF Validate, Stop, Goto
          <6> QED
            BY <1>0, <4>3, <6>1, <6>2, CommandAt DEF Validate
        <5> QED
          BY <5>1, CommandKinds, HoldingFields DEF HoldPlaces, Before, BeforeClose, Closed
      <4>4. CASE Confirm
        BY <1>0, <4>4, CommandAt, CommandKinds, AskingGoes DEF Confirm, Goto, Stop
      <4> QED
        BY <2>2, <4>1, <4>2, <4>3, <4>4 DEF Quiet
    <3> QED
      BY <3>1 DEF HoldingTold
  <2> QED
    BY <2>1, <2>2
<1>5. ReportedIsSubmitted'
  <2>1. CASE Validate
    BY <2>1, ValidateReports
  <2>2. CASE ~Validate
    <3>1. report' = report /\ cards' = cards
      BY <2>2 DEF Quiet, WorldMoves, StartCampaign, Improve, EndCampaign, StartReport,
        BecomeParent, StartCompete, Confirm, durable
    <3> QED
      BY <3>1, ReportKept DEF SubmissionInv
  <2> QED
    BY <2>1, <2>2
<1> QED
  BY <1>0, <1>2, <1>3, <1>4, <1>5 DEF SubmissionInv

-----------------------------------------------------------------------------
\* Commands that hold a claim.

\* What every step of such a command leaves of the other mode, of the chain and of the
\* scorecards.
Frame ==
    /\ bank' = bank /\ cold' = cold
    /\ events \subseteq events'
    /\ \A k \in Modes \ {proc.mode} : claim'[k] = claim[k] /\ artifact'[k] = artifact[k]
    /\ DOMAIN cards \subseteq DOMAIN cards'
    /\ \A i \in DOMAIN cards : /\ i # proc.card => cards'[i] = cards[i]
                              /\ cards'[i].mode = cards[i].mode /\ cards'[i].bank = cards[i].bank
    /\ \A i \in DOMAIN cards' \ DOMAIN cards :
          /\ cards'[i].mode = proc.mode /\ cards'[i].bank = bank
          /\ proc.at \notin {"announce", "fail"}
    /\ claim'[proc.mode] \in ClaimRecords
    /\ claim'[proc.mode].roster = claim[proc.mode].roster

LEMMA FrameTold ==
  ASSUME SubmissionInv, proc \in Holding, Frame
  PROVE  /\ \A k \in Modes \ {proc.mode} : ModeTold(k)'
         /\ CardsAreClaimed'
<1> DEFINE m == proc.mode
<1>0. m \in Modes /\ Shapes
  BY HoldingFields DEF SubmissionInv
<1>1. \A k \in Modes \ {m} : CardsOf(k)' = CardsOf(k) /\ proc.card \notin CardsOf(k)
  <2>1. \A k \in Modes \ {m} : CardsOf(k)' = CardsOf(k)
    BY DEF Frame, CardsOf
  <2>2. \A k \in Modes \ {m} : proc.card \notin CardsOf(k)
    BY CardFields, <1>0 DEF SubmissionInv, HoldingTold, CardsOf
  <2> QED
    BY <2>1, <2>2
<1>2. \A k \in Modes \ {m} : \A i \in CardsOf(k) : cards'[i] = cards[i]
  BY <1>1 DEF CardsOf, Frame
<1>3. ASSUME NEW k \in Modes \ {m} PROVE ModeTold(k)'
  <2>1. ModeTold(k) /\ claim'[k] = claim[k] /\ artifact'[k] = artifact[k]
    BY DEF SubmissionInv, Frame
  <2> QED
    BY <1>1, <1>2, <2>1 DEF ModeTold, Frame
<1>4. CardsAreClaimed'
  <2> SUFFICES ASSUME NEW i \in DOMAIN cards'
               PROVE  LET k == cards'[i].mode IN
                      /\ claim'[k].status \notin {"none", "torn"}
                      /\ claim'[k].roster = cards'[i].bank
                      /\ [kind |-> "claimed", mode |-> k, artifact |-> NoArtifact] \in events'
                      /\ Complete(cards'[i].bank)
                      /\ k = "competition" => cold' /\ AllPerfect(cards'[i].bank)
    BY DEF CardsAreClaimed, Complete, AllPerfect
  <2>0. claim'[m].status \notin {"none", "torn"}
    BY ClaimFields DEF Frame
  <2>1. CASE i \in DOMAIN cards
    <3> DEFINE k == cards[i].mode
    <3>1. /\ claim[k].status \notin {"none", "torn"}
          /\ claim[k].roster = cards[i].bank
          /\ [kind |-> "claimed", mode |-> k, artifact |-> NoArtifact] \in events
          /\ Complete(cards[i].bank)
          /\ k = "competition" => cold /\ AllPerfect(cards[i].bank)
      BY <2>1 DEF SubmissionInv, CardsAreClaimed
    <3>2. k \in Modes
      BY <1>0, <2>1, CardFields
    <3>3. cards'[i].mode = k /\ cards'[i].bank = cards[i].bank
      BY <2>1 DEF Frame
    <3>4. claim'[k].status \notin {"none", "torn"} /\ claim'[k].roster = claim[k].roster
      BY <2>0, <3>1, <3>2 DEF Frame
    <3> HIDE DEF k
    <3> QED
      BY <3>1, <3>3, <3>4 DEF Frame
  <2>2. CASE i \notin DOMAIN cards
    <3>1. /\ cards'[i].mode = m /\ cards'[i].bank = bank
          /\ proc.at \notin {"announce", "fail"}
      BY <2>2 DEF Frame
    <3>2. /\ claim[m].roster = bank /\ Granted(m, bank)
          /\ [kind |-> "claimed", mode |-> m, artifact |-> NoArtifact] \in events
      BY <3>1 DEF SubmissionInv, HoldingTold
    <3> QED
      BY <2>0, <3>1, <3>2 DEF Frame, Granted
  <2> QED
    BY <2>1, <2>2
<1> QED
  BY <1>3, <1>4

\* With the frame, only the mode of the command, its place and the types remain to be shown.
LEMMA HeldStep ==
  ASSUME SubmissionInv, proc \in Holding, Frame, Shapes', proc' \notin Asking,
         NEW m \in Modes, m = proc.mode, ModeTold(m)', HoldingTold', ReportedIsSubmitted'
  PROVE  SubmissionInv'
<1>1. ASSUME NEW k \in Modes PROVE ModeTold(k)'
  <2>1. CASE k = m
    BY <2>1
  <2>2. CASE k # m
    BY <2>2, FrameTold
  <2> QED
    BY <2>1, <2>2
<1>2. AskingTold'
  BY DEF AskingTold
<1> QED
  BY <1>1, <1>2, FrameTold DEF SubmissionInv


-----------------------------------------------------------------------------
\* Steps that leave the claim, the artifact and the service alone.

Proceeds ==
    \/ AppendClaimed \/ Preflight \/ AppendOpened \/ Replayed \/ AppendCompleted
    \/ StepFails \/ Interrupted

LEMMA ProceedsTo ==
  ASSUME SubmissionInv, Proceeds
  PROVE  /\ proc \in Holding /\ proc' \in Holding
         /\ proc'.mode = proc.mode /\ proc'.roster = proc.roster /\ proc'.card = proc.card
         /\ proc'.played = proc.played
         /\ \/ /\ proc.at = "announce" /\ proc'.at = "preflight" /\ proc'.ended = proc.ended
               /\ [kind |-> "claimed", mode |-> proc.mode, artifact |-> NoArtifact] \in events'
            \/ proc.at = "preflight" /\ proc'.at = "open" /\ proc'.ended = proc.ended
            \/ proc.at = "opened" /\ proc'.at = "replay" /\ proc'.ended = proc.ended
            \/ proc.at = "replay" /\ proc'.at = "close" /\ proc.played = Games
            \/ /\ proc.at = "anchor" /\ proc'.at = "complete"
               /\ [kind |-> "completed", mode |-> proc.mode, artifact |-> Summary] \in events'
            \/ proc.at \in BeforeClose /\ proc'.at = "close" /\ proc'.ended # "no"
            \/ proc.at \in Guarded \ BeforeClose /\ proc'.at = "fail"
<1>1. proc \in Holding
  BY CommandAt DEF SubmissionInv, Proceeds, AppendClaimed, Preflight, AppendOpened, Replayed,
    AppendCompleted, StepFails, Interrupted, Guarded, BeforeClose, HoldPlaces, Before, Closed
<1>2. proc.at \in BeforeClose => proc.card # NoCard
  BY <1>1 DEF SubmissionInv, HoldingTold
<1>3. \/ /\ proc.at = "announce" /\ proc' = [proc EXCEPT !.at = "preflight"]
         /\ [kind |-> "claimed", mode |-> proc.mode, artifact |-> NoArtifact] \in events'
      \/ proc.at = "preflight" /\ proc' = [proc EXCEPT !.at = "open"]
      \/ proc.at = "opened" /\ proc' = [proc EXCEPT !.at = "replay"]
      \/ proc.at = "replay" /\ proc.played = Games /\ proc' = [proc EXCEPT !.at = "close"]
      \/ /\ proc.at = "anchor" /\ proc' = [proc EXCEPT !.at = "complete"]
         /\ [kind |-> "completed", mode |-> proc.mode, artifact |-> Summary] \in events'
      \/ /\ proc.at \in BeforeClose
         /\ \E how \in {"error", "interrupt"} :
               proc' = [proc EXCEPT !.ended = how, !.at = "close"]
      \/ /\ proc.at \in Guarded \ BeforeClose
         /\ proc' = [proc EXCEPT !.ended = "error", !.at = "fail"]
  BY <1>2 DEF Proceeds, AppendClaimed, Preflight, AppendOpened, Replayed, AppendCompleted,
    StepFails, Interrupted, Goto, Raise, Record
<1>4. {"preflight", "open", "replay", "close", "complete", "fail"} \subseteq HoldPlaces
  BY DEF HoldPlaces, Before, BeforeClose, Closed
<1>5. ASSUME NEW place \in HoldPlaces, proc' = [proc EXCEPT !.at = place]
      PROVE  /\ proc' \in Holding /\ proc'.at = place /\ proc'.mode = proc.mode
             /\ proc'.roster = proc.roster /\ proc'.card = proc.card
             /\ proc'.played = proc.played /\ proc'.ended = proc.ended
  BY <1>1, <1>5 DEF Holding
<1>6. ASSUME NEW place \in HoldPlaces, NEW how \in {"error", "interrupt"},
             proc' = [proc EXCEPT !.ended = how, !.at = place]
      PROVE  /\ proc' \in Holding /\ proc'.at = place /\ proc'.mode = proc.mode
             /\ proc'.roster = proc.roster /\ proc'.card = proc.card
             /\ proc'.played = proc.played /\ proc'.ended = how
  BY <1>1, <1>6 DEF Holding
<1> QED
  BY <1>1, <1>3, <1>4, <1>5, <1>6

LEMMA ProceedsStep ==
  ASSUME SubmissionInv, Proceeds
  PROVE  SubmissionInv'
<1> DEFINE m == proc.mode
<1>0. proc \in Holding /\ proc' \in Holding /\ m \in Modes
  BY ProceedsTo, HoldingFields
<1>1. /\ UNCHANGED <<run, pinned, claim, artifact, report, cards, started>>
      /\ events \subseteq events'
  BY DEF Proceeds, AppendClaimed, Preflight, AppendOpened, Replayed, AppendCompleted,
    StepFails, Interrupted, Record, durable
<1>2. Frame
  BY <1>0, <1>1 DEF Frame, SubmissionInv, HoldingTold, run
<1>3. Shapes'
  BY <1>0, <1>1 DEF SubmissionInv, Shapes, run
<1>4. \A k \in Modes : ModeTold(k)'
  <2>1. \A k \in Modes : CardsOf(k)' = CardsOf(k)
    BY <1>1 DEF CardsOf
  <2> QED
    BY <1>1, <2>1 DEF SubmissionInv, ModeTold
<1>7. HoldingTold'
  <2>1. Summary' = Summary /\ CardsOf(m)' = CardsOf(m)
    BY <1>1, ProceedsTo DEF Summary, CardsOf
  <2>2. proc'.mode = m /\ proc'.roster = proc.roster /\ bank' = bank /\ cold' = cold
    BY <1>1, ProceedsTo DEF run
  <2> QED
    BY <1>0, <1>1, <2>1, <2>2, ProceedsTo
    DEF SubmissionInv, HoldingTold, Granted, Before, BeforeClose, Closed, Guarded
<1>8. ReportedIsSubmitted'
  BY <1>1, ReportKept DEF SubmissionInv
<1> QED
  BY <1>0, <1>2, <1>3, <1>4, <1>7, <1>8, CommandKinds, HeldStep

-----------------------------------------------------------------------------
\* Steps that change the run's claim or artifact.

LEMMA WriteArtifactStep ==
  ASSUME SubmissionInv, WriteArtifact
  PROVE  SubmissionInv'
<1> DEFINE m == proc.mode
<1>0. /\ proc.at = "artifact" /\ proc \in Holding /\ m \in Modes /\ Shapes
      /\ proc.card \in Nat \cup {NoCard}
  BY CommandAt, HoldingFields DEF WriteArtifact, SubmissionInv, HoldPlaces, Closed
<1>1. proc' = [proc EXCEPT !.at = "anchor"] /\ "anchor" \in HoldPlaces
  BY DEF WriteArtifact, Goto, HoldPlaces, Closed
<1>2. /\ proc' \in Holding /\ proc'.at = "anchor" /\ proc'.mode = m
      /\ proc'.roster = proc.roster /\ proc'.card = proc.card
      /\ proc'.played = proc.played /\ proc'.ended = proc.ended
  BY <1>0, <1>1 DEF Holding
<1>3. /\ claim[m] \in ClaimRecords /\ claim[m].roster = bank /\ proc.roster = bank
      /\ Granted(m, bank)
      /\ proc.card # NoCard /\ proc.card \in CardsOf(m) /\ cards[proc.card].played = proc.played
      /\ [kind |-> "claimed", mode |-> m, artifact |-> NoArtifact] \in events
      /\ claim[m].status = "opened" /\ claim[m].card = proc.card
      /\ cards[proc.card].state = "closed" /\ proc.played = Games
  BY <1>0 DEF SubmissionInv, HoldingTold, Before, Closed
<1>4. Summary \in Summaries
  BY <1>0, <1>3, SummaryOf
<1>5. /\ UNCHANGED <<run, pinned, claim, events, report, cards, started>>
      /\ artifact' = [artifact EXCEPT ![m] = Summary]
  BY DEF WriteArtifact
<1>6. Frame
  BY <1>0, <1>3, <1>5 DEF Frame, run, Shapes
<1>7. Shapes'
  BY <1>0, <1>2, <1>4, <1>5 DEF Shapes, run
<1>8. artifact'[m] = Summary
  BY <1>0, <1>5 DEF Shapes
<1>10. ASSUME NEW k \in Modes, k = m PROVE ModeTold(k)'
  <2>1. Summary.card \in DOMAIN cards
    BY <1>3 DEF Summary, CardsOf
  <2>2. CardsOf(k)' = CardsOf(k) /\ artifact'[k] = Summary
    BY <1>5, <1>8, <1>10 DEF CardsOf
  <2>3. claim'[k].status = "opened" /\ claim'[k] = claim[k] /\ cards' = cards
    BY <1>3, <1>5, <1>10
  <2>4. ModeTold(k)
    BY <1>0 DEF SubmissionInv
  <2> QED
    BY <2>1, <2>2, <2>3, <2>4 DEF ModeTold
<1>11. HoldingTold'
  <2>1. Summary' = Summary
    BY <1>2 DEF Summary
  <2> HIDE DEF m
  <2>2. CardsOf(proc.mode)' = CardsOf(m) /\ Granted(proc.mode, bank)'
    BY <1>2, <1>3, <1>5 DEF CardsOf, Granted, Complete, AllPerfect, run
  <2> QED
    BY <1>2, <1>3, <1>5, <1>8, <2>1, <2>2
    DEF HoldingTold, Before, BeforeClose, Closed, run
<1>12. ReportedIsSubmitted'
  BY <1>5, ReportKept DEF SubmissionInv
<1> QED
  BY <1>0, <1>2, <1>6, <1>7, <1>10, <1>11, <1>12, CommandKinds, HeldStep

\* The id of the scorecard reaches the claim.
LEMMA RecordOpenedStep ==
  ASSUME SubmissionInv, RecordOpened
  PROVE  SubmissionInv'
<1> DEFINE m == proc.mode
<1>0. /\ proc.at = "record" /\ proc \in Holding /\ m \in Modes /\ Shapes
      /\ proc.card \in Nat \cup {NoCard}
  BY CommandAt, HoldingFields DEF RecordOpened, SubmissionInv, HoldPlaces, BeforeClose
<1>1. proc' = [proc EXCEPT !.at = "opened"] /\ "opened" \in HoldPlaces
  BY DEF RecordOpened, Goto, HoldPlaces, BeforeClose
<1>2. /\ proc' \in Holding /\ proc'.at = "opened" /\ proc'.mode = m
      /\ proc'.roster = proc.roster /\ proc'.card = proc.card
      /\ proc'.played = proc.played /\ proc'.ended = proc.ended
  BY <1>0, <1>1 DEF Holding
<1>3. /\ claim[m] \in ClaimRecords /\ claim[m].roster = bank /\ proc.roster = bank
      /\ Granted(m, bank)
      /\ proc.card # NoCard /\ proc.card \in CardsOf(m) /\ cards[proc.card].played = proc.played
      /\ [kind |-> "claimed", mode |-> m, artifact |-> NoArtifact] \in events
      /\ cards[proc.card].state = "open" /\ proc.ended = "no"
  BY <1>0 DEF SubmissionInv, HoldingTold, BeforeClose
<1>4. PICK d : d = [claim[m] EXCEPT !.status = "opened", !.card = proc.card]
  OBVIOUS
<1>5. d \in ClaimRecords /\ d.status = "opened" /\ d.card = proc.card /\ d.roster = bank
  BY <1>0, <1>3, <1>4, ClaimOpened
<1>6. /\ UNCHANGED <<run, pinned, artifact, events, report, cards, started>>
      /\ claim' = [claim EXCEPT ![m] = d]
  BY <1>4 DEF RecordOpened, Claim
<1>7. claim'[m] = d /\ \A k \in Modes \ {m} : claim'[k] = claim[k]
  BY <1>0, <1>6 DEF Shapes
<1>8. Frame
  BY <1>0, <1>3, <1>5, <1>6, <1>7 DEF Frame, run
<1>9. Shapes'
  BY <1>0, <1>2, <1>5, <1>6 DEF Shapes, run
<1>10. ASSUME NEW k \in Modes, k = m PROVE ModeTold(k)'
  <2>1. CardsOf(k)' = CardsOf(k) /\ claim'[k] = d /\ artifact' = artifact /\ cards' = cards
    BY <1>6, <1>7, <1>10 DEF CardsOf
  <2>2. ModeTold(k)
    BY <1>0 DEF SubmissionInv
  <2> QED
    BY <1>3, <1>5, <1>10, <2>1, <2>2 DEF ModeTold
<1>11. HoldingTold'
  <2> HIDE DEF m
  <2>2. CardsOf(proc.mode)' = CardsOf(m) /\ Granted(proc.mode, bank)'
    BY <1>2, <1>3, <1>6 DEF CardsOf, Granted, Complete, AllPerfect, run
  <2> QED
    BY <1>2, <1>3, <1>5, <1>6, <1>7, <2>2
    DEF HoldingTold, Before, BeforeClose, Closed, run
<1>12. ReportedIsSubmitted'
  BY <1>6, ReportKept DEF SubmissionInv
<1> QED
  BY <1>0, <1>2, <1>8, <1>9, <1>10, <1>11, <1>12, CommandKinds, HeldStep

LEMMA CompleteClaimStep ==
  ASSUME SubmissionInv, CompleteClaim
  PROVE  SubmissionInv'
<1> DEFINE m == proc.mode
<1>0. /\ proc.at = "complete" /\ proc \in Holding /\ m \in Modes /\ Shapes
      /\ proc.card \in Nat \cup {NoCard}
  BY CommandAt, HoldingFields DEF CompleteClaim, SubmissionInv, HoldPlaces, Closed
<1>1. proc' = [proc EXCEPT !.at = "final"] /\ "final" \in HoldPlaces
  BY DEF CompleteClaim, Goto, HoldPlaces, Closed
<1>2. /\ proc' \in Holding /\ proc'.at = "final" /\ proc'.mode = m
      /\ proc'.roster = proc.roster /\ proc'.card = proc.card
      /\ proc'.played = proc.played /\ proc'.ended = proc.ended
  BY <1>0, <1>1 DEF Holding
<1>3. /\ claim[m] \in ClaimRecords /\ claim[m].roster = bank /\ proc.roster = bank
      /\ Granted(m, bank)
      /\ proc.card # NoCard /\ proc.card \in CardsOf(m) /\ cards[proc.card].played = proc.played
      /\ [kind |-> "claimed", mode |-> m, artifact |-> NoArtifact] \in events
      /\ [kind |-> "completed", mode |-> m, artifact |-> Summary] \in events
      /\ cards[proc.card].state = "closed" /\ proc.played = Games
      /\ claim[m].card = proc.card /\ artifact[m] = Summary
  BY <1>0 DEF SubmissionInv, HoldingTold, Closed
<1>4. PICK d : d = [claim[m] EXCEPT !.status = "completed", !.artifact = Summary]
  OBVIOUS
<1>5. d \in ClaimRecords /\ d.status = "completed" /\ d.card = proc.card /\ d.roster = bank
  <2>1. Summary \in Summaries
    BY <1>0, <1>3, SummaryOf
  <2> QED
    BY <1>3, <1>4, <2>1, ClaimCompleted
<1>6. /\ UNCHANGED <<run, pinned, artifact, events, report, cards, started>>
      /\ claim' = [claim EXCEPT ![m] = d]
  BY <1>4 DEF CompleteClaim, Claim
<1>7. claim'[m] = d /\ \A k \in Modes \ {m} : claim'[k] = claim[k]
  BY <1>0, <1>6 DEF Shapes
<1>8. Frame
  BY <1>0, <1>3, <1>5, <1>6, <1>7 DEF Frame, run
<1>9. Shapes'
  BY <1>0, <1>2, <1>5, <1>6 DEF Shapes, run
<1>10. ASSUME NEW k \in Modes, k = m PROVE ModeTold(k)'
  <2>1. CardsOf(k)' = CardsOf(k) /\ claim'[k] = d /\ artifact' = artifact /\ cards' = cards
    BY <1>6, <1>7, <1>10 DEF CardsOf
  <2>2. ModeTold(k) /\ artifact[k] = Summary
    BY <1>0, <1>3, <1>10 DEF SubmissionInv
  <2>3. Summary = [card |-> d.card, replays |-> d.roster]
    BY <1>3, <1>5 DEF Summary
  <2>4. [kind |-> "completed", mode |-> k, artifact |-> artifact[k]] \in events'
    BY <1>3, <1>6, <1>10, <2>2
  <2> QED
    BY <1>3, <1>5, <1>10, <2>1, <2>2, <2>3, <2>4 DEF ModeTold
<1>11. HoldingTold'
  <2>1. Summary' = Summary
    BY <1>2 DEF Summary
  <2> HIDE DEF m
  <2>2. CardsOf(proc.mode)' = CardsOf(m) /\ Granted(proc.mode, bank)'
    BY <1>2, <1>3, <1>6 DEF CardsOf, Granted, Complete, AllPerfect, run
  <2> QED
    BY <1>2, <1>3, <1>5, <1>6, <1>7, <2>1, <2>2
    DEF HoldingTold, Before, BeforeClose, Closed, run
<1>12. ReportedIsSubmitted'
  BY <1>6, ReportKept DEF SubmissionInv
<1> QED
  BY <1>0, <1>2, <1>8, <1>9, <1>10, <1>11, <1>12, CommandKinds, HeldStep

-----------------------------------------------------------------------------
\* Steps of the service.

LEMMA OpenCardStep ==
  ASSUME SubmissionInv, OpenCard
  PROVE  SubmissionInv'
<1> DEFINE m == proc.mode
<1>0. proc.at = "open" /\ proc \in Holding /\ m \in Modes /\ Shapes
  BY CommandAt, HoldingFields DEF OpenCard, SubmissionInv, HoldPlaces, Before
<1>3. /\ claim[m] \in ClaimRecords /\ claim[m].roster = bank /\ proc.roster = bank
      /\ Granted(m, bank) /\ CardsOf(m) = {} /\ proc.card = NoCard
      /\ claim[m].status = "claimed"
      /\ [kind |-> "claimed", mode |-> m, artifact |-> NoArtifact] \in events
  BY <1>0 DEF SubmissionInv, HoldingTold, Before
<1>4. PICK c : c = [mode |-> m, state |-> "open", played |-> {}, bank |-> bank]
  OBVIOUS
<1>5. c \in CardRecords /\ c.mode = m /\ c.state = "open" /\ c.played = {} /\ c.bank = bank
  BY <1>0, <1>4 DEF CardRecords, CardStates, Shapes
<1>6. UNCHANGED <<run, pinned, durable, started>> /\ cards' = Append(cards, c)
  BY <1>4 DEF OpenCard
<1> DEFINE n == Len(cards')
<1>7. /\ cards' \in Seq(CardRecords) /\ n \in Nat /\ n \notin DOMAIN cards
      /\ DOMAIN cards' = DOMAIN cards \cup {n}
      /\ \A i \in DOMAIN cards : cards'[i] = cards[i]
      /\ cards'[n] = c
  BY <1>0, <1>5, <1>6, CardAppended
<1>8. n # NoCard
  BY <1>7, SubmissionAssumption
<1>9. \/ proc' = [proc EXCEPT !.at = "record", !.card = n]
      \/ proc' = [proc EXCEPT !.ended = "error", !.at = "fail"]
  BY <1>3 DEF OpenCard, Raise
<1>10. "record" \in HoldPlaces /\ "fail" \in HoldPlaces
  BY DEF HoldPlaces, BeforeClose
<1> HIDE DEF n
<1>11. /\ proc' \in Holding /\ proc'.mode = m /\ proc'.roster = proc.roster
       /\ proc'.played = proc.played
       /\ \/ proc'.at = "record" /\ proc'.card = n /\ proc'.ended = proc.ended
          \/ proc'.at = "fail" /\ proc'.card = NoCard
  <2>1. CASE proc' = [proc EXCEPT !.at = "record", !.card = n]
    BY <1>0, <1>7, <1>10, <2>1 DEF Holding
  <2>2. CASE proc' = [proc EXCEPT !.ended = "error", !.at = "fail"]
    BY <1>0, <1>3, <1>10, <2>2 DEF Holding
  <2> QED
    BY <1>9, <2>1, <2>2
<1>12. Frame
  BY <1>0, <1>3, <1>5, <1>6, <1>7 DEF Frame, run, durable
<1>13. Shapes'
  BY <1>0, <1>6, <1>7, <1>11 DEF Shapes, run, durable
<1>14. ASSUME NEW k \in Modes, k = m PROVE ModeTold(k)'
  <2>1. CardsOf(k)' = {n}
    BY <1>3, <1>5, <1>7, <1>14 DEF CardsOf
  <2>2. claim' = claim /\ artifact' = artifact /\ claim[k].status = "claimed"
    BY <1>3, <1>6, <1>14 DEF durable
  <2>3. artifact'[k].card \in DOMAIN cards' \cup {NoCard}
    BY <1>7, <2>2 DEF SubmissionInv, ModeTold
  <2> QED
    BY <2>1, <2>2, <2>3 DEF ModeTold
<1>15. HoldingTold'
  <2> HIDE DEF m
  <2>1. CardsOf(proc.mode)' = {n}
    BY <1>3, <1>5, <1>7, <1>11 DEF CardsOf
  <2>2. Granted(proc.mode, bank)'
    BY <1>3, <1>6, <1>11 DEF Granted, Complete, AllPerfect, run
  <2>3. proc'.at = "record" => proc'.ended = "no" /\ proc'.played = {}
    BY <1>0, <1>11 DEF SubmissionInv, HoldingTold, Before
  <2> QED
    BY <1>3, <1>5, <1>6, <1>7, <1>8, <1>11, <2>1, <2>2, <2>3
    DEF HoldingTold, Before, BeforeClose, Closed, run, durable
<1>16. ReportedIsSubmitted'
  BY <1>6, <1>7, ReportKept DEF SubmissionInv, durable
<1> QED
  BY <1>0, <1>11, <1>12, <1>13, <1>14, <1>15, <1>16, CommandKinds, HeldStep

LEMMA ReplayGameStep ==
  ASSUME SubmissionInv, ReplayGame
  PROVE  SubmissionInv'
<1> DEFINE m == proc.mode
           n == proc.card
<1>0. proc.at = "replay" /\ proc \in Holding /\ m \in Modes /\ Shapes
  BY CommandAt, HoldingFields DEF ReplayGame, SubmissionInv, HoldPlaces, BeforeClose
<1>1. /\ claim[m] \in ClaimRecords /\ claim[m].roster = bank /\ proc.roster = bank
      /\ Granted(m, bank)
      /\ n # NoCard /\ n \in CardsOf(m) /\ cards[n].played = proc.played
      /\ [kind |-> "claimed", mode |-> m, artifact |-> NoArtifact] \in events
      /\ cards[n].state = "open" /\ proc.ended = "no"
      /\ claim[m].status = "opened" /\ claim[m].card = n
  BY <1>0 DEF SubmissionInv, HoldingTold, BeforeClose
<1>2. PICK g \in Games :
         /\ cards' = [cards EXCEPT ![n].played = @ \cup {g}]
         /\ proc' = [proc EXCEPT !.played = @ \cup {g}]
  BY DEF ReplayGame
<1>3. n \in DOMAIN cards /\ cards[n].mode = m
  BY <1>1 DEF CardsOf
<1>4. PICK c : c = [cards[n] EXCEPT !.played = @ \cup {g}]
  OBVIOUS
<1>5. /\ c \in CardRecords /\ c.mode = m /\ c.state = "open" /\ c.bank = cards[n].bank
      /\ c.played = proc.played \cup {g}
  BY <1>0, <1>1, <1>3, <1>4, CardFields DEF CardRecords
<1>6. cards' = [cards EXCEPT ![n] = c]
  BY <1>2, <1>4
<1>7. UNCHANGED <<run, pinned, durable, started>>
  BY DEF ReplayGame
<1>8. /\ cards' \in Seq(CardRecords) /\ DOMAIN cards' = DOMAIN cards
      /\ \A i \in DOMAIN cards : i # n => cards'[i] = cards[i]
      /\ cards'[n] = c
  BY <1>0, <1>3, <1>5, <1>6, CardChanged
<1>9. /\ proc' \in Holding /\ proc'.at = "replay" /\ proc'.mode = m /\ proc'.roster = proc.roster
      /\ proc'.card = n /\ proc'.played = proc.played \cup {g} /\ proc'.ended = "no"
  BY <1>0, <1>1, <1>2, HoldingPlays
<1> HIDE DEF n
<1>10. Frame
  BY <1>0, <1>1, <1>3, <1>5, <1>7, <1>8 DEF Frame, run, durable, n
<1>11. Shapes'
  BY <1>0, <1>7, <1>8, <1>9 DEF Shapes, run, durable
<1>12. ASSUME NEW k \in Modes, k = m PROVE ModeTold(k)'
  <2>1. CardsOf(k)' = CardsOf(k)
    BY <1>3, <1>5, <1>8, <1>12 DEF CardsOf
  <2>2. claim' = claim /\ artifact' = artifact /\ claim[k].status = "opened" /\ claim[k].card = n
    BY <1>1, <1>7, <1>12 DEF durable
  <2>3. ModeTold(k)
    BY DEF SubmissionInv
  <2> QED
    BY <1>1, <1>8, <1>12, <2>1, <2>2, <2>3 DEF ModeTold
<1>13. HoldingTold'
  <2> HIDE DEF m
  <2>1. CardsOf(proc.mode)' = CardsOf(m)
    BY <1>3, <1>5, <1>8, <1>9 DEF CardsOf
  <2>2. Granted(proc.mode, bank)'
    BY <1>1, <1>7, <1>9 DEF Granted, Complete, AllPerfect, run
  <2> QED
    BY <1>1, <1>5, <1>7, <1>8, <1>9, <2>1, <2>2
    DEF HoldingTold, Before, BeforeClose, Closed, run, durable
<1>14. ReportedIsSubmitted'
  <2>1. \A i \in DOMAIN cards : cards[i].state = "closed" => i # n
    BY <1>1
  <2> QED
    BY <1>7, <1>8, <2>1, ReportKept DEF SubmissionInv, durable
<1> QED
  BY <1>0, <1>9, <1>10, <1>11, <1>12, <1>13, <1>14, CommandKinds, HeldStep

LEMMA CloseCardStep ==
  ASSUME SubmissionInv, CloseCard
  PROVE  SubmissionInv'
<1> DEFINE m == proc.mode
           n == proc.card
<1>0. proc.at = "close" /\ proc \in Holding /\ m \in Modes /\ Shapes
  BY CommandAt, HoldingFields DEF CloseCard, SubmissionInv, HoldPlaces
<1>1. /\ claim[m] \in ClaimRecords /\ claim[m].roster = bank /\ proc.roster = bank
      /\ Granted(m, bank)
      /\ n # NoCard /\ n \in CardsOf(m) /\ cards[n].played = proc.played
      /\ [kind |-> "claimed", mode |-> m, artifact |-> NoArtifact] \in events
      /\ cards[n].state = "open" /\ (proc.ended = "no" => proc.played = Games)
      /\ claim[m].status \in {"claimed", "opened"}
      /\ claim[m].status = "opened" => claim[m].card = n
  BY <1>0 DEF SubmissionInv, HoldingTold
<1>2. PICK state \in {"closed", "unclosed"}, outcome \in {"raises", "refused", "accepted"} :
         /\ outcome = "accepted" => state = "closed"
         /\ cards' = [cards EXCEPT ![n].state = state]
         /\ AfterClose(outcome)
  BY DEF CloseCard
<1>3. n \in DOMAIN cards /\ cards[n].mode = m
  BY <1>1 DEF CardsOf
<1>4. PICK c : c = [cards[n] EXCEPT !.state = state]
  OBVIOUS
<1>5. /\ c \in CardRecords /\ c.mode = m /\ c.state = state /\ c.bank = cards[n].bank
      /\ c.played = proc.played
  BY <1>0, <1>1, <1>2, <1>3, <1>4, CardFields DEF CardRecords, CardStates
<1>6. cards' = [cards EXCEPT ![n] = c]
  BY <1>2, <1>4
<1>7. UNCHANGED <<run, pinned, durable, started>>
  BY DEF CloseCard
<1>8. /\ cards' \in Seq(CardRecords) /\ DOMAIN cards' = DOMAIN cards
      /\ \A i \in DOMAIN cards : i # n => cards'[i] = cards[i]
      /\ cards'[n] = c
  BY <1>0, <1>3, <1>5, <1>6, CardChanged
<1>9. \/ proc' = NoCommand
      \/ /\ proc' \in Holding /\ proc'.mode = m /\ proc'.roster = proc.roster
         /\ proc'.card = n /\ proc'.played = proc.played
         /\ \/ proc'.at = "fail"
            \/ /\ proc'.at = "artifact" /\ proc'.ended = "no" /\ proc.ended = "no"
               /\ state = "closed"
  <2>1. \/ proc' = NoCommand
        \/ proc' = [proc EXCEPT !.ended = "error", !.at = "fail"]
        \/ /\ proc' = [proc EXCEPT !.at = "artifact"] /\ proc.ended = "no" /\ state = "closed"
    BY <1>0, <1>2, HoldingFields DEF AfterClose, Stop, Goto
  <2>2. "fail" \in HoldPlaces /\ "artifact" \in HoldPlaces
    BY DEF HoldPlaces, Closed
  <2>3. CASE proc' = [proc EXCEPT !.ended = "error", !.at = "fail"]
    BY <1>0, <2>2, <2>3 DEF Holding
  <2>4. CASE proc' = [proc EXCEPT !.at = "artifact"] /\ proc.ended = "no" /\ state = "closed"
    BY <1>0, <2>2, <2>4 DEF Holding
  <2> QED
    BY <2>1, <2>3, <2>4
<1> HIDE DEF n
<1>10. Frame
  BY <1>0, <1>1, <1>3, <1>5, <1>7, <1>8 DEF Frame, run, durable, n
<1>11. Shapes'
  BY <1>0, <1>7, <1>8, <1>9 DEF Shapes, run, durable
<1>12. ASSUME NEW k \in Modes, k = m PROVE ModeTold(k)'
  <2>1. CardsOf(k)' = CardsOf(k)
    BY <1>3, <1>5, <1>8, <1>12 DEF CardsOf
  <2>2. claim' = claim /\ artifact' = artifact /\ claim[k].status \in {"claimed", "opened"}
    BY <1>1, <1>7, <1>12 DEF durable
  <2>3. ModeTold(k)
    BY DEF SubmissionInv
  <2> QED
    BY <1>8, <2>1, <2>2, <2>3 DEF ModeTold
<1>13. HoldingTold'
  <2>1. CASE proc' = NoCommand
    BY <2>1, CommandKinds DEF HoldingTold
  <2>2. CASE proc' # NoCommand
    <3> HIDE DEF m
    <3>1. CardsOf(proc.mode)' = CardsOf(m)
      BY <1>3, <1>5, <1>8, <1>9, <2>2 DEF CardsOf
    <3>2. Granted(proc.mode, bank)'
      BY <1>1, <1>7, <1>9, <2>2 DEF Granted, Complete, AllPerfect, run
    <3>3. claim' = claim /\ events' = events /\ bank' = bank
      BY <1>7 DEF run, durable
    <3>4. proc'.at = "artifact" => claim[m].status = "opened"
      BY <1>0, <1>1, <1>9, <2>2 DEF SubmissionInv, HoldingTold, m
    <3> QED
      BY <1>1, <1>2, <1>5, <1>8, <1>9, <2>2, <3>1, <3>2, <3>3, <3>4
      DEF HoldingTold, Before, BeforeClose, Closed
  <2> QED
    BY <2>1, <2>2
<1>14. ReportedIsSubmitted'
  <2>1. \A i \in DOMAIN cards : cards[i].state = "closed" => i # n
    BY <1>1
  <2> QED
    BY <1>7, <1>8, <2>1, ReportKept DEF SubmissionInv, durable
<1> QED
  BY <1>0, <1>9, <1>10, <1>11, <1>12, <1>13, <1>14, CommandKinds, HeldStep

-----------------------------------------------------------------------------
\* A command ends, or claims a mode.

LEMMA RecordFailureStep ==
  ASSUME SubmissionInv, RecordFailure
  PROVE  SubmissionInv'
<1> DEFINE m == proc.mode
<1>0. /\ proc.at = "fail" /\ proc \in Holding /\ m \in Modes /\ Shapes
      /\ proc.card \in Nat \cup {NoCard}
  BY CommandAt, HoldingFields DEF RecordFailure, SubmissionInv, HoldPlaces
<1>1. /\ claim[m] \in ClaimRecords /\ claim[m].roster = bank
      /\ proc.card # NoCard => proc.card \in CardsOf(m) /\ cards[proc.card].state # "open"
      /\ claim[m].status \in {"claimed", "opened"}
  BY <1>0 DEF SubmissionInv, HoldingTold
<1>2. PICK d : d = [claim[m] EXCEPT !.status = "failed", !.card = proc.card]
  OBVIOUS
<1>3. d \in ClaimRecords /\ d.status = "failed" /\ d.card = proc.card /\ d.roster = bank
  BY <1>0, <1>1, <1>2, ClaimOpened
<1>4. /\ UNCHANGED <<run, pinned, artifact, report, cards, started>>
      /\ events \subseteq events'
      /\ claim' = claim \/ claim' = [claim EXCEPT ![m] = d]
      /\ proc' = NoCommand
  BY <1>2 DEF RecordFailure, Record, Stop
<1>5. /\ \A k \in Modes \ {m} : claim'[k] = claim[k]
      /\ claim'[m] = claim[m] \/ claim'[m] = d
  BY <1>0, <1>4 DEF Shapes
<1>6. Frame
  BY <1>0, <1>1, <1>3, <1>4, <1>5 DEF Frame, run
<1>7. Shapes'
  <2>1. claim' \in [Modes -> {NoClaim, Torn} \cup ClaimRecords]
    BY <1>0, <1>3, <1>4 DEF Shapes
  <2> QED
    BY <1>0, <1>4, <2>1 DEF Shapes, run
<1>8. ASSUME NEW k \in Modes, k = m PROVE ModeTold(k)'
  <2>1. CardsOf(k)' = CardsOf(k) /\ cards' = cards /\ artifact' = artifact
    BY <1>4 DEF CardsOf
  <2>2. ModeTold(k)
    BY DEF SubmissionInv
  <2>3. CASE claim'[k] = claim[k]
    BY <1>4, <2>1, <2>2, <2>3 DEF ModeTold
  <2>4. CASE claim'[k] = d
    BY <1>1, <1>3, <1>8, <2>1, <2>2, <2>4 DEF ModeTold
  <2> QED
    BY <1>5, <1>8, <2>3, <2>4
<1>9. HoldingTold'
  BY <1>4, CommandKinds DEF HoldingTold
<1>10. ReportedIsSubmitted'
  BY <1>4, ReportKept DEF SubmissionInv
<1> QED
  BY <1>0, <1>4, <1>6, <1>7, <1>8, <1>9, <1>10, CommandKinds, HeldStep

\* The command is over and nothing else has changed.
LEMMA EndsStep ==
  ASSUME SubmissionInv, proc' = NoCommand,
         UNCHANGED <<run, pinned, claim, artifact, events, cards, started>>,
         ReportedIsSubmitted'
  PROVE  SubmissionInv'
<1>1. Shapes'
  BY DEF SubmissionInv, Shapes, run
<1>2. (\A m \in Modes : ModeTold(m)') /\ CardsAreClaimed'
  BY QuietTold DEF SubmissionInv, Durably, run
<1>3. AskingTold' /\ HoldingTold'
  BY CommandKinds DEF AskingTold, HoldingTold
<1> QED
  BY <1>1, <1>2, <1>3 DEF SubmissionInv

\* A claim file appears where there was none, whole or cut short.
LEMMA Claims ==
  ASSUME SubmissionInv, proc \in Asking, proc.at = "claim",
         NEW d \in ClaimRecords \cup {Torn},
         claim' = [claim EXCEPT ![proc.mode] = d],
         d = Torn \/ (d.status = "claimed" /\ d.roster = bank),
         UNCHANGED <<run, pinned, artifact, events, report, cards, started>>,
         proc' \in {NoCommand} \cup Holding
  PROVE  /\ Shapes' /\ \A m \in Modes : ModeTold(m)'
         /\ CardsAreClaimed' /\ AskingTold' /\ ReportedIsSubmitted'
         /\ CardsOf(proc.mode) = {} /\ Granted(proc.mode, bank)
         /\ claim'[proc.mode] = d
<1> DEFINE m == proc.mode
<1>0. Shapes /\ m \in Modes /\ claim[m] = NoClaim /\ Granted(m, bank)
  BY DEF SubmissionInv, AskingTold, Asking
<1>1. claim'[m] = d /\ \A k \in Modes \ {m} : claim'[k] = claim[k]
  BY <1>0 DEF Shapes
<1>2. d.status \in {"claimed", "torn"} /\ (d.status = "torn" => d = Torn)
  BY ClaimKinds, ClaimFields
<1>3. CardsOf(m) = {} /\ artifact[m] = NoArtifact
  BY <1>0, ClaimKinds DEF SubmissionInv, ModeTold
<1>4. Shapes'
  <2>1. claim' \in [Modes -> {NoClaim, Torn} \cup ClaimRecords]
    BY <1>0 DEF Shapes
  <2> QED
    BY <1>0, <2>1 DEF Shapes, run
<1>5. ASSUME NEW k \in Modes PROVE ModeTold(k)'
  <2>1. CardsOf(k)' = CardsOf(k) /\ ModeTold(k)
    BY DEF CardsOf, SubmissionInv
  <2>2. CASE k # m
    BY <1>1, <2>1, <2>2 DEF ModeTold
  <2>3. CASE k = m
    <3>1. NoArtifact.card = NoCard
      BY DEF NoArtifact
    <3> QED
      BY <1>1, <1>2, <1>3, <2>1, <2>3, <3>1 DEF ModeTold
  <2> QED
    BY <2>2, <2>3
<1>6. CardsAreClaimed'
  <2>1. \A i \in DOMAIN cards : cards[i].mode \in Modes \ {m}
    BY <1>0, <1>3, CardFields DEF CardsOf
  <2>2. \A i \in DOMAIN cards : claim'[cards[i].mode] = claim[cards[i].mode]
    BY <1>1, <2>1
  <2> QED
    BY <2>2 DEF SubmissionInv, CardsAreClaimed, run, Complete, AllPerfect
<1>7. AskingTold'
  <2>1. proc' \notin Asking
    BY CommandKinds
  <2> QED
    BY <2>1 DEF AskingTold
<1>8. ReportedIsSubmitted'
  BY ReportKept DEF SubmissionInv
<1> QED
  BY <1>0, <1>1, <1>3, <1>4, <1>5, <1>6, <1>7, <1>8

LEMMA CrashStep ==
  ASSUME SubmissionInv, Crash
  PROVE  SubmissionInv'
<1>1. /\ UNCHANGED <<run, pinned, artifact, events, report, cards, started>>
      /\ proc' = NoCommand
      /\ claim' = claim \/
         (proc.at = "claim" /\ claim' = [claim EXCEPT ![proc.mode] = Torn])
  BY DEF Crash, Stop, Torn
<1>2. CASE claim' = claim
  BY <1>1, <1>2, ReportKept, EndsStep DEF SubmissionInv
<1>3. CASE proc.at = "claim" /\ claim' = [claim EXCEPT ![proc.mode] = Torn]
  <2>1. proc \in Asking
    BY <1>3, CommandAt DEF SubmissionInv
  <2>2. /\ Shapes' /\ \A m \in Modes : ModeTold(m)'
        /\ CardsAreClaimed' /\ AskingTold' /\ ReportedIsSubmitted'
    BY <1>1, <1>3, <2>1, Claims
  <2>3. HoldingTold'
    BY <1>1, CommandKinds DEF HoldingTold
  <2> QED
    BY <2>2, <2>3 DEF SubmissionInv
<1> QED
  BY <1>1, <1>2, <1>3

LEMMA WriteClaimStep ==
  ASSUME SubmissionInv, WriteClaim
  PROVE  SubmissionInv'
<1> DEFINE m == proc.mode
<1>0. proc \in Asking /\ proc.at = "claim" /\ m \in Modes /\ bank \in Banks
  BY CommandAt DEF WriteClaim, SubmissionInv, Asking, Shapes
<1>1. PICK d : d = [status |-> "claimed", card |-> NoCard, roster |-> bank,
                    artifact |-> NoArtifact]
  OBVIOUS
<1>2. d \in ClaimRecords /\ d.status = "claimed" /\ d.roster = bank
  BY <1>0, <1>1 DEF ClaimRecords
<1>3. /\ claim' = [claim EXCEPT ![m] = d]
      /\ proc' = [at |-> "announce", mode |-> m, roster |-> bank, card |-> NoCard,
                  played |-> {}, ended |-> "no"]
      /\ UNCHANGED <<run, pinned, artifact, events, report, cards, started>>
  BY <1>1 DEF WriteClaim, Claim
<1>4. /\ proc' \in Holding /\ proc'.at = "announce" /\ proc'.mode = m /\ proc'.roster = bank
      /\ proc'.card = NoCard /\ proc'.played = {} /\ proc'.ended = "no"
  BY <1>0, <1>3 DEF Holding, HoldPlaces, Before
<1>5. /\ Shapes' /\ \A k \in Modes : ModeTold(k)'
      /\ CardsAreClaimed' /\ AskingTold' /\ ReportedIsSubmitted'
      /\ CardsOf(m) = {} /\ Granted(m, bank) /\ claim'[m] = d
  <2> HIDE DEF m
  <2> QED
    BY <1>0, <1>2, <1>3, <1>4, Claims DEF m
<1>6. HoldingTold'
  <2> HIDE DEF m
  <2>1. CardsOf(proc.mode)' = {}
    BY <1>3, <1>4, <1>5 DEF CardsOf
  <2>2. Granted(proc.mode, bank)'
    BY <1>3, <1>4, <1>5 DEF Granted, Complete, AllPerfect, run
  <2> QED
    BY <1>2, <1>3, <1>4, <1>5, <2>1, <2>2
    DEF HoldingTold, Before, BeforeClose, Closed, run
<1> QED
  BY <1>5, <1>6 DEF SubmissionInv

-----------------------------------------------------------------------------
LEMMA SubmissionStart == Init => SubmissionInv
<1> SUFFICES ASSUME Init PROVE SubmissionInv
  OBVIOUS
<1>1. cards = <<>> /\ DOMAIN cards = {} /\ proc = NoCommand /\ report = NoReport
  BY DEF Init
<1>2. Shapes
  <2>1. bank \in Banks /\ cards \in Seq(CardRecords) /\ 0 \in 0..MaxCommands
    BY SubmissionAssumption DEF Init, Banks
  <2> QED
    BY <2>1 DEF Init, Shapes
<1>3. \A m \in Modes : ModeTold(m)
  <2>1. \A m \in Modes : CardsOf(m) = {}
    BY <1>1 DEF CardsOf
  <2> QED
    BY <2>1 DEF ModeTold, Init, NoClaim, NoArtifact
<1>4. CardsAreClaimed /\ AskingTold /\ HoldingTold /\ ReportedIsSubmitted
  BY <1>1, CommandKinds DEF CardsAreClaimed, AskingTold, HoldingTold, ReportedIsSubmitted
<1> QED
  BY <1>2, <1>3, <1>4 DEF SubmissionInv

LEMMA SubmissionStep == SubmissionInv /\ [Next]_vars => SubmissionInv'
<1> SUFFICES ASSUME SubmissionInv, [Next]_vars PROVE SubmissionInv'
  OBVIOUS
<1>1. CASE Quiet
  BY <1>1, QuietStep
<1>2. CASE Proceeds
  BY <1>2, ProceedsStep
<1>3. CASE FinalReport
  BY <1>3, FinalReports, EndsStep DEF FinalReport, Stop
<1>4. CASE UNCHANGED vars
  BY <1>4 DEF vars, run, durable, SubmissionInv, Shapes, ModeTold, CardsOf, CardsAreClaimed,
    AskingTold, HoldingTold, Granted, Summary, ReportedIsSubmitted
<1> QED
  BY <1>1, <1>2, <1>3, <1>4, WriteClaimStep, OpenCardStep, RecordOpenedStep, ReplayGameStep,
    CloseCardStep, WriteArtifactStep, CompleteClaimStep, RecordFailureStep, CrashStep
  DEF Next, Quiet, Proceeds

LEMMA SubmissionInductive == Spec => []SubmissionInv
BY SubmissionStart, SubmissionStep, PTL DEF Spec

\* What compete tests before and after its exclusive claim is enough: a run opens at most
\* one scorecard of a mode, whatever is interrupted, lost or started again.
THEOREM AtMostOneCard == Spec => []OneCardPerMode
<1>1. SubmissionInv => OneCardPerMode
  <2> SUFFICES ASSUME SubmissionInv, NEW m \in Modes
               PROVE  Cardinality(CardsOf(m)) <= 1
    BY DEF OneCardPerMode
  <2>1. \A i, j \in CardsOf(m) : i = j
    BY DEF SubmissionInv, ModeTold
  <2>2. CASE CardsOf(m) = {}
    BY <2>2, FS_EmptySet
  <2>3. CASE CardsOf(m) # {}
    <3>1. PICK i : CardsOf(m) = {i}
      BY <2>1, <2>3
    <3> QED
      BY <3>1, FS_Singleton
  <2> QED
    BY <2>2, <2>3
<1> QED
  BY <1>1, SubmissionInductive, PTL

\* No scorecard exists that the run has not claimed and announced before, with the bank it
\* replays, complete and, for a competition, perfect and cold.
THEOREM CardsWereClaimed == Spec => []CardsAreClaimed
BY SubmissionInductive, PTL DEF SubmissionInv

\* What the claim file says of a scorecard, an operator may rely on.
THEOREM ClaimsAreTrue == Spec => []ClaimTellsTheCard
<1>1. SubmissionInv => ClaimTellsTheCard
  <2> SUFFICES ASSUME SubmissionInv PROVE ClaimTellsTheCard
    OBVIOUS
  <2>1. SubmissionTypeOK
    <3>1. \A m \in Modes : claim[m].status \in Statuses
      <4> SUFFICES ASSUME NEW m \in Modes PROVE claim[m].status \in Statuses
        OBVIOUS
      <4>1. claim[m] \in {NoClaim, Torn} \cup ClaimRecords
        BY DEF SubmissionInv, Shapes
      <4> QED
        BY <4>1, ClaimKinds, ClaimFields DEF Statuses
    <3>2. \A i \in DOMAIN cards : /\ cards[i].mode \in Modes /\ cards[i].state \in CardStates
                              /\ cards[i].played \subseteq Games /\ cards[i].bank \in Banks
      BY CardFields DEF SubmissionInv
    <3> QED
      BY <3>1, <3>2 DEF SubmissionTypeOK, SubmissionInv, Shapes, ModeTold
  <2> QED
    BY <2>1 DEF ClaimTellsTheCard, SubmissionInv, ModeTold
<1> QED
  BY <1>1, SubmissionInductive, PTL

\* A report presents only a scorecard that is closed, fully played and of the bank it
\* reports, and accepts only a perfect competition.
THEOREM ReportsAreSubmitted == Spec => []ReportedIsSubmitted
BY SubmissionInductive, PTL DEF SubmissionInv
=============================================================================
