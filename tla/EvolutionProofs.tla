--------------------------- MODULE EvolutionProofs ---------------------------
(***************************************************************************)
(* Proofs about the generic engine, for every set of trees and scores, any *)
(* prices and any number of attempts and crashes: its safety invariants,   *)
(* and that its checkpoint implements AcceptedLineage.                     *)
(*                                                                         *)
(* The inductive invariant says, for every place of the host, how far the  *)
(* git lineage is ahead of the state in memory (Held), what is known of    *)
(* the candidate's verdict (Judged), and where the step log has the        *)
(* decisions of the checkpoint (Evidence).                                 *)
(***************************************************************************)
EXTENDS Evolution, SequenceTheorems, TLAPS

-----------------------------------------------------------------------------
\* The inductive invariant.

CommitRecords == [id : Nat, parent : Nat \cup {NoState}, generation : Nat,
                  digest : Sound, tree : Trees, score : Scores]
StateRecords == [commit : Nat, log : Seq(StepRecords)]
Proposals == [id : Nat, digest : Trees, decision : Decisions,
              score : Scores \cup {NoState}, patch : Trees \cup {NoState}]

\* The places of an attempt.
Judging == {"rejecting", "archiving", "rolling_back"}
Accepting == {"accepting", "committing"}
Recording == {"publishing", "saving"}
Attempt == {"evaluating", "confirming"} \cup Judging \cup Accepting \cup Recording
Running == {"ready", "varying"} \cup Attempt

Shapes ==
    /\ tree \in Trees /\ orphan \in BOOLEAN /\ anchored \in BOOLEAN /\ place \in Places
    /\ commits \in Seq(CommitRecords) /\ steps \in Seq(Lines)
    /\ saved \in StateRecords \cup {NoState}
    /\ live \in StateRecords \cup {NoState}
    /\ proposal \in Proposals

\* The ledger: a round is asked for before it is charged.
Money == cap \in 1..CapLimit /\ spent \in Nat /\ spent < cap + MaxCost

\* Which state is in memory and on disk where.
Placed ==
    /\ place = "seeding" => commits = <<>> /\ saved = NoState /\ tree = Seed
    /\ place = "seeded" => Len(commits) = 1 /\ saved = NoState
    /\ place = "anchoring" => saved = State(1, <<>>) /\ Len(commits) = 1
    /\ place \in {"seeding", "seeded", "anchoring"} => ~orphan /\ ~anchored
    /\ place \in Running \cup {"down"} => anchored
    /\ anchored => saved # NoState
    /\ place \in Running \cup {"anchoring"} => live = saved /\ live # NoState
    /\ place \notin Running \cup {"anchoring"} => live = NoState

\* The commit holds exactly the tree it was evaluated as.
Sealed(n) == commits[n].tree = commits[n].digest

\* How far the lineage is ahead of the state, and when the workspace is its tip.
Held ==
    /\ saved # NoState => saved.commit \in 1..Len(commits) /\ Sealed(saved.commit)
    /\ place \in {"seeded", "anchoring"} => Sealed(1)
    /\ place \in {"ready", "varying", "evaluating"} \cup Judging \cup Accepting =>
          Len(commits) = live.commit
    /\ place = "confirming" => Len(commits) = live.commit + 1
    /\ place \in Recording =>
          IF proposal.decision = "accepted"
          THEN Len(commits) = live.commit + 1 /\ Sealed(Len(commits))
          ELSE Len(commits) = live.commit
    /\ place \in {"seeded", "anchoring", "ready"} \cup Recording /\ ~orphan => tree = Tip.tree

\* What is known of the candidate and its verdict.
Judged ==
    /\ place \in Attempt => proposal.id = Len(live.log) + 1
    /\ place \in {"evaluating"} \cup Accepting => proposal.digest \in Sound
    /\ place \in Accepting \cup {"confirming"} => proposal.decision = "accepted"
    /\ place \in Accepting =>
          proposal.score \in Scores /\ Accepted(live).score <= proposal.score
    /\ place \in {"confirming"} \cup Recording /\ proposal.decision = "accepted" =>
          Accepted(live).score <= Tip.score
    /\ place \in Judging => proposal.decision # "accepted"
    /\ place = "archiving" => tree = proposal.digest \/ orphan
    /\ place = "rolling_back" => proposal.patch \in {NoState, proposal.digest} \/ orphan
    /\ place \in Recording /\ proposal.decision # "accepted" =>
          proposal.patch = proposal.digest \/ orphan
    /\ place = "saving" =>
          /\ Len(steps) > 0 /\ proposal.id \in steps[Len(steps)].of
          /\ steps[Len(steps)].record \in {StepRecord, NoState}

\* The last line attempt n was written into is the n-th decision of the log, or cannot
\* be read.
Recorded(log, n) ==
    /\ log[n].attempt = n
    /\ \E i \in 1..Len(steps) :
          /\ n \in steps[i].of /\ steps[i].record \in {log[n], NoState}
          /\ \A j \in 1..Len(steps) : n \in steps[j].of => j <= i
    /\ log[n].decision # "accepted" => log[n].patch = log[n].digest \/ orphan

Evidence == saved # NoState => \A n \in 1..Len(saved.log) : Recorded(saved.log, n)

EvolutionInv == Shapes /\ Money /\ Placed /\ Held /\ Judged /\ Evidence

-----------------------------------------------------------------------------
\* What the process leaves when it ends.
LEMMA DieLeaves ==
    ASSUME EvolutionAssumption, Shapes, Die
    PROVE  /\ place' \in {"down", "abandoned"} /\ live' = NoState
           /\ proposal' \in Proposals /\ place' \in Places
           /\ place' \notin Running \cup {"seeding", "seeded", "anchoring"}
           /\ place' = "down" => anchored
<1>1. NoProposal \in Proposals
  BY DEF NoProposal, Proposals, EvolutionAssumption, Decisions
<1> QED
  BY <1>1
     DEF Die, Places, Running, Attempt, Judging, Accepting, Recording

\* A verdict on the tree.
LEMMA ProposeShapes ==
    ASSUME NEW d \in Decisions, NEW t \in Trees, NEW s \in Scores \cup {NoState},
           live \in StateRecords, Propose(d, t, s)
    PROVE  /\ proposal' \in Proposals
           /\ proposal'.id = Len(live.log) + 1 /\ proposal'.digest = t
           /\ proposal'.decision = d /\ proposal'.score = s
<1>1. Len(live.log) + 1 \in Nat
  BY DEF StateRecords
<1> QED
  BY <1>1 DEF Propose, Proposals

LEMMA Known ==
    ASSUME EvolutionInv
    PROVE  /\ place \in Running \cup {"anchoring"} => live \in StateRecords /\ live = saved
           /\ place \in Running => saved \in StateRecords
BY DEF EvolutionInv, Shapes, Placed

\* What an append leaves: a line of its own, or the last line spoilt.
LEMMA LineAppended ==
    ASSUME Shapes, NEW how \in Writes, AppendRecord(how)
    PROVE  /\ steps' \in Seq(Lines) /\ Len(steps) \in Nat /\ Len(steps') \in Nat
           /\ Len(steps') > 0 /\ proposal.id \in steps'[Len(steps')].of
           /\ steps'[Len(steps')].record \in {StepRecord, NoState}
           /\ \/ /\ Len(steps') = Len(steps) + 1
                 /\ \A i \in 1..Len(steps) : steps'[i] = steps[i]
                 /\ steps'[Len(steps')].of = {proposal.id}
              \/ /\ Len(steps') = Len(steps)
                 /\ \A i \in 1..Len(steps) : i # Len(steps) => steps'[i] = steps[i]
                 /\ steps'[Len(steps)].of = steps[Len(steps)].of \cup {proposal.id}
                 /\ steps'[Len(steps)].record = NoState
<1> DEFINE last == Len(steps)
           glued == last > 0 /\ ~steps[last].ended
           e == how = "whole"
           joined == [of |-> steps[last].of \cup {proposal.id}, record |-> NoState, ended |-> e]
           single == [of |-> {proposal.id},
                      record |-> IF how = "torn" THEN NoState ELSE StepRecord, ended |-> e]
<1>1. StepRecord \in StepRecords /\ proposal.id \in Nat /\ last \in Nat /\ e \in BOOLEAN
  BY DEF StepRecord, StepRecords, Shapes, Proposals
<1>2. steps' = IF glued THEN [steps EXCEPT ![last] = joined] ELSE Append(steps, single)
  BY DEF AppendRecord
<1> HIDE DEF e
<1>3. single \in Lines
  BY <1>1 DEF Lines
<1>4. CASE glued
  <2>1. last \in 1..last /\ steps[last] \in Lines
    BY <1>1, <1>4 DEF Shapes
  <2>2. joined \in Lines
    BY <1>1, <2>1 DEF Lines
  <2> HIDE DEF joined
  <2>3. steps' = [steps EXCEPT ![last] = joined]
    BY <1>2, <1>4
  <2>4. steps' \in Seq(Lines) /\ Len(steps') = last /\ steps'[last] = joined
        /\ \A i \in 1..last : i # last => steps'[i] = steps[i]
    BY <1>1, <2>1, <2>2, <2>3 DEF Shapes
  <2>5. joined.of = steps[last].of \cup {proposal.id} /\ joined.record = NoState
    BY DEF joined
  <2> QED
    BY <1>1, <1>4, <2>4, <2>5
<1>5. CASE ~glued
  <2>1. single.of = {proposal.id} /\ single.record \in {StepRecord, NoState}
    OBVIOUS
  <2> HIDE DEF single
  <2>2. steps' = Append(steps, single)
    BY <1>2, <1>5
  <2>3. steps' \in Seq(Lines) /\ Len(steps') = last + 1 /\ steps'[last + 1] = single
        /\ \A i \in 1..last : steps'[i] = steps[i]
    BY <1>1, <1>3, <2>2 DEF Shapes
  <2> QED
    BY <1>1, <2>1, <2>3
<1> QED
  BY <1>4, <1>5

LEMMA ShapesStep ==
    ASSUME EvolutionAssumption, EvolutionInv, [Next]_vars
    PROVE  Shapes'
<1>0. Shapes /\ Placed /\ Held /\ Judged
  BY DEF EvolutionInv
<1>1. ASSUME NEW s \in Scores, SeedCommitted(s)
      PROVE  Shapes'
  <2>1. tree \in Sound
    BY <1>0, <1>1 DEF Placed, SeedCommitted, EvolutionAssumption, Sound
  <2>2. Commit(0, NoState, 0, tree, s) \in CommitRecords
    BY <1>0, <1>1, <2>1 DEF Commit, CommitRecords, Shapes
  <2> HIDE DEF Commit
  <2>3. commits' \in Seq(CommitRecords)
    BY <1>1, <2>2 DEF SeedCommitted
  <2> QED
    BY <1>0, <1>1, <2>3 DEF Shapes, SeedCommitted, Places, fileVars, moneyVars
<1>2. CASE SeedRefused \/ SeedAnchored \/ BeginAttempt
  BY <1>0, <1>2
     DEF Shapes, SeedRefused, SeedAnchored, BeginAttempt, Places, fileVars, moneyVars
<1>3. CASE SeedSaved
  <2>1. State(1, <<>>) \in StateRecords
    BY DEF State, StateRecords
  <2> QED
    BY <1>0, <1>3, <2>1 DEF Shapes, SeedSaved, Places, moneyVars
<1>4. CASE (\E t \in Trees, b \in BOOLEAN : EditTree(t, b)) \/ (\E t \in Trees : OrphanWrites(t))
           \/ \E c \in Costs : ProviderRound(c)
  BY <1>0, <1>4 DEF Shapes, EditTree, OrphanWrites, ProviderRound, fileVars, moneyVars
<1>5. CASE VaryReturns
  <2>1. live \in StateRecords /\ "accepted" \in Decisions
    BY <1>5, Known DEF VaryReturns, Running, Decisions
  <2>2. proposal' \in Proposals
    BY <1>0, <1>5, <2>1, ProposeShapes DEF VaryReturns, Shapes
  <2> QED
    BY <1>0, <1>5, <2>2 DEF Shapes, VaryReturns, Places, fileVars, moneyVars
<1>6. ASSUME NEW b \in BOOLEAN, VaryFails(b)
      PROVE  Shapes'
  <2>1. live \in StateRecords /\ "agent_failed" \in Decisions
    BY <1>6, Known DEF VaryFails, Running, Decisions
  <2>2. /\ proposal' \in Proposals /\ place' \in Places
        /\ live' \in StateRecords \cup {NoState}
    BY <1>0, <1>6, <2>1, ProposeShapes, DieLeaves DEF VaryFails, Shapes, Places
  <2> QED
    BY <1>0, <1>6, <2>2 DEF Shapes, VaryFails, fileVars, moneyVars
<1>7. ASSUME NEW t \in Trees, NEW b \in BOOLEAN, EvaluationFails(t, b)
      PROVE  Shapes'
  <2>1. live \in StateRecords /\ "evaluation_failed" \in Decisions
    BY <1>7, Known DEF EvaluationFails, Running, Attempt, Decisions
  <2>2. /\ proposal' \in Proposals /\ place' \in Places
        /\ live' \in StateRecords \cup {NoState}
    BY <1>0, <1>7, <2>1, ProposeShapes, DieLeaves DEF EvaluationFails, Shapes, Places
  <2> QED
    BY <1>0, <1>7, <2>2 DEF Shapes, EvaluationFails, fileVars, moneyVars
<1>8. ASSUME NEW b \in BOOLEAN, NEW s \in Scores, EvaluationReturns(b, s)
      PROVE  Shapes'
  <2>1. live \in StateRecords
    BY <1>8, Known DEF EvaluationReturns, Running, Attempt
  <2> DEFINE d == IF ~b THEN "rejected_incorrect"
                  ELSE IF s < Accepted(live).score THEN "rejected_regression"
                  ELSE "accepted"
  <2>2. d \in Decisions /\ Propose(d, tree, s)
        /\ place' = (IF d = "accepted" THEN "accepting" ELSE "rejecting")
    BY <1>8 DEF EvaluationReturns, Decisions
  <2> HIDE DEF d
  <2>3. proposal' \in Proposals
    BY <1>0, <2>1, <2>2, ProposeShapes DEF Shapes
  <2>4. place' \in Places
    BY <2>2 DEF Places
  <2> QED
    BY <1>0, <1>8, <2>3, <2>4 DEF Shapes, EvaluationReturns, fileVars, moneyVars
<1>9. CASE CheckRejection \/ CheckAcceptance \/ ConfirmCommit
  <2>1. /\ proposal' \in Proposals /\ place' \in Places
        /\ live' \in StateRecords \cup {NoState}
    BY <1>0, <1>9, DieLeaves
       DEF Shapes, CheckRejection, CheckAcceptance, ConfirmCommit, Places
  <2> QED
    BY <1>0, <1>9, <2>1
       DEF Shapes, CheckRejection, CheckAcceptance, ConfirmCommit, fileVars, moneyVars
<1>10. ASSUME NEW b \in BOOLEAN, ArchiveRejected(b)
       PROVE  Shapes'
  <2>1. proposal' \in Proposals
    <3> DEFINE p == IF b THEN tree ELSE NoState
    <3>1. p \in Trees \cup {NoState} /\ proposal' = [proposal EXCEPT !.patch = p]
      BY <1>0, <1>10 DEF Shapes, ArchiveRejected
    <3> HIDE DEF p
    <3> QED
      BY <1>0, <3>1 DEF Shapes, Proposals
  <2> QED
    BY <1>0, <1>10, <2>1 DEF Shapes, ArchiveRejected, Places, fileVars, moneyVars
<1>11. CASE RollBack
  <2>1. /\ proposal' \in Proposals /\ place' \in Places
        /\ live' \in StateRecords \cup {NoState}
    BY <1>0, <1>11, DieLeaves DEF Shapes, RollBack, Places
  <2>2. Len(commits) \in 1..Len(commits)
    BY <1>0, <1>11, Known
       DEF Held, RollBack, Judging, Running, Attempt, Shapes, Placed
  <2>3. Tip \in CommitRecords
    BY <1>0, <2>2 DEF Tip, Shapes
  <2>4. tree' \in Trees
    BY <1>11, <2>3 DEF RollBack, CommitRecords
  <2> QED
    BY <1>0, <1>11, <2>1, <2>4 DEF Shapes, RollBack, fileVars, moneyVars
<1>12. CASE CommitTree
  <2>1. /\ live \in StateRecords /\ proposal.digest \in Sound /\ proposal.score \in Scores
        /\ live.commit \in 1..Len(commits)
    BY <1>0, <1>12, Known DEF Judged, Accepting, CommitTree, Running, Attempt, Held, Placed
  <2>2. Accepted(live) \in CommitRecords
    BY <1>0, <2>1 DEF Accepted, Shapes
  <2>3. Accepted(live).id \in Nat /\ Accepted(live).generation + 1 \in Nat
    BY <2>2 DEF CommitRecords
  <2> DEFINE c == Commit(proposal.id, Accepted(live).id, Accepted(live).generation + 1,
                         proposal.digest, proposal.score)
  <2>4. c \in CommitRecords
    BY <1>0, <2>1, <2>3 DEF Commit, CommitRecords, Shapes, Proposals
  <2> HIDE DEF c
  <2>5. commits' = Append(commits, c)
    BY <1>12 DEF CommitTree, c
  <2>6. commits' \in Seq(CommitRecords)
    BY <1>0, <2>4, <2>5 DEF Shapes
  <2> QED
    BY <1>0, <1>12, <2>6 DEF Shapes, CommitTree, Places, fileVars, moneyVars
<1>13. StepRecord \in StepRecords
  BY <1>0 DEF StepRecord, StepRecords, Shapes, Proposals
<1>14. ASSUME NEW how \in Writes, AppendRecord(how)
       PROVE  Shapes'
  <2>1. steps' \in Seq(Lines)
    BY <1>0, <1>14, LineAppended
  <2> QED
    BY <1>0, <1>14, <2>1 DEF Shapes, AppendRecord, Places, moneyVars
<1>15. CASE SaveState
  <2>1. live \in StateRecords
    BY <1>15, Known DEF SaveState, Running, Attempt, Recording
  <2> DEFINE n == IF proposal.decision = "accepted" THEN Len(commits) ELSE live.commit
             l == Append(live.log, StepRecord)
  <2>2. n \in Nat /\ l \in Seq(StepRecords)
    BY <1>0, <1>13, <2>1 DEF Shapes, StateRecords
  <2>3. saved' = State(n, l) /\ live' = State(n, l)
    BY <1>15 DEF SaveState
  <2> HIDE DEF n, l
  <2>4. State(n, l) \in StateRecords
    BY <2>2 DEF State, StateRecords
  <2>5. NoProposal \in Proposals
    BY DEF NoProposal, Proposals, EvolutionAssumption, Decisions
  <2> QED
    BY <1>0, <1>15, <2>3, <2>4, <2>5 DEF Shapes, SaveState, Places, moneyVars
<1>16. CASE Crash \/ Finish
  <2>1. /\ proposal' \in Proposals /\ place' \in Places /\ live' = NoState
    BY <1>0, <1>16, DieLeaves DEF Crash, Finish
  <2> QED
    BY <1>0, <1>16, <2>1 DEF Shapes, Crash, Finish, fileVars, moneyVars
<1>17. ASSUME NEW n \in 1..CapLimit, Resume(n)
       PROVE  Shapes'
  BY <1>0, <1>17 DEF Shapes, Resume, Places, fileVars
<1>18. CASE UNCHANGED vars
  BY <1>0, <1>18 DEF Shapes, vars, fileVars, moneyVars
<1> QED
  BY <1>1, <1>2, <1>3, <1>4, <1>5, <1>6, <1>7, <1>8, <1>9, <1>10, <1>11, <1>12, <1>14,
     <1>15, <1>16, <1>17, <1>18 DEF Next, Vary, Decide

-----------------------------------------------------------------------------
\* The ledger, and which state is where.

LEMMA MoneyStep ==
    ASSUME EvolutionAssumption, EvolutionInv, [Next]_vars
    PROVE  Money'
<1>0. Money /\ MaxCost \in Nat \ {0} /\ CapLimit \in Nat /\ Costs \subseteq 0..MaxCost
  BY DEF EvolutionInv, EvolutionAssumption
<1>1. ASSUME NEW c \in Costs, ProviderRound(c)
      PROVE  Money'
  <2>1. /\ spent' = spent + c /\ spent < cap /\ cap' = cap /\ c \in 0..MaxCost
        /\ cap \in 1..CapLimit /\ spent \in Nat
    BY <1>0, <1>1 DEF ProviderRound, Money
  <2> QED
    BY <1>0, <2>1 DEF Money
<1>2. ASSUME NEW n \in 1..CapLimit, Resume(n)
      PROVE  Money'
  <2>1. cap' = n /\ n >= cap /\ spent' = spent
    BY <1>2 DEF Resume
  <2> QED
    BY <1>0, <2>1 DEF Money
<1>3. CASE UNCHANGED <<cap, spent>>
  BY <1>0, <1>3 DEF Money
<1> QED
  BY <1>1, <1>2, <1>3
     DEF Next, Vary, Decide, vars, moneyVars, SeedCommitted, SeedRefused, SeedSaved, SeedAnchored,
         BeginAttempt, EditTree, VaryReturns, VaryFails, EvaluationFails,
         EvaluationReturns, CheckRejection, ArchiveRejected, RollBack, CheckAcceptance,
         CommitTree, ConfirmCommit, AppendRecord, SaveState, Crash, Finish, OrphanWrites

LEMMA PlacedStep ==
    ASSUME EvolutionAssumption, EvolutionInv, [Next]_vars
    PROVE  Placed'
<1>0. Shapes /\ Placed
  BY DEF EvolutionInv
<1>a. NoState \notin StateRecords
  BY NoneIsNoState DEF StateRecords
<1>1. ASSUME NEW s \in Scores, SeedCommitted(s)
      PROVE  Placed'
  <2>1. Len(commits') = 1
    BY <1>1 DEF SeedCommitted
  <2> QED
    BY <1>0, <1>1, <2>1 DEF Placed, SeedCommitted, Running, Attempt, Judging, Accepting,
                            Recording, fileVars
<1>2. CASE SeedSaved
  <2>1. State(1, <<>>) \in StateRecords
    BY DEF State, StateRecords
  <2>2. State(1, <<>>) # NoState
    BY <1>a, <2>1
  <2> QED
    BY <1>0, <1>2, <2>2 DEF Placed, SeedSaved, Running, Attempt, Judging, Accepting,
                            Recording
<1>3. CASE SeedRefused \/ SeedAnchored \/ BeginAttempt \/ VaryReturns
           \/ (\E b \in BOOLEAN, s \in Scores : EvaluationReturns(b, s))
           \/ (\E b \in BOOLEAN : ArchiveRejected(b)) \/ CommitTree
  BY <1>0, <1>3
     DEF Placed, SeedRefused, SeedAnchored, BeginAttempt, VaryReturns, EvaluationReturns,
         ArchiveRejected, CommitTree, Running, Attempt, Judging, Accepting,
         Recording, fileVars
<1>4. CASE (\E t \in Trees, b \in BOOLEAN : EditTree(t, b)) \/ (\E t \in Trees : OrphanWrites(t))
           \/ \E c \in Costs : ProviderRound(c)
  BY <1>0, <1>4
     DEF Placed, EditTree, OrphanWrites, ProviderRound, Running, Attempt, fileVars
<1>5. CASE (\E b \in BOOLEAN : VaryFails(b))
           \/ (\E t \in Trees, b \in BOOLEAN : EvaluationFails(t, b))
           \/ CheckRejection \/ RollBack \/ CheckAcceptance \/ ConfirmCommit
  <2>1. /\ place \in Running /\ UNCHANGED <<saved, anchored>>
        /\ \/ place' \in Running /\ live' = live
           \/ Die
    BY <1>5
       DEF VaryFails, EvaluationFails, CheckRejection, RollBack, CheckAcceptance,
           ConfirmCommit, Running, Attempt, Judging, Accepting, Recording, fileVars
  <2> QED
    BY <1>0, <2>1, DieLeaves
       DEF Placed, Running, Attempt, Judging, Accepting, Recording
<1>6. CASE SaveState
  <2>1. live' \in StateRecords \cup {NoState} /\ live' = saved' /\ anchored' = anchored
        /\ place = "saving" /\ place' = "ready"
    BY <1>6, ShapesStep DEF SaveState, Shapes
  <2>2. live' \in StateRecords
    <3>1. live \in StateRecords
      BY <2>1, Known DEF Running, Attempt, Recording
    <3>2. StepRecord \in StepRecords
      BY <1>0 DEF StepRecord, StepRecords, Shapes, Proposals
    <3> DEFINE n == IF proposal.decision = "accepted" THEN Len(commits) ELSE live.commit
               l == Append(live.log, StepRecord)
    <3>3. n \in Nat /\ l \in Seq(StepRecords)
      BY <1>0, <3>1, <3>2 DEF Shapes, StateRecords
    <3>4. live' = State(n, l)
      BY <1>6 DEF SaveState
    <3> HIDE DEF n, l
    <3> QED
      BY <3>3, <3>4 DEF State, StateRecords
  <2>3. live' # NoState
    BY <1>a, <2>2
  <2> QED
    BY <1>0, <2>1, <2>3 DEF Placed, Running, Attempt, Judging, Accepting, Recording
<1>7. CASE Crash \/ Finish
  <2>1. Die /\ UNCHANGED <<saved, anchored>>
    BY <1>7 DEF Crash, Finish, fileVars
  <2> QED
    BY <1>0, <2>1, DieLeaves DEF Placed, Running, Attempt, Judging, Accepting, Recording
<1>8. ASSUME NEW n \in 1..CapLimit, Resume(n)
      PROVE  Placed'
  <2>1. anchored
    BY <1>0, <1>8 DEF Resume, Placed, Matches, Running
  <2> QED
    BY <1>0, <1>8, <2>1 DEF Placed, Resume, Running, Attempt, Judging, Accepting,
                            Recording, fileVars
<1>9. CASE UNCHANGED vars
  BY <1>0, <1>9 DEF Placed, vars, fileVars, Running
<1>10. ASSUME NEW how \in Writes, AppendRecord(how)
       PROVE  Placed'
  <2>1. /\ place = "publishing" /\ place' = "saving"
        /\ UNCHANGED <<tree, orphan, commits, saved, anchored, live>>
    BY <1>10 DEF AppendRecord
  <2> QED
    BY <1>0, <2>1 DEF Placed, Running, Attempt, Judging, Accepting, Recording
<1> QED
  BY <1>1, <1>2, <1>3, <1>4, <1>5, <1>6, <1>7, <1>8, <1>9, <1>10 DEF Next, Vary, Decide

-----------------------------------------------------------------------------
\* The lineage.

\* Commits are only added at the end.
LEMMA CommitsGrow ==
    ASSUME EvolutionAssumption, EvolutionInv, [Next]_vars
    PROVE  /\ Len(commits) \in Nat /\ Len(commits') \in Nat
           /\ Len(commits) <= Len(commits')
           /\ \A i \in 1..Len(commits) : commits'[i] = commits[i]
<1>0. Shapes /\ Shapes' /\ Placed
  BY ShapesStep DEF EvolutionInv
<1>1. Len(commits) \in Nat /\ Len(commits') \in Nat
  BY <1>0 DEF Shapes
<1>2. CASE UNCHANGED commits
  BY <1>1, <1>2
<1>3. ASSUME NEW s \in Scores, SeedCommitted(s)
      PROVE  Len(commits) = 0
  BY <1>0, <1>3 DEF Placed, SeedCommitted
<1>4. CASE CommitTree
  <2> DEFINE c == Commit(proposal.id, Accepted(live).id, Accepted(live).generation + 1,
                         proposal.digest, proposal.score)
  <2>1. commits' = Append(commits, c)
    BY <1>4 DEF CommitTree
  <2> HIDE DEF c
  <2>2. Len(commits') = Len(commits) + 1 /\ \A i \in 1..Len(commits) : commits'[i] = commits[i]
    BY <1>0, <2>1 DEF Shapes
  <2> QED
    BY <1>1, <2>2
<1>5. ASSUME NEW how \in Writes, AppendRecord(how)
      PROVE  UNCHANGED commits
  BY <1>5 DEF AppendRecord
<1> QED
  BY <1>1, <1>2, <1>3, <1>4, <1>5
     DEF Next, Vary, Decide, vars, fileVars, SeedRefused, SeedSaved, SeedAnchored,
         BeginAttempt, EditTree, VaryReturns, VaryFails, EvaluationFails, ProviderRound,
         EvaluationReturns, CheckRejection, ArchiveRejected, RollBack, CheckAcceptance,
         ConfirmCommit, SaveState, Crash, Finish, OrphanWrites, Resume

\* The checkpoint's commit stays what it was.
LEMMA SavedHeld ==
    ASSUME EvolutionAssumption, EvolutionInv, [Next]_vars, UNCHANGED saved
    PROVE  saved' # NoState => saved'.commit \in 1..Len(commits') /\ Sealed(saved.commit)'
<1>0. Held
  BY DEF EvolutionInv
<1>1. CASE saved # NoState
  <2>1. saved.commit \in 1..Len(commits) /\ commits[saved.commit].tree
                                              = commits[saved.commit].digest
    BY <1>0, <1>1 DEF Held, Sealed
  <2>2. saved.commit \in 1..Len(commits') /\ commits'[saved.commit] = commits[saved.commit]
    BY <2>1, CommitsGrow
  <2> QED
    BY <2>1, <2>2 DEF Sealed
<1> QED
  BY <1>1

LEMMA HeldStep ==
    ASSUME EvolutionAssumption, EvolutionInv, [Next]_vars
    PROVE  Held'
<1>0. Shapes /\ Placed /\ Held /\ Judged /\ Shapes' /\ Placed'
  BY ShapesStep, PlacedStep DEF EvolutionInv
<1>1. ASSUME NEW s \in Scores, SeedCommitted(s)
      PROVE  Held'
  <2> DEFINE c == Commit(0, NoState, 0, tree, s)
  <2>1. /\ commits' = <<c>> /\ place' = "seeded" /\ tree' = tree /\ saved' = NoState
        /\ c.tree = tree /\ c.digest = tree
    BY <1>0, <1>1 DEF SeedCommitted, Placed, fileVars, Commit
  <2> HIDE DEF c
  <2>2. Len(commits') = 1 /\ commits'[1] = c
    BY <2>1
  <2> QED
    BY <2>1, <2>2 DEF Held, Sealed, Tip, Judging, Accepting, Recording
<1>2. CASE SeedSaved
  <2>1. /\ saved' = State(1, <<>>) /\ live' = saved' /\ UNCHANGED <<tree, commits, orphan>>
        /\ place' = "anchoring" /\ place = "seeded" /\ State(1, <<>>).commit = 1
    BY <1>2 DEF SeedSaved, State
  <2> QED
    BY <1>0, <2>1 DEF Held, Placed, Sealed, Tip, Judging, Accepting, Recording
<1>3. CASE SeedAnchored
  <2>1. State(1, <<>>).commit = 1
    BY DEF State
  <2> QED
    BY <1>0, <1>3, <2>1
       DEF Held, SeedAnchored, Placed, Sealed, Tip, Judging, Accepting, Recording
<1>4. CASE Die /\ UNCHANGED <<saved, commits>>
  BY <1>0, <1>4, DieLeaves
     DEF Held, Sealed, Running, Attempt, Judging, Accepting, Recording
<1>5. CASE SeedRefused \/ Crash \/ Finish
  BY <1>0, <1>4, <1>5
     DEF Held, Sealed, SeedRefused, Crash, Finish, fileVars, Judging, Accepting, Recording
<1>6. CASE BeginAttempt \/ VaryReturns \/ (\E t \in Trees, b \in BOOLEAN : EditTree(t, b))
           \/ (\E c \in Costs : ProviderRound(c))
  BY <1>0, <1>6
     DEF Held, Sealed, Tip, BeginAttempt, VaryReturns, EditTree, ProviderRound, fileVars,
         Judging, Accepting, Recording
<1>7. CASE \E t \in Trees : OrphanWrites(t)
  BY <1>0, <1>7 DEF Held, Sealed, OrphanWrites, fileVars
<1>8. CASE (\E b \in BOOLEAN : VaryFails(b))
           \/ (\E t \in Trees, b \in BOOLEAN : EvaluationFails(t, b))
           \/ (\E b \in BOOLEAN, s \in Scores : EvaluationReturns(b, s))
           \/ CheckRejection \/ (\E b \in BOOLEAN : ArchiveRejected(b)) \/ CheckAcceptance
  <2>1. /\ place \in {"varying", "evaluating"} \cup Judging \cup Accepting
        /\ UNCHANGED <<saved, commits>>
        /\ \/ place' \in Judging \cup Accepting /\ live' = live
           \/ Die
    BY <1>8
       DEF VaryFails, EvaluationFails, EvaluationReturns, CheckRejection, ArchiveRejected,
           CheckAcceptance, Judging, Accepting, fileVars
  <2>2. CASE place' \in Judging \cup Accepting /\ live' = live
    BY <1>0, <2>1, <2>2 DEF Held, Sealed, Judging, Accepting, Recording
  <2> QED
    BY <1>4, <2>1, <2>2
<1>9. CASE RollBack
  <2>1. CASE proposal.patch # NoState
    BY <1>0, <1>9, <2>1
       DEF RollBack, Held, Judged, Sealed, Tip, Judging, Accepting, Recording, fileVars
  <2>2. CASE proposal.patch = NoState
    BY <1>4, <1>9, <2>2 DEF RollBack, fileVars
  <2> QED
    BY <2>1, <2>2
<1>10. CASE CommitTree
  <2> DEFINE c == Commit(proposal.id, Accepted(live).id, Accepted(live).generation + 1,
                         proposal.digest, proposal.score)
  <2>1. commits' = Append(commits, c) /\ place' = "confirming" /\ live' = live
        /\ saved' = saved /\ Len(commits) = live.commit
    BY <1>0, <1>10 DEF CommitTree, fileVars, Held, Accepting
  <2> HIDE DEF c
  <2>2. Len(commits') = live'.commit + 1
    BY <1>0, <2>1 DEF Shapes
  <2> QED
    BY <2>1, <2>2, SavedHeld DEF Held, Judging, Accepting, Recording
<1>11. CASE ConfirmCommit
  <2>1. CASE Matches(State(Len(commits), <<>>))
    <3>1. tree = commits[Len(commits)].digest /\ tree = Tip.tree
      BY <2>1 DEF Matches, Accepted, State
    <3>2. Sealed(Len(commits))
      BY <3>1 DEF Sealed, Tip
    <3> QED
      BY <1>0, <1>11, <2>1, <3>1, <3>2
         DEF ConfirmCommit, Held, Judged, Sealed, Tip, fileVars, Judging, Accepting, Recording
  <2>2. CASE ~Matches(State(Len(commits), <<>>))
    BY <1>4, <1>11, <2>2 DEF ConfirmCommit, fileVars
  <2> QED
    BY <2>1, <2>2
<1>12. CASE \E how \in Writes : AppendRecord(how)
  BY <1>0, <1>12
     DEF AppendRecord, Held, Sealed, Tip, Judging, Accepting, Recording
<1>13. CASE SaveState
  <2>1. live \in StateRecords /\ live = saved /\ saved # NoState
    BY <1>0, <1>13, Known DEF SaveState, Running, Attempt, Recording, Placed
  <2> DEFINE n == IF proposal.decision = "accepted" THEN Len(commits) ELSE live.commit
             l == Append(live.log, StepRecord)
  <2>2. saved' = State(n, l) /\ live' = State(n, l) /\ State(n, l).commit = n
        /\ UNCHANGED <<tree, commits, orphan>> /\ place = "saving" /\ place' = "ready"
    BY <1>13 DEF SaveState, State
  <2>3. n = Len(commits) /\ Sealed(n) /\ n \in 1..Len(commits)
    <3>1. CASE proposal.decision = "accepted"
      <4>1. live.commit \in Nat /\ Len(commits) = live.commit + 1
        BY <1>0, <2>1, <2>2, <3>1 DEF Held, Recording, StateRecords
      <4> QED
        BY <1>0, <2>2, <3>1, <4>1 DEF Held, Recording
    <3>2. CASE proposal.decision # "accepted"
      BY <1>0, <2>1, <2>2, <3>2 DEF Held, Recording
    <3> QED
      BY <3>1, <3>2
  <2> HIDE DEF n, l
  <2> QED
    BY <1>0, <2>2, <2>3 DEF Held, Sealed, Tip, Judging, Accepting, Recording
<1>14. ASSUME NEW n \in 1..CapLimit, Resume(n)
       PROVE  Held'
  <2>1. Matches(saved) /\ live' = saved /\ UNCHANGED <<saved, commits, tree>>
        /\ place' = "ready"
    BY <1>14 DEF Resume, fileVars
  <2> QED
    BY <1>0, <2>1 DEF Matches, Held, Sealed, Tip, Judging, Accepting, Recording
<1>15. CASE UNCHANGED vars
  BY <1>0, <1>15 DEF Held, Sealed, Tip, vars, fileVars, moneyVars
<1> QED
  BY <1>1, <1>2, <1>3, <1>5, <1>6, <1>7, <1>8, <1>9, <1>10, <1>11, <1>12, <1>13, <1>14,
     <1>15 DEF Next, Vary, Decide

-----------------------------------------------------------------------------
\* The verdict.

LEMMA JudgedStep ==
    ASSUME EvolutionAssumption, EvolutionInv, [Next]_vars
    PROVE  Judged'
<1>0. Shapes /\ Placed /\ Held /\ Judged /\ Shapes'
  BY ShapesStep DEF EvolutionInv
<1>k. place \in Running => live \in StateRecords
  BY Known
<1>1. CASE place' \notin Attempt
  BY <1>1 DEF Judged, Attempt, Judging, Accepting, Recording
<1>2. CASE VaryReturns
  <2>1. /\ proposal'.id = Len(live.log) + 1 /\ proposal'.digest = tree /\ tree \in Sound
        /\ live' = live /\ place' = "evaluating"
    BY <1>0, <1>2, <1>k, ProposeShapes DEF VaryReturns, Running, Decisions, Shapes
  <2> QED
    BY <2>1 DEF Judged, Judging, Accepting, Recording
<1>3. ASSUME NEW b \in BOOLEAN, VaryFails(b), place' \in Attempt
      PROVE  Judged'
  <2>1. /\ Propose("agent_failed", tree, NoState) /\ live' = live /\ place' = "rejecting"
        /\ place = "varying"
    BY <1>0, <1>3, DieLeaves DEF VaryFails, Running
  <2>2. proposal'.id = Len(live.log) + 1 /\ proposal'.decision = "agent_failed"
    BY <1>0, <1>k, <2>1, ProposeShapes DEF Running, Decisions, Shapes
  <2> QED
    BY <2>1, <2>2 DEF Judged, Judging, Accepting, Recording
<1>4. ASSUME NEW t \in Trees, NEW b \in BOOLEAN, EvaluationFails(t, b), place' \in Attempt
      PROVE  Judged'
  <2>1. /\ Propose("evaluation_failed", t, NoState) /\ live' = live /\ place' = "rejecting"
        /\ place = "evaluating"
    BY <1>0, <1>4, DieLeaves DEF EvaluationFails, Running
  <2>2. proposal'.id = Len(live.log) + 1 /\ proposal'.decision = "evaluation_failed"
    BY <1>0, <1>k, <2>1, ProposeShapes DEF Running, Attempt, Decisions, Shapes
  <2> QED
    BY <2>1, <2>2 DEF Judged, Judging, Accepting, Recording
<1>5. ASSUME NEW b \in BOOLEAN, NEW s \in Scores, EvaluationReturns(b, s)
      PROVE  Judged'
  <2> DEFINE d == IF ~b THEN "rejected_incorrect"
                  ELSE IF s < Accepted(live).score THEN "rejected_regression"
                  ELSE "accepted"
  <2>1. /\ d \in Decisions /\ Propose(d, tree, s)
        /\ place' = (IF d = "accepted" THEN "accepting" ELSE "rejecting")
        /\ place = "evaluating" /\ tree = proposal.digest
        /\ UNCHANGED <<live, commits>>
    BY <1>5 DEF EvaluationReturns, Decisions, fileVars
  <2>2. d = "accepted" => Accepted(live).score <= s
    <3>1. place \in {"ready", "varying", "evaluating"} /\ place \in Running
      BY <2>1 DEF Running, Attempt
    <3>2. live \in StateRecords /\ live = saved /\ saved # NoState
      BY <1>0, <3>1, Known DEF Placed
    <3>3. live.commit \in 1..Len(commits)
      BY <1>0, <3>2 DEF Held
    <3>4. Accepted(live) \in CommitRecords
      BY <1>0, <3>3 DEF Accepted, Shapes
    <3>5. Accepted(live).score \in Int /\ s \in Int
      BY <3>4 DEF CommitRecords, EvolutionAssumption
    <3> QED
      BY <3>5
  <2> HIDE DEF d
  <2>3. /\ proposal'.id = Len(live.log) + 1 /\ proposal'.digest = tree
        /\ proposal'.decision = d /\ proposal'.score = s
    BY <1>0, <1>k, <2>1, ProposeShapes DEF Running, Attempt, Shapes
  <2> QED
    BY <1>0, <2>1, <2>2, <2>3 DEF Judged, Accepted, Judging, Accepting, Recording, Attempt
<1>6. CASE (CheckRejection \/ CheckAcceptance) /\ place' \in Attempt
  BY <1>0, <1>6, DieLeaves
     DEF Judged, CheckRejection, CheckAcceptance, Accepted, Running, Attempt, Judging,
         Accepting, Recording, fileVars
<1>7. ASSUME NEW b \in BOOLEAN, ArchiveRejected(b)
      PROVE  Judged'
  <2> DEFINE p == IF b THEN tree ELSE NoState
  <2>1. proposal' = [proposal EXCEPT !.patch = p]
    BY <1>7 DEF ArchiveRejected
  <2>2. p \in {NoState, proposal.digest} \/ orphan
    BY <1>0, <1>7 DEF Judged, ArchiveRejected
  <2> HIDE DEF p
  <2>3. /\ proposal'.id = proposal.id /\ proposal'.decision = proposal.decision
        /\ proposal'.digest = proposal.digest /\ proposal'.patch = p
    BY <1>0, <2>1 DEF Shapes, Proposals
  <2> QED
    BY <1>0, <1>7, <2>2, <2>3
       DEF Judged, ArchiveRejected, Attempt, Judging, Accepting, Recording
<1>8. CASE RollBack /\ place' \in Attempt
  <2>1. proposal.patch # NoState /\ place' = "publishing" /\ place = "rolling_back"
        /\ UNCHANGED <<live, proposal, orphan, commits>>
    BY <1>0, <1>8, DieLeaves DEF RollBack, Running
  <2> QED
    BY <1>0, <2>1 DEF Judged, Attempt, Judging, Accepting, Recording
<1>9. CASE CommitTree
  <2> DEFINE c == Commit(proposal.id, Accepted(live).id, Accepted(live).generation + 1,
                         proposal.digest, proposal.score)
  <2>1. commits' = Append(commits, c) /\ place' = "confirming" /\ place = "committing"
        /\ UNCHANGED <<live, proposal>> /\ c.score = proposal.score
    BY <1>9 DEF CommitTree, Commit
  <2>2. live.commit = Len(commits) /\ live.commit \in 1..Len(commits)
    BY <1>0, <2>1 DEF Held, Placed, Accepting, Running, Attempt
  <2>3. c \in CommitRecords
    <3>1. Accepted(live) \in CommitRecords /\ live \in StateRecords
      BY <1>0, <1>k, <2>1, <2>2 DEF Accepted, Shapes, Running, Attempt, Accepting
    <3>2. Accepted(live).id \in Nat /\ Accepted(live).generation + 1 \in Nat
      BY <3>1 DEF CommitRecords
    <3> QED
      BY <1>0, <2>1, <3>2 DEF Commit, CommitRecords, Shapes, Proposals, Judged, Accepting
  <2> HIDE DEF c
  <2>4. Len(commits') = Len(commits) + 1 /\ commits'[Len(commits) + 1] = c
        /\ \A i \in 1..Len(commits) : commits'[i] = commits[i]
    BY <1>0, <2>1, <2>3 DEF Shapes
  <2>5. commits'[live.commit].score <= commits'[Len(commits')].score
    BY <1>0, <2>1, <2>2, <2>4 DEF Judged, Accepting, Accepted
  <2> QED
    BY <1>0, <2>1, <2>5 DEF Judged, Accepted, Tip, Attempt, Judging, Accepting, Recording
<1>10. CASE ConfirmCommit /\ place' \in Attempt
  <2>1. place' = "publishing" /\ place = "confirming"
        /\ UNCHANGED <<live, proposal, orphan, commits>>
    BY <1>0, <1>10, DieLeaves DEF ConfirmCommit, Running
  <2> QED
    BY <1>0, <2>1 DEF Judged, Accepted, Tip, Attempt, Judging, Accepting, Recording
<1>11. ASSUME NEW how \in Writes, AppendRecord(how)
       PROVE  Judged'
  <2>1. StepRecord' = StepRecord /\ proposal' = proposal
    BY <1>11 DEF AppendRecord, StepRecord
  <2>2. /\ Len(steps') > 0 /\ proposal.id \in steps'[Len(steps')].of
        /\ steps'[Len(steps')].record \in {StepRecord, NoState}
    BY <1>0, <1>11, LineAppended
  <2> QED
    BY <1>0, <1>11, <2>1, <2>2
       DEF AppendRecord, Judged, Accepted, Tip, Attempt, Judging, Accepting, Recording
<1>12. CASE \E t \in Trees : OrphanWrites(t)
  BY <1>0, <1>12 DEF Judged, OrphanWrites, StepRecord, Accepted, Tip, fileVars
<1>13. CASE UNCHANGED vars
  BY <1>0, <1>13 DEF Judged, vars, fileVars, moneyVars, StepRecord, Accepted, Tip
<1>14. CASE Crash \/ Finish
  BY <1>0, <1>1, <1>14, DieLeaves DEF Crash, Finish, Running
<1>15. CASE \/ (\E s \in Scores : SeedCommitted(s)) \/ SeedRefused \/ SeedSaved
            \/ SeedAnchored \/ BeginAttempt \/ SaveState
            \/ (\E t \in Trees, b \in BOOLEAN : EditTree(t, b)) \/ (\E c \in Costs : ProviderRound(c))
            \/ \E n \in 1..CapLimit : Resume(n)
  <2>1. place' \notin Attempt
    BY <1>15
       DEF SeedCommitted, SeedRefused, SeedSaved, SeedAnchored, BeginAttempt, SaveState,
           EditTree, ProviderRound, Resume, Attempt, Judging, Accepting, Recording
  <2> QED
    BY <1>1, <2>1
<1> QED
  BY <1>1, <1>2, <1>3, <1>4, <1>5, <1>6, <1>7, <1>8, <1>9, <1>10, <1>11, <1>12, <1>13,
     <1>14, <1>15 DEF Next, Vary, Decide

-----------------------------------------------------------------------------
\* The step log.

LEMMA EvidenceStep ==
    ASSUME EvolutionAssumption, EvolutionInv, [Next]_vars
    PROVE  Evidence'
<1>0. Shapes /\ Placed /\ Judged /\ Evidence
  BY DEF EvolutionInv
<1>1. orphan => orphan'
  BY <1>0
     DEF Shapes, Next, Vary, Decide, vars, SeedCommitted, SeedRefused, SeedSaved, SeedAnchored,
         BeginAttempt, EditTree, ProviderRound, VaryReturns, VaryFails, EvaluationFails,
         EvaluationReturns, CheckRejection, ArchiveRejected, RollBack, CheckAcceptance,
         CommitTree, ConfirmCommit, AppendRecord, SaveState, Crash, Finish, Resume,
         OrphanWrites
<1>2. CASE UNCHANGED <<steps, saved>>
  BY <1>0, <1>1, <1>2 DEF Evidence, Recorded
<1>3. CASE SeedSaved
  <2>1. saved'.log = <<>>
    BY <1>3 DEF SeedSaved, State
  <2>2. Len(saved'.log) = 0
    BY <2>1
  <2>3. \A n : n \notin 1..0
    OBVIOUS
  <2> QED
    BY <2>2, <2>3 DEF Evidence
<1>4. ASSUME NEW how \in Writes, AppendRecord(how)
      PROVE  Evidence'
  <2>1. saved' = saved /\ live = saved /\ saved \in StateRecords
        /\ proposal.id = Len(saved.log) + 1 /\ Len(saved.log) \in Nat
    BY <1>0, <1>4, Known
       DEF AppendRecord, Placed, Judged, Running, Attempt, Recording, StateRecords
  <2>2. ASSUME NEW n \in 1..Len(saved.log)
        PROVE  Recorded(saved.log, n)'
    <3>1. Recorded(saved.log, n) /\ n # proposal.id
      BY <1>0, <1>4, <2>1, <2>2 DEF AppendRecord, Evidence, Placed, Running, Attempt, Recording
    <3>2. PICK i \in 1..Len(steps) :
                 /\ n \in steps[i].of /\ steps[i].record \in {saved.log[n], NoState}
                 /\ \A j \in 1..Len(steps) : n \in steps[j].of => j <= i
      BY <3>1 DEF Recorded
    <3>3. /\ i \in 1..Len(steps') /\ n \in steps'[i].of
          /\ steps'[i].record \in {saved.log[n], NoState}
      BY <1>0, <1>4, <3>2, LineAppended
    <3>4. ASSUME NEW j \in 1..Len(steps'), n \in steps'[j].of
          PROVE  j <= i
      <4>1. j \in 1..Len(steps) /\ n \in steps[j].of
        BY <1>0, <1>4, <3>1, <3>4, LineAppended
      <4> QED
        BY <3>2, <4>1
    <3> QED
      BY <1>1, <2>1, <3>1, <3>3, <3>4 DEF Recorded
  <2> QED
    BY <2>1, <2>2 DEF Evidence
<1>5. CASE SaveState
  <2>1. StepRecord \in StepRecords /\ live \in StateRecords /\ live = saved
        /\ saved # NoState
    <3>1. place \in Running
      BY <1>5 DEF SaveState, Running, Attempt, Recording
    <3> QED
      BY <1>0, <3>1, Known DEF StepRecord, StepRecords, Shapes, Proposals, Placed
  <2> DEFINE l == Append(live.log, StepRecord)
  <2>2. saved'.log = l /\ steps' = steps /\ orphan' = orphan
    BY <1>5 DEF SaveState, State
  <2>3. Len(l) = Len(saved.log) + 1 /\ l[Len(saved.log) + 1] = StepRecord
        /\ Len(saved.log) \in Nat /\ \A n \in 1..Len(saved.log) : l[n] = saved.log[n]
    BY <2>1 DEF StateRecords
  <2> HIDE DEF l
  <2>4. /\ Len(steps) > 0 /\ Len(saved.log) + 1 \in steps[Len(steps)].of
        /\ steps[Len(steps)].record \in {StepRecord, NoState}
        /\ StepRecord.attempt = Len(saved.log) + 1
        /\ StepRecord.decision # "accepted" =>
              StepRecord.patch = StepRecord.digest \/ orphan
    BY <1>0, <1>5, <2>1 DEF Judged, SaveState, StepRecord, Attempt, Recording
  <2>5. ASSUME NEW n \in 1..Len(l)
        PROVE  Recorded(l, n)
    <3>1. CASE n \in 1..Len(saved.log)
      <4>1. Recorded(saved.log, n) /\ l[n] = saved.log[n]
        BY <1>0, <2>1, <2>3, <3>1 DEF Evidence
      <4> QED
        BY <4>1 DEF Recorded
    <3>2. CASE n \notin 1..Len(saved.log)
      <4>1. n = Len(saved.log) + 1
        BY <2>3, <3>2
      <4>2. Len(steps) \in 1..Len(steps) /\ \A j \in 1..Len(steps) : j <= Len(steps)
        BY <1>0, <2>4 DEF Shapes
      <4> QED
        BY <2>3, <2>4, <4>1, <4>2 DEF Recorded
    <3> QED
      BY <3>1, <3>2
  <2>6. \A n \in 1..Len(saved'.log) : Recorded(saved.log, n)'
    BY <2>2, <2>5 DEF Recorded
  <2> QED
    BY <2>6 DEF Evidence
<1> QED
  BY <1>2, <1>3, <1>4, <1>5
     DEF Next, Vary, Decide, vars, fileVars, SeedCommitted, SeedRefused, SeedAnchored,
         BeginAttempt, EditTree, ProviderRound, VaryReturns, VaryFails, EvaluationFails,
         EvaluationReturns, CheckRejection, ArchiveRejected, RollBack, CheckAcceptance,
         CommitTree, ConfirmCommit, Crash, Finish, Resume, OrphanWrites

-----------------------------------------------------------------------------
\* The inductive invariant.

LEMMA EvolutionInvStarts == EvolutionAssumption /\ Init => EvolutionInv
<1> SUFFICES ASSUME EvolutionAssumption, Init PROVE EvolutionInv
  OBVIOUS
<1>1. Shapes
  <2>1. NoProposal \in Proposals
    BY DEF NoProposal, Proposals, Decisions, EvolutionAssumption
  <2>2. <<>> \in Seq(CommitRecords) /\ <<>> \in Seq(Lines)
    OBVIOUS
  <2>3. Seed \in Trees /\ "seeding" \in Places
    BY DEF EvolutionAssumption, Places
  <2> QED
    BY <2>1, <2>2, <2>3 DEF Init, Shapes
<1>2. Money
  BY DEF Init, Money, EvolutionAssumption
<1>3. Placed
  BY DEF Init, Placed, Running, Attempt, Judging, Accepting, Recording
<1>4. Held
  BY DEF Init, Held, Judging, Accepting, Recording
<1>5. Judged
  BY DEF Init, Judged, Attempt, Judging, Accepting, Recording
<1>6. Evidence
  BY DEF Init, Evidence
<1> QED
  BY <1>1, <1>2, <1>3, <1>4, <1>5, <1>6 DEF EvolutionInv

\* In every reachable state the place of the host tells what it holds: how far git is
\* ahead of the state in memory, what is known of the verdict, and where the step log
\* has the decisions of the checkpoint.
THEOREM EvolutionInvariant == Spec => []EvolutionInv
<1>1. EvolutionInv /\ [Next]_vars => EvolutionInv'
  <2> SUFFICES ASSUME EvolutionInv, [Next]_vars PROVE EvolutionInv'
    OBVIOUS
  <2>1. Shapes' /\ Money' /\ Placed' /\ Held' /\ Judged' /\ Evidence'
    BY EvolutionAssumption, ShapesStep, MoneyStep, PlacedStep, HeldStep, JudgedStep,
       EvidenceStep
  <2> QED
    BY <2>1 DEF EvolutionInv
<1> QED
  BY <1>1, EvolutionInvStarts, EvolutionAssumption, PTL DEF Spec

-----------------------------------------------------------------------------
\* The state of the engine, of git and of the files keeps its types.
THEOREM EvolutionTypes == Spec => []EvolutionTypeOK
<1>1. EvolutionInv => EvolutionTypeOK
  <2> SUFFICES ASSUME EvolutionInv PROVE EvolutionTypeOK
    OBVIOUS
  <2>0. Shapes /\ Money /\ Placed /\ Held
    BY DEF EvolutionInv
  <2>1. /\ \A i \in DOMAIN commits : commits[i].tree \in Trees /\ commits[i].digest \in Sound
        /\ \A i \in DOMAIN steps :
              steps[i].record # NoState => steps[i].record.decision \in Decisions
    <3>1. commits \in Seq(CommitRecords) /\ steps \in Seq(Lines)
      BY <2>0 DEF Shapes
    <3>2. /\ \A i \in DOMAIN commits : commits[i] \in CommitRecords
          /\ \A i \in DOMAIN steps : steps[i].record \in StepRecords \cup {NoState}
      <4>1. /\ \A i \in DOMAIN commits : commits[i] \in CommitRecords
            /\ \A i \in DOMAIN steps : steps[i] \in Lines
        BY <3>1
      <4> QED
        BY <4>1 DEF Lines
    <3> QED
      BY <3>2 DEF CommitRecords, StepRecords, Sound
  <2>2. /\ saved # NoState => saved.commit \in DOMAIN commits
        /\ live # NoState => live.commit \in DOMAIN commits
    BY <2>0 DEF Shapes, Placed, Held
  <2>3. spent \in 0..(CapLimit + MaxCost)
    BY <2>0, EvolutionAssumption DEF Money, EvolutionAssumption
  <2>4. place \in {"down", "abandoned"} => live = NoState
    BY <2>0 DEF Placed, Running, Attempt, Judging, Accepting, Recording
  <2> QED
    BY <2>0, <2>1, <2>2, <2>3, <2>4 DEF EvolutionTypeOK, Shapes, Money
<1> QED
  BY <1>1, EvolutionInvariant, PTL

\* The commit a checkpoint accepts holds exactly the tree its evaluation is bound to,
\* whatever an abandoned child writes between evaluating, hashing, git add and git
\* commit: ConfirmCommit's second hash is what makes it so.
THEOREM NoUnscoredByte == Spec => []AcceptedIsEvaluated
<1>1. EvolutionInv => AcceptedIsEvaluated
  BY DEF EvolutionInv, Held, Sealed, Accepted, AcceptedIsEvaluated
<1> QED
  BY <1>1, EvolutionInvariant, PTL

\* However often crashes made the engine redo an attempt, and whatever their short writes
\* spoilt, the last line an attempt was written into is the decision the checkpoint counts
\* or cannot be read: a log without a damaged line is exactly the evidence it should be.
THEOREM DecisionsAreLogged == Spec => []HistoryIsEvidenced
<1>1. EvolutionInv => HistoryIsEvidenced
  <2> SUFFICES ASSUME EvolutionInv, saved # NoState PROVE HistoryIsEvidenced
    BY DEF HistoryIsEvidenced
  <2>1. saved.log \in Seq(StepRecords) /\ steps \in Seq(Lines)
    BY DEF EvolutionInv, Shapes, StateRecords
  <2>2. DOMAIN steps = 1..Len(steps) /\ DOMAIN saved.log = 1..Len(saved.log)
    BY <2>1
  <2>3. \A n \in 1..Len(saved.log) : Recorded(saved.log, n)
    BY DEF EvolutionInv, Evidence
  <2> QED
    BY <2>2, <2>3 DEF HistoryIsEvidenced, Recorded
<1> QED
  BY <1>1, EvolutionInvariant, PTL

\* Without a process the host lost, an attempt begins from the accepted tree.
THEOREM RejectedIsRolledBack == Spec => []RejectionRestores
<1>1. EvolutionInv => RejectionRestores
  <2> SUFFICES ASSUME EvolutionInv, place = "ready", ~orphan PROVE Matches(live)
    BY DEF RejectionRestores
  <2>1. live = saved /\ live # NoState
    BY DEF EvolutionInv, Placed, Running
  <2>2. Len(commits) = live.commit /\ Sealed(live.commit) /\ tree = Tip.tree
    BY <2>1 DEF EvolutionInv, Held
  <2> QED
    BY <2>2 DEF Matches, Sealed, Accepted, Tip
<1> QED
  BY <1>1, EvolutionInvariant, PTL

\* Spend passes the ceiling by less than one response, at any prices.
THEOREM OnlyOneOverrun == Spec => []OneResponseOverCap
BY EvolutionInvariant, PTL DEF EvolutionInv, Money, OneResponseOverCap

-----------------------------------------------------------------------------
\* The refinement.

Version(i) == [tree |-> commits[i].tree, score |-> commits[i].score]
Line == IF saved = NoState THEN <<>> ELSE [i \in 1..saved.commit |-> Version(i)]
Count == IF saved = NoState THEN 0 ELSE Len(saved.log)

LEMMA LastApart ==
    ASSUME NEW R, NEW k \in Nat, NEW f \in [1..(k + 1) -> R]
    PROVE  /\ f = Append([i \in 1..k |-> f[i]], f[k + 1])
           /\ Len([i \in 1..k |-> f[i]]) = k
<1> DEFINE g == [i \in 1..k |-> f[i]]
<1>1. g \in [1..k -> R] /\ f[k + 1] \in R
  OBVIOUS
<1>2. g \in Seq(R) /\ Len(g) = k
  BY <1>1, SeqDef, LenProperties
<1>3. f \in Seq(R) /\ Len(f) = k + 1
  BY SeqDef, LenProperties
<1>4. \A i \in 1..k : g[i] = f[i]
  OBVIOUS
<1> HIDE DEF g
<1>5. /\ Append(g, f[k + 1]) \in Seq(R) /\ Len(Append(g, f[k + 1])) = k + 1
      /\ Append(g, f[k + 1])[k + 1] = f[k + 1]
      /\ \A i \in 1..k : Append(g, f[k + 1])[i] = g[i]
  BY <1>1, <1>2, AppendProperties
<1>6. \A i \in 1..(k + 1) : i \in 1..k \/ i = k + 1
  OBVIOUS
<1>7. \A i \in 1..(k + 1) : Append(g, f[k + 1])[i] = f[i]
  BY <1>4, <1>5, <1>6
<1>8. f = Append(g, f[k + 1])
  BY <1>3, <1>5, <1>7, SeqEqual
<1> QED
  BY <1>2, <1>8 DEF g

\* The steps that do not save leave the published line alone.
LEMMA UnsavedStutters ==
    ASSUME EvolutionAssumption, EvolutionInv, [Next]_vars, UNCHANGED saved
    PROVE  Line' = Line /\ Count' = Count
<1>1. CASE saved = NoState
  BY <1>1 DEF Line, Count
<1>2. CASE saved # NoState
  <2>1. saved.commit \in 1..Len(commits) /\ Len(commits) \in Nat
    BY <1>2, CommitsGrow DEF EvolutionInv, Held
  <2>2. \A i \in 1..saved.commit : commits'[i] = commits[i]
    BY <2>1, CommitsGrow
  <2>3. [i \in 1..saved.commit |-> Version(i)]' = [i \in 1..saved.commit |-> Version(i)]
    BY <2>2 DEF Version
  <2> QED
    BY <1>2, <2>3 DEF Line, Count
<1> QED
  BY <1>1, <1>2

\* Saving the seed opens the line.
LEMMA SeedSavedOpens ==
    ASSUME EvolutionAssumption, EvolutionInv, SeedSaved
    PROVE  /\ Line = <<>> /\ Count' = Count
           /\ \E v \in [tree : Sound, score : Scores] : Line' = <<v>>
<1>1. /\ saved = NoState /\ saved' = State(1, <<>>) /\ commits' = commits
      /\ Len(commits) = 1 /\ commits \in Seq(CommitRecords) /\ Sealed(1)
  BY DEF EvolutionInv, Shapes, Placed, Held, SeedSaved
<1>2. commits[1] \in CommitRecords
  BY <1>1
<1>3. Version(1) \in [tree : Sound, score : Scores]
  BY <1>1, <1>2 DEF Version, CommitRecords, Sealed
<1>4. /\ State(1, <<>>) # NoState /\ State(1, <<>>).commit = 1
      /\ State(1, <<>>).log = <<>>
  <2>1. State(1, <<>>) \in [commit : Nat, log : Seq(StepRecords)]
    BY DEF State
  <2> QED
    BY <2>1, NoneIsNoState DEF State
<1>5. Version(1)' = Version(1) /\ 1..1 = {1}
  BY <1>1 DEF Version
<1>6. [i \in 1..1 |-> Version(i)'] = <<Version(1)>>
  BY <1>5
<1>7. Line' = [i \in 1..1 |-> Version(i)']
  BY <1>1, <1>4 DEF Line
<1>8. Count' = 0
  BY <1>1, <1>4 DEF Count
<1> QED
  BY <1>1, <1>3, <1>6, <1>7, <1>8 DEF Line, Count

\* Saving a decision appends a version that is sound and no worse, or nothing.
LEMMA SaveDecides ==
    ASSUME EvolutionAssumption, EvolutionInv, SaveState
    PROVE  /\ Line # <<>> /\ Count' = Count + 1
           /\ \/ Line' = Line
              \/ \E v \in [tree : Sound, score : Scores] :
                    Line[Len(Line)].score <= v.score /\ Line' = Append(Line, v)
<1>0. Shapes /\ Placed /\ Held /\ Judged /\ place \in Recording /\ place \in Running
  BY DEF EvolutionInv, SaveState, Running, Attempt, Recording
<1>1. live = saved /\ saved # NoState /\ saved \in StateRecords /\ commits' = commits
  BY <1>0, Known DEF Placed, SaveState
<1>2. saved.commit \in 1..Len(commits) /\ Len(commits) \in Nat
  BY <1>0, <1>1 DEF Held, Shapes
<1>3. StepRecord \in StepRecords
  BY <1>0 DEF StepRecord, StepRecords, Shapes, Proposals
<1> DEFINE n == IF proposal.decision = "accepted" THEN Len(commits) ELSE live.commit
           l == Append(live.log, StepRecord)
<1>4. /\ l \in Seq(StepRecords) /\ Len(l) = Len(saved.log) + 1 /\ n \in Nat
      /\ n = IF proposal.decision = "accepted" THEN Len(commits) ELSE saved.commit
  BY <1>1, <1>2, <1>3 DEF StateRecords
<1>5. saved' = State(n, l)
  BY DEF SaveState
<1> HIDE DEF n, l
<1>6. State(n, l) # NoState /\ State(n, l).commit = n /\ State(n, l).log = l
  <2>1. State(n, l) \in [commit : Nat, log : Seq(StepRecords)]
    BY <1>4 DEF State
  <2> QED
    BY <2>1, NoneIsNoState DEF State
<1>7. Count' = Count + 1
  BY <1>1, <1>4, <1>5, <1>6 DEF Count
<1>8. Line = [i \in 1..saved.commit |-> Version(i)] /\ Line' = [i \in 1..n |-> Version(i)]
  BY <1>1, <1>5, <1>6 DEF Line, Version
<1>9. \A i \in 1..Len(commits) : commits[i] \in CommitRecords
  BY <1>0 DEF Shapes
<1> DEFINE R == [tree : Trees, score : Scores]
<1>10. \A i \in 1..Len(commits) : Version(i) \in R
  BY <1>9 DEF Version, CommitRecords
<1>11. Line \in [1..saved.commit -> R] /\ Line[saved.commit] = Version(saved.commit)
  BY <1>2, <1>8, <1>10
<1>12. Line \in Seq(R) /\ Len(Line) = saved.commit
  <2> HIDE DEF R
  <2>1. saved.commit \in Nat
    BY <1>2
  <2>2. Line \in Seq(R)
    BY <1>11, <2>1, SeqDef
  <2>3. DOMAIN Line = 1..saved.commit /\ DOMAIN Line = 1..Len(Line) /\ Len(Line) \in Nat
    BY <1>11, <2>2, LenProperties
  <2> QED
    BY <2>1, <2>2, <2>3
<1>13. Line # <<>>
  BY <1>2, <1>12
<1>14. CASE proposal.decision # "accepted"
  BY <1>4, <1>7, <1>8, <1>13, <1>14
<1>15. CASE proposal.decision = "accepted"
  <2> DEFINE k == saved.commit
             f == [i \in 1..(k + 1) |-> Version(i)]
  <2>1. n = k + 1 /\ Len(commits) = k + 1 /\ Sealed(k + 1) /\ k \in Nat
    BY <1>0, <1>1, <1>2, <1>4, <1>15 DEF Held
  <2>2. f \in [1..(k + 1) -> R] /\ f[k + 1] = Version(k + 1)
    BY <1>10, <2>1
  <2>3. [i \in 1..k |-> f[i]] = Line
    BY <1>8, <2>1
  <2>4. Line' = f
    BY <1>8, <2>1
  <2> HIDE DEF f
  <2>5. Line' = Append(Line, Version(k + 1))
    BY <2>1, <2>2, <2>3, <2>4, LastApart
  <2>6. Version(k + 1) \in [tree : Sound, score : Scores]
    BY <1>9, <2>1 DEF Version, CommitRecords, Sealed
  <2>7. Line[Len(Line)].score <= Version(k + 1).score
    BY <1>0, <1>1, <1>11, <1>12, <1>15, <2>1 DEF Judged, Version, Accepted, Tip
  <2> QED
    BY <1>7, <1>13, <2>5, <2>6, <2>7
<1> QED
  BY <1>14, <1>15

\* The checkpoint file, with every crash and redone attempt, is an accepted lineage:
\* it opens with a sound seed, grows by one sound version that scores no worse than
\* the one before, or counts one rejection.
THEOREM CheckpointImplementsLineage == Spec => ImplementsLineage
<1>1. Init => Lineage!LineageInit
  BY DEF Init, Lineage!LineageInit
<1>2. EvolutionInv /\ [Next]_vars =>
          [Lineage!LineageNext]_<<IF saved = NoState THEN <<>>
            ELSE [i \in 1..saved.commit |->
                     [tree |-> commits[i].tree, score |-> commits[i].score]],
            IF saved = NoState THEN 0 ELSE Len(saved.log)>>
  <2> SUFFICES ASSUME EvolutionInv, [Next]_vars
               PROVE  \/ Line' = Line /\ Count' = Count
                      \/ /\ Line = <<>> /\ Count' = Count
                         /\ \E v \in [tree : Sound, score : Scores] : Line' = <<v>>
                      \/ /\ Line # <<>> /\ Count' = Count + 1
                         /\ \/ Line' = Line
                            \/ \E v \in [tree : Sound, score : Scores] :
                                  Line[Len(Line)].score <= v.score /\ Line' = Append(Line, v)
    BY DEF Line, Count, Version, Lineage!LineageNext, Lineage!AcceptSeed, Lineage!Accept,
           Lineage!Reject, Lineage!Version
  <2>1. CASE UNCHANGED saved
    BY <2>1, UnsavedStutters, EvolutionAssumption
  <2>2. CASE SeedSaved
    BY <2>2, SeedSavedOpens, EvolutionAssumption
  <2>3. CASE SaveState
    BY <2>3, SaveDecides, EvolutionAssumption
  <2> QED
    BY <2>1, <2>2, <2>3
       DEF Next, Vary, Decide, vars, fileVars, SeedCommitted, SeedRefused, SeedAnchored,
           BeginAttempt, EditTree, ProviderRound, VaryReturns, VaryFails, EvaluationFails,
           EvaluationReturns, CheckRejection, ArchiveRejected, RollBack, CheckAcceptance,
           CommitTree, ConfirmCommit, AppendRecord, Crash, Finish, Resume, OrphanWrites
<1> QED
  BY <1>1, <1>2, EvolutionInvariant, PTL DEF Spec, ImplementsLineage, Lineage!LineageSpec
=============================================================================
