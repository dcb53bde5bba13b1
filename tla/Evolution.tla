------------------------------ MODULE Evolution ------------------------------
(***************************************************************************)
(* The generic AVO loop: core/engine.py over the git lineage               *)
(* (core/lineage.py), the checkpoint files (checkpoints.py), the external  *)
(* evaluator and the variation turn, composed and recovered by evolve.py.  *)
(* A step is restore, vary, evaluate, then commit or archive-and-roll-back,*)
(* then publish; the host may die between any two of these, and a child it *)
(* gave up on may still write into the workspace.                          *)
(***************************************************************************)
EXTENDS Integers, Sequences

CONSTANTS
    Trees, Seed,        \* contents of the candidate workspace
    Forbidden,          \* trees with a .git entry
    Special,            \* trees with an entry that cannot be hashed
    Scores,             \* scores, ordered by the target's comparator
    NoState,            \* Python's None
    Costs, MaxCost,     \* what a provider response may cost
    InitialCap, CapLimit,
    MaxAttempts,        \* bound: attempts decided in the lifetime of the run
    MaxSteps            \* bound: lines of evolution-steps.jsonl

ASSUME EvolutionAssumption ==
    /\ Seed \in Trees \ (Forbidden \cup Special)
    /\ Forbidden \cup Special \subseteq Trees
    /\ Scores \subseteq Int
    /\ MaxCost \in Nat \ {0} /\ Costs \subseteq 0..MaxCost
    /\ InitialCap \in Nat \ {0} /\ CapLimit \in Nat /\ InitialCap <= CapLimit
    /\ MaxAttempts \in Nat /\ MaxSteps \in Nat

VARIABLES
    tree,       \* the workspace, untracked and ignored files included
    orphan,     \* a child process has outlived the host's wait for it
    commits,    \* the lineage; a commit's hash is its position
    steps,      \* evolution-steps.jsonl
    saved,      \* evolution-checkpoint.json
    anchored,   \* the outer event chain has evolution.initialized
    live,       \* EvolutionRun.state
    place,      \* where the host is
    proposal,   \* the candidate of this attempt and its verdict
    cap, spent  \* the run's ledger, charged without reservations

fileVars == <<steps, saved, anchored>>
moneyVars == <<cap, spent>>
vars == <<tree, orphan, commits, fileVars, live, place, proposal, moneyVars>>

Sound == Trees \ (Forbidden \cup Special)
Decisions == {"accepted", "agent_failed", "evaluation_failed",
              "rejected_incorrect", "rejected_regression"}
Places == {"seeding", "seeded", "anchoring", "ready", "varying", "evaluating",
           "rejecting", "archiving", "rolling_back", "accepting", "committing",
           "confirming", "publishing", "saving", "down", "abandoned"}

Tip == commits[Len(commits)]

Commit(id, parent, generation, digest, score) ==
    [id |-> id, parent |-> parent, generation |-> generation,
     digest |-> digest, tree |-> tree, score |-> score]

StepRecords == [attempt : Nat, digest : Trees, decision : Decisions,
                patch : Trees \cup {NoState}]

\* One line of evolution-steps.jsonl: the attempts whose records were written into it,
\* the record that can be read from it (none when a write was cut short or glued to what
\* an earlier one had left), and whether its newline was written.
Lines == [of : SUBSET Nat, record : StepRecords \cup {NoState}, ended : BOOLEAN]

\* What one os.write can achieve, which append_jsonl does not look at: all of the line,
\* all but its newline, or a part of it.
Writes == {"whole", "bare", "torn"}

\* EngineState: the accepted candidate and evaluation, and the attempts' records.
State(commit, log) == [commit |-> commit, log |-> log]
Accepted(state) == commits[state.commit]

ASSUME NoneIsNoState == NoState \notin [commit : Nat, log : Seq(StepRecords)]

\* ensure_matches: HEAD, the tree's digest and a clean git status.
Matches(state) ==
    /\ Len(commits) = state.commit
    /\ tree = Accepted(state).digest
    /\ tree = Tip.tree

NoProposal == [id |-> 0, digest |-> Seed, decision |-> "accepted",
               score |-> NoState, patch |-> NoState]

Init ==
    /\ tree = Seed /\ orphan = FALSE
    /\ commits = <<>>
    /\ steps = <<>> /\ saved = NoState /\ anchored = FALSE
    /\ live = NoState /\ place = "seeding" /\ proposal = NoProposal
    /\ cap = InitialCap /\ spent = 0

\* The process ends, by an exception nobody handles or by dying: memory is gone.  A
\* run that never anchored its seed has nothing to be resumed from.
Die ==
    /\ place' = IF anchored THEN "down" ELSE "abandoned"
    /\ live' = NoState
    /\ proposal' = NoProposal

-----------------------------------------------------------------------------
\* start_evolution.

SeedCommitted(score) ==
    /\ place = "seeding"
    /\ commits' = <<Commit(0, NoState, 0, tree, score)>>
    /\ place' = "seeded"
    /\ UNCHANGED <<tree, orphan, fileVars, live, proposal, moneyVars>>

\* The evaluator failed or the seed is incorrect: the new subtree is removed.
SeedRefused ==
    /\ place = "seeding"
    /\ place' = "abandoned"
    /\ UNCHANGED <<tree, orphan, commits, fileVars, live, proposal, moneyVars>>

SeedSaved ==
    /\ place = "seeded"
    /\ saved' = State(1, <<>>)
    /\ live' = State(1, <<>>)
    /\ place' = "anchoring"
    /\ UNCHANGED <<tree, orphan, commits, steps, anchored, proposal, moneyVars>>

SeedAnchored ==
    /\ place = "anchoring"
    /\ anchored' = TRUE
    /\ place' = "ready"
    /\ UNCHANGED <<tree, orphan, commits, steps, saved, live, proposal, moneyVars>>

-----------------------------------------------------------------------------
\* One attempt: advance and step.

\* ensure_can_start, then restore.
BeginAttempt ==
    /\ place = "ready"
    /\ Len(live.log) < MaxAttempts /\ Len(steps) < MaxSteps
    /\ spent < cap
    /\ Matches(live)
    /\ place' = "varying"
    /\ UNCHANGED <<tree, orphan, commits, fileVars, live, proposal, moneyVars>>

\* The agent's tools, or Codex in its sandbox, rewrite the workspace; a check command
\* that exceeds its time may leave a child behind while the turn goes on.
EditTree(t, abandonsChild) ==
    /\ place = "varying"
    /\ tree' = t
    /\ orphan' = (orphan \/ abandonsChild)
    /\ UNCHANGED <<commits, fileVars, live, place, proposal, moneyVars>>

\* Mutant of ProviderRound: only the attempt asks the ledger, its rounds do not.
ProviderRoundUnchecked(cost) ==
    /\ place = "varying"
    /\ spent' = spent + cost
    /\ UNCHANGED <<tree, orphan, commits, fileVars, live, place, proposal, cap>>

\* A provider round of the turn: ensure_can_start, request, record_usage.
ProviderRound(cost) ==
    /\ place = "varying"
    /\ spent < cap
    /\ spent' = spent + cost
    /\ UNCHANGED <<tree, orphan, commits, fileVars, live, place, proposal, cap>>

Propose(decision, digest, score) ==
    proposal' = [id |-> Len(live.log) + 1, digest |-> digest, decision |-> decision,
                 score |-> score, patch |-> NoState]

\* Mutant of VaryReturns: the archive's digest, which hashes .git entries, is used.
VaryReturnsAnyTree ==
    /\ place = "varying"
    /\ tree \notin Special
    /\ Propose("accepted", tree, NoState)
    /\ place' = "evaluating"
    /\ UNCHANGED <<tree, orphan, commits, fileVars, live, moneyVars>>

VaryReturns ==
    /\ place = "varying"
    /\ tree \in Sound
    /\ Propose("accepted", tree, NoState)
    /\ place' = "evaluating"
    /\ UNCHANGED <<tree, orphan, commits, fileVars, live, moneyVars>>

\* The turn raised (no money, provider error, a .git entry): the tree is hashed for the
\* archive, which an unhashable entry defeats.
VaryFails(abandonsChild) ==
    /\ place = "varying"
    /\ orphan' = (orphan \/ abandonsChild)
    /\ IF tree \in Special
       THEN Die
       ELSE /\ Propose("agent_failed", tree, NoState)
            /\ place' = "rejecting"
            /\ UNCHANGED live
    /\ UNCHANGED <<tree, commits, fileVars, moneyVars>>

\* Mutant of EvaluationFails: a tree that changed under the evaluator decides nothing.
EvaluationFailsUnchanged(t, abandonsChild) ==
    /\ place = "evaluating"
    /\ tree = proposal.digest /\ t = tree
    /\ orphan' = (orphan \/ abandonsChild)
    /\ Propose("evaluation_failed", tree, NoState)
    /\ place' = "rejecting"
    /\ UNCHANGED <<tree, commits, fileVars, live, moneyVars>>

\* The evaluator ran and left the tree t: a changed tree or a failed run certifies
\* nothing, and the tree that is there is the one that will be archived.
EvaluationFails(t, abandonsChild) ==
    /\ place = "evaluating"
    /\ tree' = t
    /\ orphan' = (orphan \/ abandonsChild)
    /\ IF t \in Special
       THEN Die
       ELSE /\ Propose("evaluation_failed", t, NoState)
            /\ place' = "rejecting"
            /\ UNCHANGED live
    /\ UNCHANGED <<commits, fileVars, moneyVars>>

\* Mutant of EvaluationReturns: correctness is the only gate.
EvaluationReturnsUncompared(correct, score) ==
    /\ place = "evaluating"
    /\ tree = proposal.digest
    /\ Propose(IF correct THEN "accepted" ELSE "rejected_incorrect", tree, score)
    /\ place' = IF correct THEN "accepting" ELSE "rejecting"
    /\ UNCHANGED <<tree, orphan, commits, fileVars, live, moneyVars>>

\* A digest-bound evaluation: the correctness gate, then the comparator.
EvaluationReturns(correct, score) ==
    /\ place = "evaluating"
    /\ tree = proposal.digest
    /\ LET decision == IF ~correct THEN "rejected_incorrect"
                       ELSE IF score < Accepted(live).score THEN "rejected_regression"
                       ELSE "accepted"
       IN  /\ Propose(decision, tree, score)
           /\ place' = IF decision = "accepted" THEN "accepting" ELSE "rejecting"
    /\ UNCHANGED <<tree, orphan, commits, fileVars, live, moneyVars>>

\* reject: the tree must still be the one that was judged ...
CheckRejection ==
    /\ place = "rejecting"
    /\ IF tree = proposal.digest
       THEN place' = "archiving" /\ UNCHANGED <<live, proposal>>
       ELSE Die
    /\ UNCHANGED <<tree, orphan, commits, fileVars, moneyVars>>

\* ... then all of it becomes a patch; a failure to write the archive is remembered
\* and raised after the rollback.
ArchiveRejected(written) ==
    /\ place = "archiving"
    /\ proposal' = [proposal EXCEPT !.patch = IF written THEN tree ELSE NoState]
    /\ place' = "rolling_back"
    /\ UNCHANGED <<tree, orphan, commits, fileVars, live, moneyVars>>

\* Mutant of RollBack: git reset --soft, which leaves the workspace alone.
RollBackSoft ==
    /\ place = "rolling_back"
    /\ IF proposal.patch # NoState
       THEN place' = "publishing" /\ UNCHANGED <<live, proposal>>
       ELSE Die
    /\ UNCHANGED <<tree, orphan, commits, fileVars, moneyVars>>

\* git reset --hard and git clean -fdx.
RollBack ==
    /\ place = "rolling_back"
    /\ tree' = Tip.tree
    /\ IF proposal.patch # NoState
       THEN place' = "publishing" /\ UNCHANGED <<live, proposal>>
       ELSE Die
    /\ UNCHANGED <<orphan, commits, fileVars, moneyVars>>

\* accept: parent, generation and digest must follow HEAD.
CheckAcceptance ==
    /\ place = "accepting"
    /\ IF /\ Tip.id = Accepted(live).id
          /\ Tip.generation = Accepted(live).generation
          /\ tree = proposal.digest
       THEN place' = "committing" /\ UNCHANGED <<live, proposal>>
       ELSE Die
    /\ UNCHANGED <<tree, orphan, commits, fileVars, moneyVars>>

\* git add -A and git commit take whatever the workspace holds by then.
CommitTree ==
    /\ place = "committing"
    /\ commits' = Append(commits,
          Commit(proposal.id, Accepted(live).id, Accepted(live).generation + 1,
                 proposal.digest, proposal.score))
    /\ place' = "confirming"
    /\ UNCHANGED <<tree, orphan, fileVars, live, proposal, moneyVars>>

\* Mutant of ConfirmCommit: the commit is taken for what it was meant to be.
ConfirmCommitBlindly ==
    /\ place = "confirming"
    /\ place' = "publishing"
    /\ UNCHANGED <<tree, orphan, commits, fileVars, live, proposal, moneyVars>>

\* ensure_matches on the commit just made.
ConfirmCommit ==
    /\ place = "confirming"
    /\ IF Matches(State(Len(commits), <<>>))
       THEN place' = "publishing" /\ UNCHANGED <<live, proposal>>
       ELSE Die
    /\ UNCHANGED <<tree, orphan, commits, fileVars, moneyVars>>

-----------------------------------------------------------------------------
\* _publish: the step record first, the complete state second.

StepRecord == [attempt |-> proposal.id, digest |-> proposal.digest,
               decision |-> proposal.decision, patch |-> proposal.patch]

\* Mutant of AppendRecord: the state is saved first and the record is left for later.
AppendRecordLater(written) ==
    /\ place = "publishing"
    /\ place' = "saving"
    /\ UNCHANGED <<tree, orphan, commits, fileVars, live, proposal, moneyVars>>

\* append_jsonl: a short write goes unnoticed, and the next record is glued to a line that
\* has not ended.
AppendRecord(written) ==
    /\ place = "publishing"
    /\ LET last == Len(steps)
           glued == last > 0 /\ ~steps[last].ended
           line(of, record) == [of |-> of, record |-> record, ended |-> written = "whole"]
       IN  steps' =
             IF glued
             THEN [steps EXCEPT ![last] = line(@.of \cup {proposal.id}, NoState)]
             ELSE Append(steps, line({proposal.id},
                                     IF written = "torn" THEN NoState ELSE StepRecord))
    /\ place' = "saving"
    /\ UNCHANGED <<tree, orphan, commits, saved, anchored, live, proposal, moneyVars>>

SaveState ==
    /\ place = "saving"
    /\ LET next == State(IF proposal.decision = "accepted" THEN Len(commits)
                         ELSE live.commit,
                         Append(live.log, StepRecord))
       IN  saved' = next /\ live' = next
    /\ place' = "ready" /\ proposal' = NoProposal
    /\ UNCHANGED <<tree, orphan, commits, steps, anchored, moneyVars>>

-----------------------------------------------------------------------------
\* The process.

\* SIGKILL, Ctrl-C, power, or a git or disk error on the way: the files stay.  A record
\* the death cuts short is a short write with the death after it.
Crash ==
    /\ place \notin {"down", "abandoned"}
    /\ Die
    /\ UNCHANGED <<tree, orphan, commits, fileVars, moneyVars>>

\* advance returns, or restore refuses the workspace.
Finish ==
    /\ place = "ready"
    /\ Die
    /\ UNCHANGED <<tree, orphan, commits, fileVars, moneyVars>>

\* resume_evolution: restore the checkpoint, then an optional higher ceiling.
Resume(newCap) ==
    /\ place = "down"
    /\ Matches(saved)
    /\ newCap >= cap
    /\ cap' = newCap
    /\ live' = saved
    /\ place' = "ready"
    /\ UNCHANGED <<tree, orphan, commits, fileVars, proposal, spent>>

\* A process the host no longer waits for writes into the workspace.
OrphanWrites(t) ==
    /\ orphan
    /\ tree' = t
    /\ UNCHANGED <<orphan, commits, fileVars, live, place, proposal, moneyVars>>

\* The end of the variation turn, which nothing bounds in time.
Vary == VaryReturns \/ \E b \in BOOLEAN : VaryFails(b)

Decide ==
    \/ \E t \in Trees, b \in BOOLEAN : EvaluationFails(t, b)
    \/ \E b \in BOOLEAN, s \in Scores : EvaluationReturns(b, s)
    \/ CheckRejection
    \/ \E b \in BOOLEAN : ArchiveRejected(b)
    \/ RollBack
    \/ CheckAcceptance
    \/ CommitTree
    \/ ConfirmCommit
    \/ \E how \in Writes : AppendRecord(how)
    \/ SaveState

Next ==
    \/ \E s \in Scores : SeedCommitted(s)
    \/ SeedRefused
    \/ SeedSaved
    \/ SeedAnchored
    \/ BeginAttempt
    \/ \E t \in Trees, b \in BOOLEAN : EditTree(t, b)
    \/ \E c \in Costs : ProviderRound(c)
    \/ Vary
    \/ Decide
    \/ Crash
    \/ Finish
    \/ \E n \in 1..CapLimit : Resume(n)
    \/ \E t \in Trees : OrphanWrites(t)

Spec == Init /\ [][Next]_vars

\* An evaluator ends (evaluator_timeout_seconds), and git returns.  A variation turn is
\* not assumed to: the Codex process of the default backend has no time limit.
FairSpec == Spec /\ WF_vars(Decide)

-----------------------------------------------------------------------------
EvolutionTypeOK ==
    /\ tree \in Trees /\ orphan \in BOOLEAN
    /\ \A i \in DOMAIN commits : commits[i].tree \in Trees /\ commits[i].digest \in Sound
    /\ \A i \in DOMAIN steps :
          steps[i].record # NoState => steps[i].record.decision \in Decisions
    /\ saved # NoState => saved.commit \in DOMAIN commits
    /\ live # NoState => live.commit \in DOMAIN commits
    /\ place \in Places
    /\ place \in {"down", "abandoned"} => live = NoState
    /\ cap \in 1..CapLimit /\ spent \in 0..(CapLimit + MaxCost)

\* The commit a checkpoint accepts holds exactly the tree its evaluation is bound to,
\* whatever an abandoned child writes between the evaluation, the last digest check,
\* git add, git commit and the confirmation: no unscored byte enters the lineage.
AcceptedIsEvaluated ==
    saved # NoState => Accepted(saved).tree = Accepted(saved).digest

\* A crash between the step log and the checkpoint makes the engine redo an attempt
\* under the same number, and a short write spoils its line and the next; still the last
\* line an attempt was written into either is the decision the checkpoint counts or
\* cannot be read at all, so no reader takes an abandoned decision for the counted one.
\* A decision against a candidate keeps its whole tree as a patch.
HistoryIsEvidenced ==
    saved # NoState =>
        \A n \in DOMAIN saved.log :
            /\ saved.log[n].attempt = n
            /\ \E i \in DOMAIN steps :
                  /\ n \in steps[i].of
                  /\ steps[i].record \in {saved.log[n], NoState}
                  /\ \A j \in DOMAIN steps : n \in steps[j].of => j <= i
            /\ saved.log[n].decision # "accepted" =>
                  \/ saved.log[n].patch = saved.log[n].digest
                  \/ orphan

\* Left to itself the host always comes back to the accepted tree: whatever the agent
\* did to the workspace, the attempt after a rejection starts from HEAD, clean.
RejectionRestores == place = "ready" /\ ~orphan => Matches(live)

\* One response may overrun the ceiling, never two: each round asks the ledger first.
OneResponseOverCap == spent < cap + MaxCost

\* The state that is saved is always one the engine can be resumed from.
CheckpointIsResumable == place = "down" /\ ~orphan => Matches(saved)

\* A candidate handed to the evaluator, or given up by the turn, always comes to a
\* published decision, or the process ends.
AttemptDecides == place \in {"evaluating", "rejecting"} ~> place \in {"ready", "down"}

\* The published history is an accepted lineage.
Lineage == INSTANCE AcceptedLineage WITH
    line <- IF saved = NoState THEN <<>>
            ELSE [i \in 1..saved.commit |->
                     [tree |-> commits[i].tree, score |-> commits[i].score]],
    decided <- IF saved = NoState THEN 0 ELSE Len(saved.log)

ImplementsLineage == Lineage!LineageSpec
=============================================================================
