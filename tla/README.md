# A verification project for ardea-avo

`ardea-avo` (sources under `src/src/ardea_avo/`) runs agentic-variation experiments: an ARC-AGI
campaign in which a model plays the games of a roster under a lifetime money ceiling, and a generic
evolution loop in which a model edits a candidate program that an external evaluator scores. What
the program promises is mostly about *evidence*: every dollar is accounted for, every win can be
replayed, every accepted program was evaluated, and all of that survives a host that dies at any
point. This directory holds TLA+ modules of the parts that keep those promises, the TLC runs that
check them on small instances, and TLAPS proofs.

    tlc -config MCPlay.cfg MCPlay      # each run: see "Runs"
    tlapm PlayProofs.tla               # each module named ...Proofs: see "What is proved"

`PROJECT.json` maps every definition to the source lines it stands for.

## Inventory

| component (source) | state | operations | what makes it hard | what makes it correct |
| --- | --- | --- | --- | --- |
| Budget ledger (`runtime/budget.py`) | three append-only JSONL chains: cap revisions, usage, reservations; `.budget.lock` | reserve, release, release_all_active, record_usage, revise_cap, ensure_can_start | threads of one run; a crash between appends; an append cut short | no reservation settled twice; charges and holds stay under the ceiling but for the overrun of single responses; the chains never hold a record their loader rejects |
| Durable I/O (`runtime/_io.py`) | files | file_lock, append_jsonl, load_jsonl, atomic_write_json | `os.write` may write less than asked, and nobody looks | readers see all of a record or refuse the file |
| Provider backends (`runtime/backends.py`) | the round loop of a turn, its current reservation | run, in an Anthropic, an OpenAI and a Codex lane | lost responses, paid requests without a receipt, an exception crossing two handlers | a billed request is charged or its hold kept |
| Campaign runner (`campaign_runner.py`) | `GameRunState` of each game, stop and ambiguity flags, checkpoint | run, play and supervise turns, reconcile, bank, advance | a pool of threads over one checkpoint; crashes anywhere; turns that fail after having changed the world | no win lost, none claimed without proof, no stale session resumed, the campaign ends |
| Campaign bank (`arc/campaign.py`) | best verified win of each game | consider | order of bank, event and checkpoint | the best win is never replaced by a worse one |
| Action trace and tools (`arc/trace.py`, `arc/tools.py`) | hash-chained trace of an attempt, the engine, the level boundary | play, resume, read-only tools | the engine moves before the record is durable | the trace is a prefix of what the engine did; replay rebuilds the state |
| Results store (`runtime/results.py`) | manifest and digest, event chain, checkpoint, listing and seal of a run | create, open, append_event, write_checkpoint, seal, create_warm, resume | readers without the lease; a crash inside creation or seal; a checkpoint bound to an event | opening a created run never raises a false alarm; a sealed run never changes; a child matches its parent |
| Run lease (`runtime/lease.py`) | in-process registry, flock on `.run.lock` | acquire, release | threads and processes, death of a process, failed acquisitions | one command per run; no entry left behind |
| Scorecard submission (`cli.py` compete, `validation.py`, `arc/official.py`) | exclusive claim, submission artifact, events, report | claim, open, replay, close, record the failure, validate, report | lost answers of the service, failing writes, interrupts and kills after the claim | at most one scorecard of a mode; the claim tells the truth about it; nothing else is reported |
| Evolution engine (`core/engine.py`, `evolve.py`) | accepted candidate, step log, checkpoint | initialize, step, restore | crash between log, commit and checkpoint | the published lineage was evaluated and never regresses |
| Git lineage (`core/lineage.py`, `core/digest.py`) | repository of the workspace, rejection archive | commit_seed, accept, reject, ensure_matches | a child that outlives its timeout keeps writing | the commit is the tree that was scored; a rejection restores the accepted tree |
| Evaluator and variation (`core/evaluator.py`, `variation.py`) | the workspace | evaluate; edit, check | timeouts, unhashable trees | their every outcome leads to a decision |
| Supervisor (`runtime/supervisor.py`) | stall counters | record_transition, record_episode, checkpoint | counters across failed episodes, resumes and attempts | it counts the stalls of this attempt's trace |
| Memory (`runtime/memory.py`, `import_warm_memory`) | claims and their status | propose, promote, import | one commit per record, re-import on every resume | a warm run plays with all the evidence-backed claims it may inherit and no other |
| RHAE scoring (`arc/scoring.py`) | none | score | caps and zero | the published formula |

How they interact: `cli.py` takes the run lease, opens the ledger and starts `CampaignRunner.run`.
A pool thread plays one game; each turn it makes goes through a driver, which reserves a worst-case
hold, to a backend, which settles that hold with the first response and reserves another for each
follow-up. During a turn the model's tool calls append actions to the trace of the attempt. After it
the worker updates its `GameRunState`, offers a win to the bank under `_state_lock` and saves the
checkpoint of *all* games. `create_warm` later seals a finished run as the parent of another.
The evolution loop shares the ledger, the backends and the result store and nothing else with it.

Everything that is hard to test is listed with its line under "hazards" in `PROJECT.json`.

## Modules

| module | models | state and actions against the code |
| --- | --- | --- |
| `BudgetLedger` | what the ledger promises, one atomic action per public operation | `issued`, `released`, `consumed` are the ids of reserve, release and usage records; `spent` is the recorded cost; `overrun` is history: by how much charges have exceeded their own holds |
| `BudgetChains` | how `budget.py` and `_io.py` implement it | `chain` and `tail` are the three files; `Begin...` is entering an operation under the lock and deciding, `AppendNext` one `os.write` with its three outcomes, `Leave` the end of the `with` block; `Crash` drops memory and lock |
| `BudgetChainsProofs` | theorems about it, and that it implements `BudgetLedger` | |
| `ProviderRounds` | the turns of a campaign on that ledger (`EXTENDS BudgetLedger`) | `at[w]` is where a worker is in driver or backend, `initial` and `current` the two variables that hold reservations, `sent` and `billed` what the provider knows, which the host may never learn; `queue` are the games the pool's threads have not taken, `warm` how far `create_warm` has got with the run as a parent (lease, look at the holds, seal) |
| `ProviderRoundsProofs` | theorems about the ledger alone, one lemma per operation; then about the campaign, and that it implements `BudgetLedger` | |
| `Campaign` | one game of a campaign: attempts, episodes, reconciliation, banking, checkpoint and recovery | `live` is `GameRunState`; an operation puts its assignments in `todo` and `Assign` makes them one by one; `Peer...` are the other workers of the pool, which share only the lock, the stop flag and the checkpoint |
| `CampaignProofs` | theorems about it | |
| `AcceptedLineage` | what the evolution engine promises: a line of sound trees whose scores never fall, and a count of decided attempts | |
| `Evolution` | engine, git lineage, checkpoint files, evaluator and variation turn | `place` is where the host is; `tree`, `commits`, `steps`, `saved` are workspace, repository, step log (line by line, a line cut short or glued to the next included) and checkpoint; every durable effect is a step of its own, with `Crash` between any two; `OrphanWrites` is a child that survived its timeout |
| `EvolutionProofs` | theorems about it, and that it implements `AcceptedLineage` | |
| `RunLease` | `acquire` and `release` | `registry` is `_PROCESS_LEASES` of every process, `flock` the kernel's lock, `lease[c]` how far the object of command c has got; `ProcessDies` ends all commands of a process at once |
| `RunStore` | the run directories under every command that creates, resumes, validates, reports or inherits them (`EXTENDS RunLease`) | `disk[r]` are the durable files of a run, with how `events.jsonl` ends, `cmd[c]` the locals of a command: the preview without the lease, the lease, the second look, the writes one by one; an event may be appended whole, without its newline or cut (`Endings`); `Crash` ends a process anywhere and may leave a torn trace |
| `RunStoreProofs` | theorems about the lease and about the run directories | |
| `Sums` | amounts added up (costs of a usage file, actions, weighted scores) | `Total`, a recursive function |
| `SumsProofs` | induction over numbers, recursive functions and `Total`: lemmas the other proofs cite | |
| `Scoring` | `arc/scoring.py`: action budget, actions per completed level, RHAE of a level and of a game | operators; a score of 1.0 is an integer unit, so that the code's quotients are exact |
| `Play` | one game of an API lane: the episode loop, `ArcToolRuntime`, the trace and its replay, the supervisor (`EXTENDS Scoring`) | `trace` and `file` are the durable file, `rt` the runtime of an episode and its engine, `sup` and `game` the memory of the loop, `saved` the checkpoint; `Step` is the engine's answer, `Commit` and `CommitFails` what becomes of its record |
| `PlayProofs` | theorems about it | |
| `Submission` | one run on its way to a scorecard: campaign end, report, validate, compete | `claim`, `artifact`, `events`, `report` are the files, `cards` what the service knows, `proc` the command; every write and every call is a step that can succeed, fail, be interrupted or be the last |
| `SubmissionProofs` | theorems about it | |

How they compose. `RunStore` extends `RunLease` and takes its steps; `ProviderRounds` extends the
atomic `BudgetLedger`; `Play` extends `Scoring`. `RunStore` folds what a campaign does under its lease
into `Work`; `Campaign`, `Play` and `ProviderRounds` are that work seen from its checkpoint, its trace
and its money; `Submission` starts where a campaign has left a bank and lets commands take turns,
which is what `RunStore` shows of the lease.

Two refinements are checked by TLC and proved: `BudgetChains` implements `BudgetLedger`
(`ImplementsLedger`: the mapping replays the chains as the loader does), and `Evolution` implements
`AcceptedLineage` (`ImplementsLineage`: the line is what the saved checkpoint accepts). A third is
proved only, for `ProviderRounds` extends the ledger and takes its variables as they are: every step
of a campaign is a step of the ledger or leaves it alone (`CampaignKeepsLedger`).
Definitions commented "Mutant of X" are wrong
versions of X, kept to show that each property can fail; no specification uses them.

## Runs

| run | question | instance |
| --- | --- | --- |
| `budget_chains` | do locks, appends, short writes and crashes implement the atomic ledger? | 2 threads, 3 ids, ceiling 5 raised to 6 |
| `provider` | one worker or two on one of the three lanes: do reservations settle once, is the ceiling kept, is every billed API request charged or held, every orphan hold marked, nothing sent after an ambiguity, the overspend bounded, a stop heard by everyone, no hold sealed in? | 3 games, 2 rounds, 6 ids, ceiling 5 to 6 |
| `campaign_serial` | `--jobs 1`: no win lost, no stale session, no attempt skipped, an end | 2 attempts of 2 episodes, 2 levels, 2 actions |
| `campaign_parallel` | `--jobs` above 1: does a torn checkpoint ever claim or lose a win? | 1 attempt of 2 episodes, 2 levels, 2 actions |
| `evolution` | is only evaluated code accepted, does the published history hold, with crashes, cut appends and surviving children, and is every proposal decided? | 4 trees (2 sound), 2 scores, 2 attempts, 2 lines of the log |
| `run_store` | one owner per run? can a reader be alarmed, a sealed run change, a child lose its parent, a warm run start without its inheritance? | 2 commands at a time as threads or processes, 3 in all, 2 runs, 3 memory records (2 eligible), 2 campaign events, 1 run at a time whose chain ends without a whole line |
| `play` | is the durable trace what was played, does play ever run ahead of it, is the score earned, are the stall counters the trace's? | a game of 2 levels, 5 actions at most, an attempt of 2 episodes and the next one, 1 crash |
| `submission` | how many scorecards does a run open, does its claim tell the truth, can a report show another bank's card? | 2 games, 4 commands in a row |
| `codex_receipts` | violated: see findings | 1 worker, Codex lane |
| `evolution_resumable` | violated: see findings | as `evolution` |
| `run_store_torn` | violated: see findings | as `run_store` |
| `campaign_torn` | violated: see findings | as `campaign_parallel` |

Why the bounds are enough. A hold of 2 with costs 1 and 3 makes both a response cheaper than its
hold and one that overruns it, and a ceiling of 5 holds two requests but not three, so admission is
refused, admitted again after a release, and refused because of a peer's overrun; an odd ceiling
leaves a remainder smaller than a hold. Three ids let one be open, one released and one charged. Two
rounds make a follow-up hold, and the number of ids is large enough that no worker waits for one
(`IdsSuffice`). Three games for two threads leave one in the queue when a stop or an ambiguity comes,
and let one thread play two. Two episodes make a session that is resumed; the second attempt of `campaign_serial`
shows what the first leaves behind, and in `campaign_parallel` giving up the only attempt is the
step to attempt number two. Two error and zero-action limits make one failure that is survived and
one that ends the attempt (the code has 2 and 5). In `Evolution` the other tree may be accepted or
rejected, the two unsound ones make commit and hash fail, and the log has room for an attempt a
crash makes the engine redo and for two records glued into one line. The pass run keeps the ceiling of the evolution fixed: raising it is
`BudgetLedger`'s matter. Crashes are not counted there: they may happen any number of times.

In `RunStore` every clash is one of two commands, three starts let a child be
created, resumed and looked at, and two runs make a parent and a child; of the two eligible records
one is copied and one is not when an import is cut short. A cut chain ends what can be done with its
run, so one at a time (`MaxCuts`) meets every command as parent, child or run of its own. In `Play` the game has an action that
completes two levels at once, deaths and resets, and thresholds (2, 3) that are all reached within
the budget of five actions; the crash is bounded because a crash between the save of a failed
episode and the decision about it costs an episode more each time. In `Submission` four commands are
a campaign, a dry run, a second try and a report, and with two games a replay can be half done.

`CHECK_DEADLOCK FALSE` is set where the system really stops: a sealed run, a ledger of which every id
is used, an abandoned evolution, the last command, a banked game or a torn trace. The campaign never
stops, since it can always be resumed.

## Fairness

* `ProviderRounds`: weak fairness of each worker's own steps, but not of one that waits for a Codex
  process: `CodexOAuthBackend` is built without `timeout_seconds` (`campaign_runner.py:166`, `213`,
  `cli.py:1597`), so `subprocess.run` may wait for ever (`Unlimited`). A request of an SDK ends by the
  SDK's own timeout. Billing, crashes and resumes are not fair.
* `Campaign`: weak fairness of the worker's steps (turns end, files can be written) and strong
  fairness of what waits for the state lock, a place in the pool or the last future, because a
  peer that releases the lock goes back to a turn of minutes. That turns end holds in the SDK lanes
  only, for the reason above, and so does `CampaignEnds`. That Play happens is not assumed.
* `Evolution`: weak fairness of what follows a variation turn: the evaluation
  (`evaluator_timeout_seconds`) and the host's own file and git steps. That the turn itself ends is not
  assumed: `evolve` runs Codex without a time limit.
* `RunStore`, `Play`, `Submission`: none. Their properties are about safety, and nothing in the code
  promises that an operator runs another command.

## What is proved

Every safety property the passing runs check, and the action properties and refinements among them,
is also a theorem: for every value of the constants that meets the modules' assumptions, without any
bound on crashes, lengths or numbers of actors other than those constants. Each theorem has the same
shape: an inductive invariant that holds at the start, that every action keeps, and that implies the
property.

`ProviderRoundsProofs`, the ledger alone. `LedgerInv` holds the types, `SettledOnce`, `Solvent` and
`SealedSettled` (the last because the ledger is promised a check and a seal in one, `SealRun`). `Solvent` (spent + reserved <= cap +
overrun) is not inductive alone: a settlement must remove exactly one hold from the reserved sum, which
needs that the hold was open and is not closed twice, and the sum must be a number, which needs a finite
set of open ids. `ActiveFinite`, `HoldOpened` and `HoldClosed` say what a change of that set does to it.

`ProviderRoundsProofs`, the campaign. Every step is a ledger operation or leaves the ledger alone
(`CampaignKeepsLedger`), so the campaign inherits the ledger's promises (`CampaignIsSolvent`). One step
is that only by an invariant: `WarmSeals` is the ledger's `SealRun` because nobody has reserved since
`WarmChecksHolds`, which the lease sees to (`SealLeavesNoHold`). `AmbiguityIsFinal` needs that the flag
is set in the step that sets the ambiguity, and that the one thread of a serial campaign is between
turns from then on, while it takes game after game from the queue.
`RoundsInv` adds who owns which hold: `HoldsTold` says for every place of a worker what has become of
its initial and its current hold, and that no two workers share one; `SentIsKept` that the API lanes
release nothing that was sent; `AloneIsTold` what a single worker knows besides; `WorstCase` that
spending stays bounded even if every request in flight came to cost the maximum, which is the
invariant behind `OverspendIsBounded`: what admission checked is not what settlement charges.

`BudgetChainsProofs`. `ChainsInv` has the files' and the memory's types, `Books` (the chains are
orderly: no id reserved twice, released only if reserved, consumed only once), `Booked` (what a thread
was granted is in them), and `Pending`: every record an operation has still to write is `Due`, that is,
what was decided under the lock still holds when it is written. Hence `LoaderAccepts`,
`GrantsAreBooked`, and the refinement `ChainsImplementLedger`: a short write or a crash between the
appends of one operation maps to a stutter or to that operation, and `release_all_active` to as many
releases as have been written.

`RunStoreProofs`. One owner per run (`LeaseInv`) is not inductive alone: that the second `Lock` is
refused follows from the flock of a run naming its owner (`OwnersHoldTheLock`). `StoreInv` says what a
command knows about the run it will write: it owns the lease (`Leased`), the run has events unless the
command creates it (`Known`, `CreatedOnce`, `RunsGrow`), and it has seen the run without a seal since it
owns it (`Unsealed`); hence `SealedRunsAreFrozen`. The conclusion rests on the second look under the
lease: with the mutant `StartedIgnoringSeal` `Unsealed` is not preserved. `StoreFacts` adds what the
files of a run say of each other (`RunFacts`: checkpoint, event and chain, seal and artifacts, parent
and snapshot) and what a command has read of them (`Reads`: a prefix of a chain that only grows), from
which come `NoAlarmIsFalse`, `ParentsStayBound` and `WarmChildrenKnow`. An append that was cut is part of
it: such a chain gets no further event and no seal, and the theorems say what remains true then.

`CampaignProofs`. Assignments are made one by one and every one can be the last, so `CampaignInv` is
about the state the worker is *on its way to*: `Underway` says there is one it could go on from, which
the remaining assignments lead to. `Proven` says what bank and chain show of a completion, `Locking`
who may write a checkpoint. `CompletionIsProven` and `NoWinIsLeftBehind` hold for any number of jobs;
`SerialSessionsAreCurrent` and `SerialAttemptsArePlayed` have the hypothesis `Jobs = "one"`, without
which the first is false (run `campaign_torn`).

`EvolutionProofs`. `EvolutionInv` says for every place of the host how far git is ahead of memory and
disk (`Placed`, `Held`), what the verdict rests on (`Judged`), where the log has the decisions the
checkpoint counts or what has spoilt the line it was in (`Evidence`), and what money is left (`Money`). It gives the four properties and
`CheckpointImplementsLineage`: the saved checkpoint is a lineage that only grows by sound versions.

`SubmissionProofs`. `SubmissionInv` ties the claim file to the service (`ModeTold`, `CardsAreClaimed`)
and, for each place of a command, to what it will write next (`AskingTold`, `HoldingTold`); the last
part is `ReportedIsSubmitted` itself.

`PlayProofs`. `PlayInv`: until a failure the frames in memory are those of the trace and at most one
more, which is the game's answer to a legal action (`AnswerIsPlayed`), so what `Commit` appends keeps
the trace a play. `CountInv` adds the loop's counters and the budget. `WatchInv` is about the
supervisors in memory and in the checkpoint: each was shown transitions of this trace in order, none of
the episode underway, and as long as none was skipped its counters are the trace's stalls
(`Faithful`, `Trails`); `SupervisorStaysCurrent` follows with the remark that as many transitions as
there are, in order, are all of them (`OrderedIsAll`). The score is a state function of a trace that
replays: `ChargesAreActions` is the induction along the trace, `PerfectIsWhole` compares the score's
sums with the perfect ones level by level.

Sums and recursive definitions. `SumsProofs` proves `SetInduction` (a set of numbers that has zero and
successors has all) from the library's well-foundedness of <, and from it that a recursion over numbers
has a solution and stays in its set (`RecursionExists`, `RecursionStays`). With those the recursive
functions of `BudgetChains`, `Scoring` and `Play` are reasoned about for every length.

Assumptions, all named in the modules that declare the constants. Reservation ids, workers and games
are finite sets where something is summed or counted over them (`LedgerAssumption`,
`ChainsAssumption`, `RoundsAssumption`, `SubmissionAssumption`). Prices, limits and baselines are
natural numbers, a ceiling and a turn are positive, no request costs more than `MaxCost`, and a ceiling
starts below its limit (also `EvolutionAssumption`, `CampaignAssumption`, `ScoringAssumption`).
Values that stand for "none" are no members of what they are told from (`LeaseAssumption`,
`StoreAssumption`, `NoneIsNoState`). `PlayAssumption` says what the ARC adapter presents: legal actions
lead to frames, levels are not lost, `win_levels` of them win, and a won game offers no action.

Model-checked only: the liveness properties `StopReachesEveryone`, `CampaignEnds` and `AttemptDecides`
(the prover has no ENABLED and so no fairness), and the four violations under "Findings".

## Findings

1. `codex_receipts`: the Codex lane releases the hold of a request whose process failed or gave no
   usable answer, although the provider may charge for it; `docs/SECURITY.md:27-32` and
   `docs/BENCHMARK_PROTOCOL.md:51` say the worst-case hold stays. The API lanes do keep it.
2. `evolution_resumable`: a crash during the variation turn, or between commit and checkpoint, leaves
   a state that `restore` refuses, although the checkpoint is documented as the complete recovery
   state.
3. `campaign_torn`: with several jobs a peer's checkpoint can pair an old session with a newer action
   count; after a crash `_reconcile_trace_state` then keeps the session its docstring calls unsafe.
   The check with one job passes.
4. `run_store_torn`: an event a crash has cut makes `load_jsonl` refuse the whole chain at every later
   open, so the "crash-resumable" campaign of `README.md:25` cannot be resumed, validated, reported or
   inherited. What still holds is `NoFalseAlarm`: nothing else raises an alarm, and no seal covers such
   a chain.

Met while modelling and kept in the models as the code has it, without a run of their own:

* `runtime/results.py:629` tells the operator to resume a run with open holds to recover it before
  creating a child, but no campaign path ever closes such a hold: `Resume` reports it and keeps it
  (`ProviderRounds`: `WarmChecksHolds` then refuses the run for ever).
* `append_jsonl` does not look at what `os.write` returned, so a step record `checkpoints.py:51` calls
  durable may be missing from the log when the state that counts it is published, and the next record
  may be lost with it (`Evolution`'s `AppendRecord`). What still holds is `HistoryIsEvidenced`; the
  checkpoint carries the records too, so the engine can go on.
* `_read_submission` prefers a completed dry run to no submission. When a complete bank below 100 was
  tried in a dry run, as `README.md:30-31` recommends, and a resume then improves the bank, every later
  validate, report, campaign end and compete of that run raises, for the artifact replays another bank
  (`Submission`: such commands end in `StepFails`).
* A torn trace record makes `load_trace` refuse the file. `tools.py` says to abort and replay the
  durable prefix, but resume, validate and report are all refused from then on, and so is the import of
  a child of that run (`Play`'s `Refuse`, `RunStore`'s `Started` and `EvidenceFails`).
* `REPEATED_DEATH` cannot fire: the signature of a death path is a record hash, which covers
  everything before it, so no two deaths share one. `redirect or record_transition(...)` shows the
  supervisor no transition after the one that redirects, and a failed episode's transitions are never
  shown, so counters may be behind the trace; `SupervisorIsCurrent` therefore compares them only while
  everything was shown (`Play`).
* After a record could not be appended its frame stays in the runtime's memory, where a claim of that
  episode may still cite it; the import into a child looks the evidence up again (`RunStore`'s
  `Eligible`).
* An interrupt inside `compete` closes the scorecard but leaves the claim "opened"
  (`ClaimTellsTheCard` says no more of such a claim).

## Not modelled

* One writer per trace is assumed in `Play`, which is an episode of an API lane; the MCP server that
  writes the trace of a Codex episode is not modelled.
* Short writes are modelled where `append_jsonl` is (`BudgetChains`, `Evolution`, `RunStore`) and in the
  trace (`Play`); a short write of the exclusive claim in `Submission` that nobody notices is not. In
  `Campaign` an event that cannot be appended (`campaign_runner.py:820`, `1041`) is not modelled but as
  the crash it may be followed by; `ProviderRounds` does model it for the ambiguity event, and `RunStore`
  for all of them.
* `Scoring` is exact: the code compares floating-point scores with 100.0.
* `BudgetChains` trusts the advisory lock. `atomic_write_json` is atomic, git and SQLite are trusted,
  files are not edited by hand: digests are modelled by what they commit to, and what `integrity.py`
  finds in a tampered run is outside the models.
* Money is integer units; token arithmetic and price tables are data.
* `ProviderRounds` knows of the games only how many are queued; its workers play turns until stopped.
  The writes of `create_warm` between its look at the holds and the seal are `RunStore`'s. `Campaign` knows
  nothing of money; a turn may complete, fail, be ambiguous or abort at any time. `Play` knows
  neither: a stop or an ambiguity is the end of its process.
* `Campaign` is one game, with its peers reduced to what they can do to it. A win has a rank, of
  which the highest is 100 RHAE; counters stop at the limits beyond which nothing reads them.
  A session is what an OpenAI response id names: the conversation up to that response.
* `Submission` takes the answer of the official service and its checks as one verdict, and the bank
  of a run as what its games are worth. The mean over a board is left out of `Scoring`.
* Proposing and approving claims within a run are single transactions of one worker and part of
  `Work`; the read-only tools, prompts, observations, tool schemas, report figures, configuration
  schemas, `doctor` and argument parsing change no state a property here could be about.

## Plan

Every planned module is written, and no safety property is left without a theorem. What is left, in
this order:

1. A model of the Codex episode, whose trace is written by the MCP server Codex starts.
2. The two remaining hazards without a property: the follow-up holds that only the OpenAI loop knows,
   and the ambiguous outcome in the generic lane, as properties of `ProviderRounds` and `Evolution`.
3. The safety part of the liveness arguments: that the measure a campaign's attempt or a stop descends
   on never rises, as an action property and a theorem.
