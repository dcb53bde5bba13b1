------------------------------ MODULE RunStore ------------------------------
(***************************************************************************)
(* The run directories of a results root (runtime/results.py) under the    *)
(* commands that create, resume, validate, report and inherit them         *)
(* (cli.py, campaign_runner.py's import_warm_memory, runtime/memory.py).   *)
(*                                                                         *)
(* A command is a process or, in the library, a thread.  It reads a run    *)
(* without the lease first (the preview), takes the lease, reads it again  *)
(* and writes it.  Only creating a run writes without the lease.  A hash   *)
(* is modelled by what it commits to: an event hash by the chain up to the *)
(* event, an artifact digest by the content.                               *)
(***************************************************************************)
EXTENDS RunLease, SequencesExt

CONSTANTS
    NoRun,          \* Python's None, for a parent
    Claims,         \* memory records
    Eligible,       \* those resolved, approved for warm import and with evidence
                    \* among the frames and receipts of their run's traces
    MaxStarts,      \* bound: commands that are started
    MaxWork,        \* bound: campaign events of a run above which its workers rest
    MaxCuts         \* bound: runs whose last event is not a whole line, at a time

ASSUME StoreAssumption ==
    /\ NoRun \notin Runs
    /\ Eligible \subseteq Claims
    /\ MaxStarts \in Nat /\ MaxWork \in Nat /\ MaxCuts \in Nat

VARIABLES
    disk,       \* disk[r]: the durable files of run r
    cmd,        \* cmd[c]: the locals of command c
    started     \* commands started so far

vars == <<leaseVars, disk, cmd, started>>

\* A file that does not exist: neither a chain of events nor a seal.
Absent == <<>>

Events == {"run.created", "limits_revised", "memory.imported", "campaign",
           "validation.completed", "run.sealed"}

\* How a record ends in events.jsonl: append_jsonl neither looks at what os.write returned
\* nor at how the file ended before, so a record may lack its newline or be cut.
Writes == {"line", "bare", "torn"}

\* chain: the events appended; end: how events.jsonl ends (a cut record stays, and nothing
\* is appended after it); files: changes of files no other field stands for (traces, bank,
\* reports).
NoFiles == [made |-> FALSE, parent |-> NoRun, snapshot |-> Absent, chain |-> <<>>,
            end |-> "line", files |-> 0, torn |-> FALSE, checkpoint |-> Absent,
            claims |-> {}, copies |-> {},
            listing |-> Absent, seal |-> Absent]

\* What _artifact_manifest digests: every file but the seal, its listing and the locks.
Artifacts(d) == [d EXCEPT !.listing = Absent, !.seal = Absent]

IsSealed(r) == disk[r].seal # Absent

\* run: the run it works on, the parent for a warm creation; reading: the run being
\* opened; seen: what it has read and not yet used.
NotStarted == [at |-> "idle", job |-> "none", run |-> NoRun, child |-> NoRun,
               reading |-> NoRun, seen |-> Absent, leased |-> FALSE]

Init ==
    /\ LeaseInit
    /\ disk = [r \in Runs |-> NoFiles]
    /\ cmd = [c \in Commands |-> NotStarted]
    /\ started = 0

Goto(c, place) == cmd' = [cmd EXCEPT ![c].at = place]
Write(r, d) == disk' = [disk EXCEPT ![r] = d]

Endings ==
    IF Cardinality({r \in Runs : disk[r].end # "line"}) < MaxCuts THEN Writes ELSE {"line"}

\* load_jsonl rejects a cut record, and with it the whole chain.
Loads(d) == d.end # "torn"

\* A record after one without its newline makes one malformed line of the two.
Appended(d, kind, how) ==
    [d EXCEPT !.chain = Append(@, kind), !.end = IF @ = "bare" THEN "torn" ELSE how]

\* An exception: `with RunLease' gives the lease back, without one the command ends.
Fail(c) == IF cmd[c].leased THEN Goto(c, "release")
           ELSE cmd' = [cmd EXCEPT ![c] = NotStarted]

\* append_event loads the chain it adds to: d is the run with the other files the caller
\* has changed by then, `next' the caller's locals if the event is appended.
AppendEvent(c, d, kind, next) ==
    IF Loads(d)
    THEN /\ \E how \in Endings : Write(cmd[c].run, Appended(d, kind, how))
         /\ cmd' = [cmd EXCEPT ![c] = next]
    ELSE Write(cmd[c].run, d) /\ Fail(c)

\* seal() holds .events.lock over its three writes.
Sealing(r) == \E c \in Commands : cmd[c].run = r /\ cmd[c].at \in {"listing", "sealing"}

-----------------------------------------------------------------------------
\* Starting a command.

Begin(c, command) ==
    /\ started < MaxStarts
    /\ cmd[c] = NotStarted
    /\ cmd' = [cmd EXCEPT ![c] = command]
    /\ started' = started + 1
    /\ UNCHANGED <<leaseVars, disk>>

StartCold(c, r) ==
    Begin(c, [NotStarted EXCEPT !.at = "make", !.job = "campaign", !.run = r])

StartOn(c, job, r) ==
    /\ disk[r].made
    /\ Begin(c, [NotStarted EXCEPT !.at = "open", !.job = job, !.run = r, !.reading = r])

StartWarm(c, r, child) ==
    /\ disk[r].made
    /\ Begin(c, [NotStarted EXCEPT !.at = "open", !.job = "warm", !.run = r, !.reading = r,
                                   !.child = child])

-----------------------------------------------------------------------------
\* ResultsManager.open: the manifest and its digest, the events, the checkpoint and the
\* events again, the seal.  It takes short locks but no lease, so any writer may act
\* between two reads.

\* A run whose creation was cut short has no digest or no creation event, one whose last
\* append was cut no longer loads.  The manifest never changes, so it is read together
\* with the checkpoint.
OpenManifest(c) ==
    LET d == disk[cmd[c].reading] IN
    /\ cmd[c].at = "open"
    /\ ~Sealing(cmd[c].reading)
    /\ IF d.chain # <<>> /\ Loads(d)
       THEN cmd' = [cmd EXCEPT ![c].at = "prefix", ![c].seen = d.checkpoint]
       ELSE Fail(c)
    /\ UNCHANGED <<leaseVars, disk, started>>

\* The checkpoint that was read names an event of the chain that is read now.
CheckpointHolds(c) ==
    LET d == disk[cmd[c].reading] IN
    cmd[c].seen # Absent => Loads(d) /\ IsPrefix(cmd[c].seen, d.chain)

CheckPrefix(c) ==
    /\ cmd[c].at = "prefix"
    /\ ~Sealing(cmd[c].reading)
    /\ IF CheckpointHolds(c)
       THEN cmd' = [cmd EXCEPT ![c].at = "seal", ![c].seen = Absent]
       ELSE Fail(c)
    /\ UNCHANGED <<leaseVars, disk, started>>

\* _read_seal: the seal commits to the listing and to the whole chain, the listing to
\* the artifacts.
SealHolds(d) == d.seal # Absent =>
    /\ d.seal = [listing |-> d.listing, chain |-> d.chain]
    /\ d.listing = Artifacts(d)
    /\ Loads(d) /\ Last(d.chain) = "run.sealed"

CheckSeal(c) ==
    /\ cmd[c].at = "seal"
    /\ ~Sealing(cmd[c].reading)
    /\ IF SealHolds(disk[cmd[c].reading]) THEN Goto(c, "opened") ELSE Fail(c)
    /\ UNCHANGED <<leaseVars, disk, started>>

-----------------------------------------------------------------------------
\* What a command does with a run it has opened.

\* resume() refuses a sealed run, and opens the parent of a warm one as well.
MayResume(c) == ~IsSealed(cmd[c].run)
HasParentToRead(c) == cmd[c].reading = cmd[c].run /\ disk[cmd[c].run].parent # NoRun

OpenParent(c) ==
    cmd' = [cmd EXCEPT ![c].at = "open", ![c].reading = disk[cmd[c].run].parent]

\* assert_parent_unchanged: the parent's seal is the one the child was bound to.
ParentUnchanged(c) == disk[cmd[c].reading].seal = disk[cmd[c].run].snapshot

OpenedResume(c) ==
    /\ cmd[c].at = "opened" /\ cmd[c].job = "resume"
    /\ CASE cmd[c].reading = cmd[c].run /\ ~MayResume(c) -> Fail(c)
         [] HasParentToRead(c) /\ MayResume(c) -> OpenParent(c)
         [] cmd[c].reading # cmd[c].run /\ ~ParentUnchanged(c) -> Fail(c)
         [] OTHER -> Goto(c, IF cmd[c].leased THEN "started" ELSE "acquire")
    /\ UNCHANGED <<leaseVars, disk, started>>

\* validate and report: preview, lease, and the same again under the lease; only
\* validate persists what it found, and only in a run without a seal.
OpenedReport(c) ==
    /\ cmd[c].at = "opened" /\ cmd[c].job = "report"
    /\ \/ ~cmd[c].leased /\ Goto(c, "acquire")
       \/ cmd[c].leased /\ Goto(c, "release")
       \/ cmd[c].leased /\ ~IsSealed(cmd[c].run) /\ Goto(c, "persist")
    /\ UNCHANGED <<leaseVars, disk, started>>

OpenedWarm(c) ==
    /\ cmd[c].at = "opened" /\ cmd[c].job = "warm"
    /\ Goto(c, "acquire")
    /\ UNCHANGED <<leaseVars, disk, started>>

-----------------------------------------------------------------------------
\* The lease around the mutable part.

Acquire(c) ==
    /\ cmd[c].at = "acquire"
    /\ \/ Register(c, cmd[c].run) /\ Goto(c, "locking")
       \/ Registered(c, cmd[c].run) /\ Fail(c) /\ UNCHANGED leaseVars
    /\ UNCHANGED <<disk, started>>

\* A resume, a validation and a report start over; a new run does not look again.
AfterLease(job) == CASE job = "campaign" -> "started"
                     [] job = "warm" -> "freeze"
                     [] OTHER -> "open"

TryLock(c) ==
    /\ cmd[c].at = "locking"
    /\ \/ /\ Lock(c)
          /\ cmd' = [cmd EXCEPT ![c].at = AfterLease(cmd[c].job), ![c].leased = TRUE,
                                ![c].reading = cmd[c].run]
       \/ LockRefused(c) /\ Fail(c)
    /\ UNCHANGED <<disk, started>>

Release(c) ==
    /\ cmd[c].at = "release"
    /\ Unlock(c)
    /\ Goto(c, "discard")
    /\ UNCHANGED <<disk, started>>

\* create_warm leaves the parent's lease with the child made; the command then runs the
\* child as a new campaign.
DiscardLease(c) ==
    /\ cmd[c].at = "discard"
    /\ Discard(c)
    /\ cmd' = [cmd EXCEPT ![c] =
                 IF cmd[c].job = "inherit"
                 THEN [NotStarted EXCEPT !.at = "acquire", !.job = "campaign", !.run = cmd[c].child]
                 ELSE NotStarted]
    /\ UNCHANGED <<disk, started>>

-----------------------------------------------------------------------------
\* create_warm under the parent's lease: it may refuse for the parent's open holds (they
\* are BudgetLedger's), otherwise the parent is sealed.

\* run.sealed is appended and the chain loaded again before anything else is written.
AnchorSeal(c) ==
    LET r == cmd[c].run IN
    /\ Loads(disk[r])
    /\ \E how \in Endings :
          LET sealed == Appended(disk[r], "run.sealed", how) IN
          /\ Write(r, sealed)
          /\ IF Loads(sealed) THEN Goto(c, "listing") ELSE Fail(c)

\* Mutant of Freeze: a parent with a seal is sealed again for its next child.
FreezeAgain(c) ==
    /\ cmd[c].at = "freeze"
    /\ (Fail(c) /\ UNCHANGED disk) \/ AnchorSeal(c)
    /\ UNCHANGED <<leaseVars, started>>

Freeze(c) ==
    LET r == cmd[c].run IN
    /\ cmd[c].at = "freeze"
    /\ \/ Fail(c) /\ UNCHANGED disk
       \/ /\ IsSealed(r)
          /\ IF SealHolds(disk[r])
             THEN cmd' = [cmd EXCEPT ![c].at = "make", ![c].seen = disk[r].seal]
             ELSE Fail(c)
          /\ UNCHANGED disk
       \/ ~IsSealed(r) /\ AnchorSeal(c)
    /\ UNCHANGED <<leaseVars, started>>

WriteListing(c) ==
    LET r == cmd[c].run IN
    /\ cmd[c].at = "listing"
    /\ Write(r, [disk[r] EXCEPT !.listing = Artifacts(disk[r])])
    /\ Goto(c, "sealing")
    /\ UNCHANGED <<leaseVars, started>>

WriteSeal(c) ==
    LET r == cmd[c].run
        seal == [listing |-> disk[r].listing, chain |-> disk[r].chain] IN
    /\ cmd[c].at = "sealing"
    /\ Write(r, [disk[r] EXCEPT !.seal = seal])
    /\ cmd' = [cmd EXCEPT ![c].at = "make", ![c].seen = seal]
    /\ UNCHANGED <<leaseVars, started>>

-----------------------------------------------------------------------------
\* _create, without a lease: a directory, the manifest and its digest, then the creation
\* event.  A run without the event does not open, whatever else of it exists.

New(c) == IF cmd[c].job = "warm" THEN cmd[c].child ELSE cmd[c].run

\* Run ids have the resolution of a second: a collision is an error.
MakeRun(c) ==
    LET d == disk[New(c)] IN
    /\ cmd[c].at = "make"
    /\ IF ~d.made
       THEN /\ Write(New(c), [d EXCEPT !.made = TRUE, !.snapshot = cmd[c].seen,
                               !.parent = IF cmd[c].job = "warm" THEN cmd[c].run ELSE NoRun])
            /\ Goto(c, "creation")
       ELSE Fail(c) /\ UNCHANGED disk
    /\ UNCHANGED <<leaseVars, started>>

AppendCreation(c) ==
    /\ cmd[c].at = "creation"
    /\ \E how \in Endings : Write(New(c), Appended(disk[New(c)], "run.created", how))
    /\ cmd' = [cmd EXCEPT ![c] = IF @.job = "warm"
                                 THEN [@ EXCEPT !.at = "release", !.job = "inherit"]
                                 ELSE [@ EXCEPT !.at = "acquire"]]
    /\ UNCHANGED <<leaseVars, started>>

-----------------------------------------------------------------------------
\* The campaign under its lease.

CampaignEvents(d) ==
    Cardinality({i \in DOMAIN d.chain : d.chain[i] \in {"campaign", "limits_revised"}})

\* A resume may raise the ceiling and the limits of the campaign before it looks at the
\* traces.
ReviseLimits(c) ==
    LET d == disk[cmd[c].run] IN
    /\ cmd[c].at = "started" /\ cmd[c].job = "resume"
    /\ CampaignEvents(d) < MaxWork
    /\ AppendEvent(c, d, "limits_revised", cmd[c])
    /\ UNCHANGED <<leaseVars, started>>

\* Mutant of Started: a new run is not looked at again once it is leased.
StartedIgnoringSeal(c) ==
    LET d == disk[cmd[c].run] IN
    /\ cmd[c].at = "started"
    /\ IF cmd[c].job = "resume" /\ d.torn THEN Fail(c)
       ELSE IF d.parent = NoRun THEN Goto(c, "play")
       ELSE cmd' = [cmd EXCEPT ![c].at = "open", ![c].job = "import", ![c].reading = d.parent]
    /\ UNCHANGED <<leaseVars, disk, started>>

\* A new run's ledger and any run's first event refuse a seal; a resume replays every
\* trace first, and a torn one does not load.
Started(c) ==
    LET d == disk[cmd[c].run] IN
    /\ cmd[c].at = "started"
    /\ IF IsSealed(cmd[c].run) \/ (cmd[c].job = "resume" /\ d.torn) THEN Fail(c)
       ELSE IF d.parent = NoRun THEN Goto(c, "play")
       ELSE cmd' = [cmd EXCEPT ![c].at = "open", ![c].job = "import", ![c].reading = d.parent]
    /\ UNCHANGED <<leaseVars, disk, started>>

\* import_warm_memory: done once, told by its event.
OpenedImport(c) ==
    /\ cmd[c].at = "opened" /\ cmd[c].job = "import"
    /\ IF ~ParentUnchanged(c) \/ ~Loads(disk[cmd[c].run]) THEN Fail(c)
       ELSE IF Contains(disk[cmd[c].run].chain, "memory.imported") THEN Goto(c, "play")
       ELSE Goto(c, "copying")
    /\ UNCHANGED <<leaseVars, disk, started>>

Importable(c) == disk[cmd[c].reading].claims \cap Eligible

\* Mutant of Missing: a record without review or evidence is copied as well.
MissingUnreviewed(c) == disk[cmd[c].reading].claims \ disk[cmd[c].run].copies

Missing(c) == Importable(c) \ disk[cmd[c].run].copies

\* One INSERT per record, each committed, in the parent's order; a record copied before
\* is skipped.  Evidence is collected from the parent's traces, which must all load.
CopyClaim(c) ==
    LET r == cmd[c].run IN
    /\ cmd[c].at = "copying"
    /\ ~disk[cmd[c].reading].torn
    /\ Missing(c) # {}
    /\ Write(r, [disk[r] EXCEPT !.copies = @ \cup {CHOOSE m \in Missing(c) : TRUE}])
    /\ UNCHANGED <<leaseVars, cmd, started>>

EvidenceFails(c) ==
    /\ cmd[c].at = "copying"
    /\ disk[cmd[c].reading].torn /\ disk[cmd[c].reading].claims # {}
    /\ Fail(c)
    /\ UNCHANGED <<leaseVars, disk, started>>

\* Mutant of AnchorImport: the event announces the import before it is done.
AnchorImportFirst(c) ==
    /\ cmd[c].at = "copying"
    /\ AppendEvent(c, disk[cmd[c].run], "memory.imported", [cmd[c] EXCEPT !.at = "play"])
    /\ UNCHANGED <<leaseVars, started>>

\* The parent is compared with its seal once more, then the event is appended.
AnchorImport(c) ==
    /\ cmd[c].at = "copying"
    /\ Missing(c) = {}
    /\ ~disk[cmd[c].reading].torn \/ disk[cmd[c].reading].claims = {}
    /\ IF ParentUnchanged(c) /\ SealHolds(disk[cmd[c].reading])
       THEN AppendEvent(c, disk[cmd[c].run], "memory.imported", [cmd[c] EXCEPT !.at = "play"])
       ELSE Fail(c) /\ UNCHANGED disk
    /\ UNCHANGED <<leaseVars, started>>

\* campaign.started.
Play(c) ==
    /\ cmd[c].at = "play"
    /\ AppendEvent(c, disk[cmd[c].run], "campaign",
                   [cmd[c] EXCEPT !.at = "working", !.seen = Absent])
    /\ UNCHANGED <<leaseVars, started>>

\* The workers of the pool change files (traces, bank, memory) and append the events that
\* report it.  If that fails the campaign cannot report the failure either, and ends.
Work(c) ==
    LET d == disk[cmd[c].run] IN
    /\ cmd[c].at = "working"
    /\ CampaignEvents(d) < MaxWork
    /\ AppendEvent(c, [d EXCEPT !.files = @ + 1, !.claims = Claims], "campaign", cmd[c])
    /\ UNCHANGED <<leaseVars, started>>

\* write_checkpoint reads the head and writes the file in two steps; workers append in
\* between.
ReadHead(c) ==
    LET d == disk[cmd[c].run] IN
    /\ cmd[c].at = "working"
    /\ cmd[c].seen = Absent
    /\ IF Loads(d) THEN cmd' = [cmd EXCEPT ![c].seen = d.chain] ELSE Fail(c)
    /\ UNCHANGED <<leaseVars, disk, started>>

\* Mutant of WriteCheckpoint: it is bound to the event about to be appended.
WriteCheckpointAhead(c) ==
    LET r == cmd[c].run IN
    /\ cmd[c].at = "working"
    /\ cmd[c].seen # Absent
    /\ Write(r, [disk[r] EXCEPT !.checkpoint = Append(cmd[c].seen, "campaign")])
    /\ cmd' = [cmd EXCEPT ![c].seen = Absent]
    /\ UNCHANGED <<leaseVars, started>>

WriteCheckpoint(c) ==
    LET r == cmd[c].run IN
    /\ cmd[c].at = "working"
    /\ cmd[c].seen # Absent
    /\ Write(r, [disk[r] EXCEPT !.checkpoint = cmd[c].seen])
    /\ cmd' = [cmd EXCEPT ![c].seen = Absent]
    /\ UNCHANGED <<leaseVars, started>>

\* validation.json and report.json, then validation.completed.
PersistReport(c) ==
    LET r == cmd[c].run IN
    /\ cmd[c].at = "persist" \/ (cmd[c].at = "working" /\ cmd[c].seen = Absent)
    /\ Loads(disk[r])
    /\ Write(r, [disk[r] EXCEPT !.files = @ + 1])
    /\ Goto(c, "anchor")
    /\ UNCHANGED <<leaseVars, started>>

AnchorReport(c) ==
    /\ cmd[c].at = "anchor"
    /\ AppendEvent(c, disk[cmd[c].run], "validation.completed",
                   [cmd[c] EXCEPT !.at = "release"])
    /\ UNCHANGED <<leaseVars, started>>

-----------------------------------------------------------------------------
\* A process dies between two steps; inside an append of an event it has left what a short
\* write leaves.  Inside a campaign it may leave a torn trace record behind.
Interrupted(p, r) == \E c \in Dead(p) : cmd[c].at = "working" /\ cmd[c].run = r

Crash(p) ==
    /\ \E c \in Dead(p) : cmd[c] # NotStarted
    /\ ProcessDies(p)
    /\ cmd' = [c \in Commands |-> IF c \in Dead(p) THEN NotStarted ELSE cmd[c]]
    /\ \E torn \in BOOLEAN :
          disk' = [r \in Runs |-> IF Interrupted(p, r)
                                 THEN [disk[r] EXCEPT !.torn = @ \/ torn]
                                 ELSE disk[r]]
    /\ UNCHANGED started

Open(c) == OpenManifest(c) \/ CheckPrefix(c) \/ CheckSeal(c)
Opened(c) == OpenedResume(c) \/ OpenedReport(c) \/ OpenedWarm(c) \/ OpenedImport(c)
Lease(c) == Acquire(c) \/ TryLock(c) \/ Release(c) \/ DiscardLease(c)
Seal(c) == Freeze(c) \/ WriteListing(c) \/ WriteSeal(c)
Create(c) == MakeRun(c) \/ AppendCreation(c)
Import(c) == CopyClaim(c) \/ EvidenceFails(c) \/ AnchorImport(c)
Campaign(c) == \/ ReviseLimits(c) \/ Started(c) \/ Play(c) \/ Work(c) \/ ReadHead(c) \/ WriteCheckpoint(c)
               \/ PersistReport(c) \/ AnchorReport(c)

Next ==
    \/ \E c \in Commands :
          \/ \E r \in Runs :
                \/ StartCold(c, r)
                \/ \E job \in {"resume", "report"} : StartOn(c, job, r)
                \/ \E child \in Runs \ {r} : StartWarm(c, r, child)
          \/ Open(c) \/ Opened(c) \/ Lease(c) \/ Seal(c) \/ Create(c) \/ Import(c) \/ Campaign(c)
    \/ \E p \in Commands : Crash(p)

Spec == Init /\ [][Next]_vars
-----------------------------------------------------------------------------
Places == {"idle", "open", "prefix", "seal", "opened", "acquire",
           "locking", "release", "discard", "freeze", "listing", "sealing", "make",
           "creation", "started", "copying", "play", "working",
           "persist", "anchor"}
Jobs == {"none", "campaign", "resume", "report", "warm", "inherit", "import"}

RunStoreTypeOK ==
    /\ LeaseTypeOK
    /\ \A r \in Runs :
          /\ disk[r].made \in BOOLEAN
          /\ disk[r].parent \in (Runs \ {r}) \cup {NoRun}
          /\ disk[r].parent = NoRun <=> disk[r].snapshot = Absent
          /\ disk[r].chain \in Seq(Events) /\ disk[r].end \in Writes
          /\ disk[r].files \in Nat
          /\ disk[r].torn \in BOOLEAN
          /\ disk[r].claims \subseteq Claims /\ disk[r].copies \subseteq Eligible
    /\ \A c \in Commands :
          /\ cmd[c].at \in Places /\ cmd[c].job \in Jobs
          /\ cmd[c].leased <=> lease[c].step = "owned" \/ cmd[c].at = "discard"
          /\ cmd[c].leased => lease[c].run = cmd[c].run
    /\ started \in 0..MaxStarts

\* Whatever reads, writes and crashes interleave, opening an honest run reports tampering
\* only if events.jsonl itself was cut: a reader without the lease may see a checkpoint of
\* one moment, a chain of the next and a seal of a third.  A seal never covers a chain
\* that was cut, so a sealed parent opens forever.
NoFalseAlarm ==
    \A c \in Commands :
        /\ cmd[c].at = "prefix" /\ Loads(disk[cmd[c].reading]) => CheckpointHolds(c)
        /\ cmd[c].at = "seal" /\ ~Sealing(cmd[c].reading) => SealHolds(disk[cmd[c].reading])
        /\ cmd[c].at \in {"opened", "copying"} /\ cmd[c].reading # cmd[c].run =>
              ParentUnchanged(c) /\ SealHolds(disk[cmd[c].reading])

\* No step of any command changes a file of a sealed run.
SealedIsFrozen ==
    [][\A r \in Runs : IsSealed(r) => disk'[r] = disk[r]]_vars

\* Every child is bound to the seal its parent still has, and the seal to the parent's
\* artifacts, however many children and crashes there were.
ChildrenMatchParent ==
    \A r \in Runs : disk[r].parent # NoRun =>
        LET d == disk[disk[r].parent] IN
        d.seal # Absent /\ d.seal = disk[r].snapshot /\ SealHolds(d)

\* A warm child plays only with all the knowledge it may inherit and no other, although
\* the import is one transaction per record and may be cut short and repeated.
WarmStart ==
    \A r \in Runs : disk[r].parent # NoRun =>
        /\ Contains(disk[r].chain, "memory.imported") =>
              disk[r].copies = disk[disk[r].parent].claims \cap Eligible
        /\ Contains(disk[r].chain, "campaign") =>
              Contains(disk[r].chain, "memory.imported")

\* README.md: "crash-resumable campaigns".  A run whose campaign has started opens when it
\* is resumed alone, however the campaign ended.
CampaignsResume ==
    \A c \in Commands :
        /\ cmd[c].job = "resume" /\ cmd[c].at = "open"
        /\ Contains(disk[cmd[c].reading].chain, "campaign")
        /\ \A other \in Commands \ {c} : cmd[other] = NotStarted
        => Loads(disk[cmd[c].reading])
=============================================================================
