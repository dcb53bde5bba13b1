--------------------------- MODULE RunStoreProofs ---------------------------
(***************************************************************************)
(* Proofs about the run directories, for every set of commands, of runs    *)
(* and of memory records and every number of starts: a run has one owner,  *)
(* a sealed run never changes again, opening a run never reports tampering *)
(* nobody did, every child stays bound to its parent's seal, and it plays  *)
(* with exactly the memory it may inherit.                                 *)
(*                                                                         *)
(* StoreInv is about who may write: every command about to write owns its  *)
(* run and has seen it without a seal since it does, or is creating it and *)
(* nobody has been able to open it yet.  StoreFacts is about what is       *)
(* written and read: checkpoints and what was read of a chain begin it,    *)
(* seals hold, children are bound, imports are complete when they say so.  *)
(***************************************************************************)
EXTENDS RunStore, TLAPS

-----------------------------------------------------------------------------
\* The lease alone: LeaseInv is kept by every step that is a lease step or leaves the
\* lease as it is.

\* Who owns a run holds its lock: OneOwner alone is not inductive, for it does not say
\* what refuses a second Lock.
OwnersHoldTheLock ==
    \A c \in Commands : lease[c].step = "owned" => flock[lease[c].run] = c

LeaseInv == LeaseTypeOK /\ OwnersHoldTheLock /\ RegistryIsLive

LEMMA LeaseInitInv ==
  ASSUME LeaseInit
  PROVE  LeaseInv
<1>1. LeaseTypeOK
  BY DEF LeaseInit, LeaseTypeOK
<1>2. OwnersHoldTheLock
  BY DEF LeaseInit, OwnersHoldTheLock, NoLease
<1>3. RegistryIsLive
  BY DEF LeaseInit, RegistryIsLive
<1> QED
  BY <1>1, <1>2, <1>3 DEF LeaseInv

LEMMA RegisterStep ==
  ASSUME LeaseInv, NEW c \in Commands, NEW r \in Runs, Register(c, r)
  PROVE  LeaseInv'
<1> USE DEF LeaseInv, LeaseTypeOK, Register, At, Entry
<1>1. LeaseTypeOK'
  BY DEF LeaseSteps
<1>2. OwnersHoldTheLock'
  BY DEF OwnersHoldTheLock
<1>3. RegistryIsLive'
  BY DEF RegistryIsLive, NoLease
<1> QED
  BY <1>1, <1>2, <1>3

LEMMA LockStep ==
  ASSUME LeaseInv, NEW c \in Commands, Lock(c)
  PROVE  LeaseInv'
<1> USE DEF LeaseInv, LeaseTypeOK, Lock
<1>1. LeaseTypeOK'
  BY DEF LeaseSteps, NoLease
<1>2. OwnersHoldTheLock'
  BY LeaseAssumption DEF OwnersHoldTheLock, NoLease
<1>3. RegistryIsLive'
  BY DEF RegistryIsLive, NoLease
<1> QED
  BY <1>1, <1>2, <1>3

LEMMA LockRefusedStep ==
  ASSUME LeaseInv, NEW c \in Commands, LockRefused(c)
  PROVE  LeaseInv'
<1> USE DEF LeaseInv, LeaseTypeOK, LockRefused
<1>1. LeaseTypeOK'
  OBVIOUS
<1>2. OwnersHoldTheLock'
  BY DEF OwnersHoldTheLock, NoLease
<1>3. RegistryIsLive'
  BY DEF RegistryIsLive, NoLease, Entry
<1> QED
  BY <1>1, <1>2, <1>3

LEMMA UnlockStep ==
  ASSUME LeaseInv, NEW c \in Commands, Unlock(c)
  PROVE  LeaseInv'
<1> USE DEF LeaseInv, LeaseTypeOK, Unlock
<1>1. LeaseTypeOK'
  BY DEF LeaseSteps, NoLease
<1>2. OwnersHoldTheLock'
  BY DEF OwnersHoldTheLock, NoLease
<1>3. RegistryIsLive'
  BY DEF RegistryIsLive, NoLease
<1> QED
  BY <1>1, <1>2, <1>3

LEMMA DiscardStep ==
  ASSUME LeaseInv, NEW c \in Commands, Discard(c)
  PROVE  LeaseInv'
<1> USE DEF LeaseInv, LeaseTypeOK, Discard
<1>1. LeaseTypeOK'
  OBVIOUS
<1>2. OwnersHoldTheLock'
  BY DEF OwnersHoldTheLock, NoLease
<1>3. RegistryIsLive'
  BY DEF RegistryIsLive, NoLease, Entry
<1> QED
  BY <1>1, <1>2, <1>3

LEMMA ProcessDiesStep ==
  ASSUME LeaseInv, NEW p \in Commands, ProcessDies(p)
  PROVE  LeaseInv'
<1> USE DEF LeaseInv, LeaseTypeOK, ProcessDies, Dead
<1>1. LeaseTypeOK'
  OBVIOUS
<1>2. OwnersHoldTheLock'
  BY DEF OwnersHoldTheLock, NoLease
<1>3. RegistryIsLive'
  BY DEF RegistryIsLive, NoLease
<1> QED
  BY <1>1, <1>2, <1>3

LEMMA LeaseStepInv ==
  ASSUME LeaseInv, [LeaseNext]_leaseVars
  PROVE  LeaseInv'
<1>1. CASE UNCHANGED leaseVars
  BY <1>1 DEF leaseVars, LeaseInv, LeaseTypeOK, OwnersHoldTheLock, RegistryIsLive
<1>2. CASE LeaseNext
  BY <1>2, RegisterStep, LockStep, LockRefusedStep, UnlockStep, DiscardStep, ProcessDiesStep
     DEF LeaseNext
<1> QED
  BY <1>1, <1>2

\* One holder of a lock, hence one owner of a run.
LEMMA LeaseInvOwner ==
  ASSUME LeaseInv
  PROVE  OneOwner
BY DEF LeaseInv, OwnersHoldTheLock, OneOwner, Owns, At

\* The lease's types, on every path through acquiring, giving back and dying.
THEOREM LeaseTypes == LeaseSpec => []LeaseTypeOK
<1>1. LeaseInv => LeaseTypeOK
  BY DEF LeaseInv
<1> QED
  BY <1>1, LeaseInitInv, LeaseStepInv, PTL DEF LeaseSpec

\* runtime/lease.py: at most one command is inside a run, for any number of threads and
\* processes, whatever dies where.
THEOREM LeaseIsExclusive == LeaseSpec => []OneOwner
BY LeaseInitInv, LeaseStepInv, LeaseInvOwner, PTL DEF LeaseSpec

\* An acquisition that failed or was interrupted leaves no entry behind: every entry of
\* _PROCESS_LEASES belongs to a command of that process on its way in or out of the run.
THEOREM NoEntryIsLeft == LeaseSpec => []RegistryIsLive
<1>1. LeaseInv => RegistryIsLive
  BY DEF LeaseInv
<1> QED
  BY <1>1, LeaseInitInv, LeaseStepInv, PTL DEF LeaseSpec

-----------------------------------------------------------------------------
\* The run directories.

Files == {"made", "parent", "snapshot", "chain", "end", "files", "torn", "checkpoint", "claims",
          "copies", "listing", "seal"}
Locals == {"at", "job", "run", "child", "reading", "seen", "leased"}

\* The files of a run and the locals of a command are records.
DiskTyped ==
    /\ disk = [r \in Runs |-> disk[r]]
    /\ \A r \in Runs : /\ disk[r] = [f \in Files |-> disk[r][f]]
                       /\ disk[r].made \in BOOLEAN
                       /\ disk[r].chain \in Seq(Events)

CmdTyped ==
    /\ cmd = [c \in Commands |-> cmd[c]]
    /\ \A c \in Commands : /\ cmd[c] = [f \in Locals |-> cmd[c][f]]
                           /\ cmd[c].leased \in BOOLEAN

\* A run is made before it has events, and has events before it has a seal.
RunsGrow ==
    \A r \in Runs : /\ disk[r].chain # <<>> => disk[r].made
                    /\ IsSealed(r) => disk[r].chain # <<>>

Reading == {"open", "prefix", "seal", "opened"}
Inside == {"freeze", "listing", "sealing", "started", "copying", "play", "working",
           "persist", "anchor", "release"}
Writing == {"listing", "sealing", "copying", "play", "working", "persist", "anchor"}

\* Where a command is before it has a run of its own to import into.
NoImport == {"acquire", "locking", "freeze", "listing", "sealing", "make", "creation"}

\* What the places a command can be at say about its lease.
Leased(c) ==
    /\ cmd[c].at = "locking" => lease[c] = At("registered", cmd[c].run)
    /\ cmd[c].leased /\ cmd[c].at # "discard" => lease[c] = At("owned", cmd[c].run)
    /\ \/ cmd[c].at \in Inside
       \/ cmd[c].at \in Reading /\ cmd[c].job = "import"
       \/ cmd[c].at \in {"make", "creation"} /\ cmd[c].job = "warm"
       => cmd[c].leased

\* The run of a command that was able to open it, or has created it, has events; one that
\* is being created has none.
Opening(c) ==
    \/ cmd[c].at \in {"prefix", "seal", "opened", "acquire", "locking"}
    \/ cmd[c].at = "open" /\ (cmd[c].leased \/ cmd[c].reading # cmd[c].run)
    \/ cmd[c].at \in Inside \ {"release"}

Known(c) ==
    /\ cmd[c].at # "idle" => cmd[c].run \in Runs
    /\ cmd[c].at \in NoImport => cmd[c].job # "import"
    /\ cmd[c].job \in {"warm", "inherit"} => cmd[c].child \in Runs
    /\ Opening(c) => disk[cmd[c].run].chain # <<>>
    /\ cmd[c].job = "inherit" => disk[cmd[c].child].chain # <<>>
    /\ cmd[c].at = "creation" => disk[New(c)].made /\ disk[New(c)].chain = <<>>

\* Who is about to write has seen, since it owns the run, that the run has no seal.
Unsealed(c) ==
    \/ cmd[c].at \in Writing
    \/ cmd[c].at \in Reading /\ cmd[c].job = "import"
    \/ cmd[c].job = "resume" /\ cmd[c].leased /\ cmd[c].at = "started"
    \/ cmd[c].job = "resume" /\ cmd[c].leased /\ cmd[c].at \in Reading
                             /\ cmd[c].reading # cmd[c].run
    => ~IsSealed(cmd[c].run)

CommandInv(c) == Leased(c) /\ Known(c) /\ Unsealed(c)

\* Run ids are made once.
CreatedOnce ==
    \A c, d \in Commands :
        c # d /\ cmd[c].at = "creation" /\ cmd[d].at = "creation" => New(c) # New(d)

StoreInv ==
    /\ LeaseInv /\ DiskTyped /\ CmdTyped /\ RunsGrow /\ CreatedOnce
    /\ \A c \in Commands : CommandInv(c)

-----------------------------------------------------------------------------
\* One step of one command, as its peers see it.

\* A command leaves its peers alone, takes nothing back from a run, creates events only in
\* the run it creates, and seals only the run it owns.
Alone(c) ==
    /\ \A d \in Commands \ {c} : cmd'[d] = cmd[d] /\ lease'[d] = lease[d]
    /\ \A r \in Runs :
          /\ disk[r].made => disk'[r].made
          /\ disk[r].chain # <<>> => disk'[r].chain # <<>>
          /\ disk'[r].chain # <<>> => \/ disk[r].chain # <<>>
                                      \/ cmd[c].at = "creation" /\ New(c) = r
          /\ disk'[r].seal # Absent => disk[r].seal # Absent \/ Owns(c, r)

LEMMA PeersKeep ==
  ASSUME StoreInv, NEW c \in Commands, Alone(c), NEW d \in Commands \ {c}
  PROVE  CommandInv(d)'
<1> DEFINE r == cmd[d].run
<1>1. CommandInv(d) /\ d \in Commands
  BY DEF StoreInv
<1>2. cmd'[d] = cmd[d] /\ lease'[d] = lease[d]
  BY DEF Alone
<1>3. Leased(d)'
  BY <1>1, <1>2 DEF CommandInv, Leased
<1>4. Known(d)'
  <2>1. cmd[d].at = "creation" => New(d) \in Runs
    BY <1>1 DEF CommandInv, Known, New
  <2>2. cmd[d].at = "creation" =>
            disk'[New(d)].made /\ disk'[New(d)].chain = <<>>
    BY <1>1, <2>1 DEF StoreInv, CommandInv, Known, CreatedOnce, Alone
  <2>3. New(d)' = New(d)
    BY <1>2 DEF New
  <2>4. Opening(d)' <=> Opening(d)
    BY <1>2 DEF Opening
  <2>5. Opening(d) => r \in Runs
    BY <1>1 DEF Opening, CommandInv, Known, Inside
  <2>6. Opening(d) => disk'[r].chain # <<>>
    BY <1>1, <2>5 DEF CommandInv, Known, Alone
  <2>7. cmd[d].job = "inherit" => disk'[cmd[d].child].chain # <<>>
    BY <1>1 DEF CommandInv, Known, Alone
  <2> QED
    BY <1>1, <1>2, <2>2, <2>3, <2>4, <2>6, <2>7 DEF CommandInv, Known
<1>5. Unsealed(d)'
  <2> DEFINE Careful ==
               \/ cmd[d].at \in Writing
               \/ cmd[d].at \in Reading /\ cmd[d].job = "import"
               \/ cmd[d].job = "resume" /\ cmd[d].leased /\ cmd[d].at = "started"
               \/ cmd[d].job = "resume" /\ cmd[d].leased /\ cmd[d].at \in Reading
                                        /\ cmd[d].reading # cmd[d].run
  <2> SUFFICES ASSUME Careful PROVE ~IsSealed(r)'
    BY <1>2 DEF Unsealed
  <2>1. r \in Runs /\ Owns(d, r)
    BY <1>1 DEF CommandInv, Leased, Known, Owns, Writing, Reading, Inside
  <2>2. ~Owns(c, r)
    BY <2>1, LeaseInvOwner DEF StoreInv, OneOwner
  <2>3. ~IsSealed(r)
    BY <1>1 DEF CommandInv, Unsealed
  <2> QED
    BY <1>2, <2>1, <2>2, <2>3 DEF IsSealed, Alone
<1> QED
  BY <1>3, <1>4, <1>5 DEF CommandInv

-----------------------------------------------------------------------------
\* How the locals of a command change.

Kept(c) ==
    /\ cmd'[c].job = cmd[c].job /\ cmd'[c].run = cmd[c].run /\ cmd'[c].child = cmd[c].child
    /\ cmd'[c].leased = cmd[c].leased

PeersWait(c) == CmdTyped' /\ \A d \in Commands \ {c} : cmd'[d] = cmd[d]

LEMMA Goes ==
  ASSUME CmdTyped, NEW c \in Commands, NEW place, Goto(c, place)
  PROVE  /\ PeersWait(c) /\ Kept(c)
         /\ cmd'[c].at = place /\ cmd'[c].reading = cmd[c].reading
BY DEF CmdTyped, Goto, Locals, Kept, PeersWait

LEMMA Sees ==
  ASSUME CmdTyped, NEW c \in Commands, NEW place, NEW x,
         cmd' = [cmd EXCEPT ![c].at = place, ![c].seen = x]
  PROVE  /\ PeersWait(c) /\ Kept(c)
         /\ cmd'[c].at = place /\ cmd'[c].reading = cmd[c].reading
BY DEF CmdTyped, Locals, Kept, PeersWait

LEMMA Stops ==
  ASSUME CmdTyped, NEW c \in Commands, cmd' = [cmd EXCEPT ![c] = NotStarted]
  PROVE  PeersWait(c) /\ cmd'[c] = NotStarted
BY DEF CmdTyped, Locals, NotStarted, PeersWait

-----------------------------------------------------------------------------
\* The steps of a command that write nothing and leave its lease as it is.

Quiet(c) == UNCHANGED <<leaseVars, disk>> /\ PeersWait(c)

LEMMA QuietStep ==
  ASSUME StoreInv, NEW c \in Commands, Quiet(c), CommandInv(c)', cmd'[c].at # "creation"
  PROVE  StoreInv'
<1>1. LeaseInv' /\ DiskTyped' /\ CmdTyped' /\ RunsGrow'
  BY DEF StoreInv, Quiet, PeersWait, leaseVars, LeaseInv, LeaseTypeOK, OwnersHoldTheLock,
         RegistryIsLive, DiskTyped, RunsGrow, IsSealed
<1>2. Alone(c)
  BY DEF Quiet, PeersWait, leaseVars, Alone
<1>3. CreatedOnce'
  BY DEF StoreInv, CreatedOnce, Quiet, PeersWait, New
<1> QED
  BY <1>1, <1>2, <1>3, PeersKeep DEF StoreInv

\* An exception leaves a command without a lease, or with the lease to give back.
LEMMA Fails ==
  ASSUME StoreInv, NEW c \in Commands, Fail(c), UNCHANGED <<leaseVars, disk>>,
         cmd[c].at # "idle", cmd[c].at # "discard"
  PROVE  StoreInv'
<1> USE DEF StoreInv, CommandInv, Leased, Known, Unsealed, Opening, Reading, Inside, Writing,
           NoImport
<1>1. CASE cmd[c].leased
  BY <1>1, Goes, QuietStep DEF Fail, Quiet, Kept, leaseVars
<1>2. CASE ~cmd[c].leased
  BY <1>2, Stops, QuietStep DEF Fail, Quiet, NotStarted
<1> QED
  BY <1>1, <1>2

\* What a quiet step of c has to show when it goes on to another place.
LEMMA GoesOn ==
  ASSUME StoreInv, NEW c \in Commands, UNCHANGED <<leaseVars, disk>>, PeersWait(c), Kept(c),
         cmd'[c].at \in {"prefix", "seal", "opened", "acquire", "play", "copying", "persist",
                         "working", "release", "started"},
         cmd'[c].reading = cmd[c].reading,
         (cmd'[c].at # "acquire" /\ cmd'[c].at \notin Reading) \/ cmd[c].job = "import"
            => cmd[c].leased,
         cmd'[c].at = "acquire" => cmd[c].job # "import",
         cmd[c].at \notin {"idle", "discard"},
         cmd'[c].at # "release" => disk[cmd[c].run].chain # <<>>,
         Unsealed(c)'
  PROVE  StoreInv'
<1>1. CommandInv(c)
  BY DEF StoreInv
<1>2. Leased(c)'
  BY <1>1 DEF CommandInv, Leased, Kept, leaseVars, Inside, Reading
<1>3. Known(c)'
  BY <1>1 DEF CommandInv, Known, Opening, Kept, Inside, NoImport
<1> QED
  BY <1>2, <1>3, QuietStep DEF CommandInv, Quiet

LEMMA OpenStep ==
  ASSUME StoreInv, NEW c \in Commands, Open(c)
  PROVE  StoreInv'
<1>0. CmdTyped /\ CommandInv(c)
  BY DEF StoreInv
<1>1. CASE OpenManifest(c)
  <2>1. CASE disk[cmd[c].reading].chain # <<>> /\ Loads(disk[cmd[c].reading])
    <3>1. /\ PeersWait(c) /\ Kept(c)
          /\ cmd'[c].at = "prefix" /\ cmd'[c].reading = cmd[c].reading
      <4> DEFINE seen == disk[cmd[c].reading].checkpoint
      <4>1. cmd' = [cmd EXCEPT ![c].at = "prefix", ![c].seen = seen]
        BY <1>1, <2>1 DEF OpenManifest
      <4> QED
        BY <1>0, <4>1, Sees
    <3>2. disk[cmd[c].run].chain # <<>>
      BY <1>0, <1>1, <2>1 DEF OpenManifest, CommandInv, Known, Opening
    <3>3. Unsealed(c)' /\ (cmd[c].job = "import" => cmd[c].leased)
      BY <1>0, <1>1, <3>1 DEF OpenManifest, CommandInv, Leased, Unsealed, Kept, Reading,
                               Writing, IsSealed
    <3> QED
      BY <1>1, <3>1, <3>2, <3>3, GoesOn DEF OpenManifest, Reading
  <2>2. CASE ~(disk[cmd[c].reading].chain # <<>> /\ Loads(disk[cmd[c].reading]))
    BY <1>1, <2>2, Fails DEF OpenManifest
  <2> QED
    BY <2>1, <2>2
<1>2. CASE CheckPrefix(c)
  <2>1. CASE CheckpointHolds(c)
    <3>1. /\ PeersWait(c) /\ Kept(c)
          /\ cmd'[c].at = "seal" /\ cmd'[c].reading = cmd[c].reading
      BY <1>0, <1>2, <2>1, Sees DEF CheckPrefix
    <3>3. Unsealed(c)' /\ (cmd[c].job = "import" => cmd[c].leased)
      BY <1>0, <1>2, <3>1 DEF CheckPrefix, CommandInv, Leased, Unsealed, Kept, Reading,
                               Writing, IsSealed
    <3> QED
      BY <1>0, <1>2, <3>1, <3>3, GoesOn DEF CheckPrefix, CommandInv, Known, Opening, Reading
  <2>2. CASE ~CheckpointHolds(c)
    BY <1>2, <2>2, Fails DEF CheckPrefix
  <2> QED
    BY <2>1, <2>2
<1>3. CASE CheckSeal(c)
  <2>1. CASE SealHolds(disk[cmd[c].reading])
    <3>1. /\ PeersWait(c) /\ Kept(c)
          /\ cmd'[c].at = "opened" /\ cmd'[c].reading = cmd[c].reading
      BY <1>0, <1>3, <2>1, Goes DEF CheckSeal
    <3>3. Unsealed(c)' /\ (cmd[c].job = "import" => cmd[c].leased)
      BY <1>0, <1>3, <3>1 DEF CheckSeal, CommandInv, Leased, Unsealed, Kept, Reading,
                               Writing, IsSealed
    <3> QED
      BY <1>0, <1>3, <3>1, <3>3, GoesOn DEF CheckSeal, CommandInv, Known, Opening, Reading
  <2>2. CASE ~SealHolds(disk[cmd[c].reading])
    BY <1>3, <2>2, Fails DEF CheckSeal
  <2> QED
    BY <2>1, <2>2
<1> QED
  BY <1>1, <1>2, <1>3 DEF Open

LEMMA OpenedStep ==
  ASSUME StoreInv, NEW c \in Commands, Opened(c)
  PROVE  StoreInv'
<1>0. CmdTyped /\ CommandInv(c)
  BY DEF StoreInv
<1>1. disk[cmd[c].run].chain # <<>> /\ cmd[c].at = "opened" /\ UNCHANGED <<leaseVars, disk>>
  BY <1>0 DEF Opened, OpenedResume, OpenedReport, OpenedWarm, OpenedImport, CommandInv,
              Known, Opening
<1>2. CASE OpenedResume(c)
  <2>1. CASE Fail(c)
    BY <1>1, <2>1, Fails
  <2>2. CASE OpenParent(c) /\ MayResume(c)
    <3>1. /\ PeersWait(c) /\ Kept(c) /\ cmd'[c].at = "open"
      BY ZenonT(60), <1>0, <2>2 DEF CmdTyped, Locals, Kept, PeersWait, OpenParent
    <3>2. CommandInv(c)'
      BY <1>0, <1>1, <1>2, <2>2, <3>1
         DEF OpenedResume, CommandInv, Leased, Known, Unsealed, Opening, Kept, Reading, Inside,
             Writing, MayResume, IsSealed, leaseVars, NoImport
    <3> QED
      BY <1>1, <3>1, <3>2, QuietStep DEF Quiet
  <2>3. CASE /\ Goto(c, IF cmd[c].leased THEN "started" ELSE "acquire")
             /\ cmd[c].reading = cmd[c].run => MayResume(c)
    <3>1. /\ PeersWait(c) /\ Kept(c) /\ cmd'[c].reading = cmd[c].reading
          /\ cmd'[c].at = IF cmd[c].leased THEN "started" ELSE "acquire"
      BY <1>0, <2>3, Goes
    <3>2. cmd[c].leased => ~IsSealed(cmd[c].run)
      BY <1>0, <1>1, <1>2, <2>3 DEF OpenedResume, CommandInv, Unsealed, MayResume, Reading
    <3>3. Unsealed(c)'
      BY <1>1, <3>1, <3>2 DEF Unsealed, Kept, IsSealed, Writing, Reading
    <3> QED
      BY <1>1, <1>2, <3>1, <3>3, GoesOn DEF OpenedResume, Reading
  <2> QED
    BY <1>2, <2>1, <2>2, <2>3 DEF OpenedResume, HasParentToRead
<1>3. CASE OpenedReport(c)
  <2>1. PICK place \in {"acquire", "release", "persist"} :
           /\ Goto(c, place)
           /\ place # "acquire" => cmd[c].leased
           /\ place = "persist" => ~IsSealed(cmd[c].run)
    BY <1>3 DEF OpenedReport
  <2>2. PeersWait(c) /\ Kept(c) /\ cmd'[c].at = place /\ cmd'[c].reading = cmd[c].reading
    BY <1>0, <2>1, Goes
  <2>3. Unsealed(c)'
    BY <1>1, <1>3, <2>1, <2>2 DEF OpenedReport, Unsealed, Kept, IsSealed, Writing, Reading
  <2> QED
    BY <1>1, <1>3, <2>1, <2>2, <2>3, GoesOn DEF OpenedReport, Reading
<1>4. CASE OpenedWarm(c)
  <2>2. PeersWait(c) /\ Kept(c) /\ cmd'[c].at = "acquire" /\ cmd'[c].reading = cmd[c].reading
    BY <1>0, <1>4, Goes DEF OpenedWarm
  <2>3. Unsealed(c)'
    BY <1>1, <1>4, <2>2 DEF OpenedWarm, Unsealed, Kept, IsSealed, Writing, Reading
  <2> QED
    BY <1>1, <1>4, <2>2, <2>3, GoesOn DEF OpenedWarm, Reading
<1>5. CASE OpenedImport(c)
  <2>1. CASE Fail(c)
    BY <1>1, <2>1, Fails
  <2>2. ASSUME NEW place \in {"play", "copying"}, Goto(c, place)
        PROVE  StoreInv'
    <3>1. PeersWait(c) /\ Kept(c) /\ cmd'[c].at = place /\ cmd'[c].reading = cmd[c].reading
      BY <1>0, <2>2, Goes
    <3>2. cmd[c].leased /\ ~IsSealed(cmd[c].run)
      BY <1>0, <1>1, <1>5 DEF OpenedImport, CommandInv, Leased, Unsealed, Reading
    <3>3. Unsealed(c)'
      BY <1>1, <3>1, <3>2 DEF Unsealed, Kept, IsSealed
    <3> QED
      BY <1>1, <3>1, <3>2, <3>3, GoesOn DEF Reading
  <2> QED
    BY <1>5, <2>1, <2>2 DEF OpenedImport
<1> QED
  BY <1>2, <1>3, <1>4, <1>5 DEF Opened

-----------------------------------------------------------------------------
\* Starting, and the steps of a campaign that write nothing.

LEMMA StartStep ==
  ASSUME StoreInv, NEW c \in Commands, NEW r \in Runs,
         \/ StartCold(c, r)
         \/ \E job \in {"resume", "report"} : StartOn(c, job, r)
         \/ \E child \in Runs \ {r} : StartWarm(c, r, child)
  PROVE  StoreInv'
<1>0. CmdTyped
  BY DEF StoreInv
<1> DEFINE Begun(place, job) ==
             /\ PeersWait(c) /\ UNCHANGED <<leaseVars, disk>>
             /\ cmd'[c].at = place /\ cmd'[c].job = job /\ cmd'[c].run = r
             /\ cmd'[c].leased = FALSE
             /\ job = "warm" => cmd'[c].child \in Runs
             /\ place = "open" => cmd'[c].reading = r
<1> USE DEF Begin, NotStarted, CmdTyped, PeersWait, Locals
<1>1. CASE StartCold(c, r)
  <2>1. Begun("make", "campaign")
    BY <1>0, <1>1 DEF StartCold
  <2>2. CommandInv(c)'
    BY <2>1 DEF CommandInv, Leased, Known, Unsealed, Opening, Reading, Inside, Writing, NoImport
  <2> QED
    BY <2>1, <2>2, QuietStep DEF Quiet
<1>2. ASSUME NEW job \in {"resume", "report"}, StartOn(c, job, r)
      PROVE  StoreInv'
  <2>1. Begun("open", job)
    BY <1>0, <1>2 DEF StartOn
  <2>2. CommandInv(c)'
    BY <2>1 DEF CommandInv, Leased, Known, Unsealed, Opening, Reading, Inside, Writing, NoImport
  <2> QED
    BY <2>1, <2>2, QuietStep DEF Quiet
<1>3. ASSUME NEW child \in Runs \ {r}, StartWarm(c, r, child)
      PROVE  StoreInv'
  <2>1. Begun("open", "warm")
    BY <1>0, <1>3 DEF StartWarm
  <2>2. CommandInv(c)'
    BY <2>1 DEF CommandInv, Leased, Known, Unsealed, Opening, Reading, Inside, Writing, NoImport
  <2> QED
    BY <2>1, <2>2, QuietStep DEF Quiet
<1> QED
  BY <1>1, <1>2, <1>3

LEMMA StartedStep ==
  ASSUME StoreInv, NEW c \in Commands, Started(c)
  PROVE  StoreInv'
<1>0. CmdTyped /\ CommandInv(c)
  BY DEF StoreInv
<1>1. cmd[c].leased /\ disk[cmd[c].run].chain # <<>> /\ cmd[c].at = "started"
      /\ UNCHANGED <<leaseVars, disk>>
  BY <1>0 DEF Started, CommandInv, Leased, Known, Opening, Inside
<1>2. CASE Fail(c)
  BY <1>1, <1>2, Fails
<1>3. CASE ~IsSealed(cmd[c].run) /\ Goto(c, "play")
  <2>1. PeersWait(c) /\ Kept(c) /\ cmd'[c].at = "play" /\ cmd'[c].reading = cmd[c].reading
    BY <1>0, <1>3, Goes
  <2>2. Unsealed(c)'
    BY <1>1, <1>3, <2>1 DEF Unsealed, Kept, IsSealed
  <2> QED
    BY <1>1, <2>1, <2>2, GoesOn DEF Reading
<1>4. CASE /\ ~IsSealed(cmd[c].run)
           /\ cmd' = [cmd EXCEPT ![c].at = "open", ![c].job = "import",
                                 ![c].reading = disk[cmd[c].run].parent]
  <2>1. /\ PeersWait(c) /\ cmd'[c].at = "open" /\ cmd'[c].job = "import"
        /\ cmd'[c].run = cmd[c].run /\ cmd'[c].leased = cmd[c].leased
    <3> DEFINE parent == disk[cmd[c].run].parent
    <3> HIDE DEF parent
    <3>1. cmd' = [cmd EXCEPT ![c].at = "open", ![c].job = "import", ![c].reading = parent]
      BY <1>4 DEF parent
    <3> QED
      BY <1>0, <3>1 DEF CmdTyped, Locals, PeersWait
  <2>2. CommandInv(c)'
    BY <1>0, <1>1, <1>4, <2>1 DEF CommandInv, Leased, Known, Unsealed, Opening, Inside,
                                   Reading, Writing, IsSealed, leaseVars, NoImport
  <2> QED
    BY <1>1, <2>1, <2>2, QuietStep DEF Quiet
<1> DEFINE d == disk[cmd[c].run]
           refused == IsSealed(cmd[c].run) \/ (cmd[c].job = "resume" /\ d.torn)
<1>5. CASE refused
  BY <1>2, <1>5 DEF Started
<1>6. CASE ~refused /\ d.parent = NoRun
  BY <1>3, <1>6 DEF Started
<1>7. CASE ~refused /\ d.parent # NoRun
  BY <1>4, <1>7 DEF Started
<1> QED
  BY <1>5, <1>6, <1>7

LEMMA EvidenceFailsStep ==
  ASSUME StoreInv, NEW c \in Commands, EvidenceFails(c)
  PROVE  StoreInv'
BY Fails DEF EvidenceFails

LEMMA ReadHeadStep ==
  ASSUME StoreInv, NEW c \in Commands, ReadHead(c)
  PROVE  StoreInv'
<1>0. /\ CmdTyped /\ CommandInv(c) /\ cmd[c].at = "working"
      /\ UNCHANGED <<leaseVars, disk>>
  BY DEF StoreInv, ReadHead
<1>1. CASE Loads(disk[cmd[c].run])
  <2> DEFINE head == disk[cmd[c].run].chain
  <2>1. cmd' = [cmd EXCEPT ![c].seen = head]
    BY <1>1 DEF ReadHead
  <2> HIDE DEF head
  <2>2. PeersWait(c) /\ Kept(c) /\ cmd'[c].at = "working" /\ cmd'[c].reading = cmd[c].reading
    BY <1>0, <2>1 DEF CmdTyped, Locals, Kept, PeersWait
  <2>3. Unsealed(c)' /\ cmd[c].leased /\ disk[cmd[c].run].chain # <<>>
    BY <1>0, <2>2 DEF CommandInv, Leased, Known, Unsealed, Opening, Inside, Writing, Kept, IsSealed
  <2> QED
    BY <1>0, <2>2, <2>3, GoesOn DEF Reading
<1>2. CASE ~Loads(disk[cmd[c].run])
  BY <1>0, <1>2, Fails DEF ReadHead
<1> QED
  BY <1>1, <1>2

-----------------------------------------------------------------------------
\* The steps that write the run a command owns.

\* Only the files of r change, r keeps its events, and its seal may come but not go.
WritesTo(c, r) ==
    /\ UNCHANGED leaseVars
    /\ DiskTyped'
    /\ \A q \in Runs \ {r} : disk'[q] = disk[q]
    /\ disk'[r].made = disk[r].made
    /\ disk'[r].chain # <<>>

SameSeal(r) == disk'[r].seal = disk[r].seal

\* All files of r but these stay.
Same(r, files) ==
    /\ disk'[r] = [f \in Files |-> disk'[r][f]]
    /\ \A f \in Files \ files : disk'[r][f] = disk[r][f]

\* What a worker writes, and what of it is left if its event cannot be appended.
Worked(r) ==
    /\ Same(r, {"chain", "end", "files", "claims"})
    /\ disk'[r].chain = Append(disk[r].chain, "campaign") /\ disk'[r].end \in Writes
    /\ disk'[r].files = disk[r].files + 1 /\ disk'[r].claims = Claims

Unreported(r) ==
    /\ Same(r, {"files", "claims"})
    /\ disk'[r].files = disk[r].files + 1 /\ disk'[r].claims = Claims

\* A record more: the other files stay.
LEMMA AppendedFiles ==
  ASSUME NEW d, d = [f \in Files |-> d[f]], NEW kind, NEW how \in Writes
  PROVE  /\ Appended(d, kind, how) = [f \in Files |-> Appended(d, kind, how)[f]]
         /\ Appended(d, kind, how).chain = Append(d.chain, kind)
         /\ Appended(d, kind, how).end \in Writes
         /\ \A f \in Files \ {"chain", "end"} : Appended(d, kind, how)[f] = d[f]
<1> DEFINE chain == Append(d.chain, kind)
           end == IF d.end = "bare" THEN "torn" ELSE how
           new == [d EXCEPT !.chain = chain, !.end = end]
<1>1. Appended(d, kind, how) = new
  BY DEF Appended
<1>2. end \in Writes
  BY DEF Writes
<1> HIDE DEF chain, end
<1>3. /\ new = [f \in Files |-> new[f]] /\ new.chain = chain /\ new.end = end
      /\ \A f \in Files \ {"chain", "end"} : new[f] = d[f]
  BY DEF Files
<1> HIDE DEF new
<1> QED
  BY <1>1, <1>2, <1>3 DEF chain

LEMMA WorkWrites ==
  ASSUME DiskTyped, CmdTyped, NEW c \in Commands, cmd[c].run \in Runs, Work(c)
  PROVE  /\ (Worked(cmd[c].run) /\ UNCHANGED cmd) \/ (Unreported(cmd[c].run) /\ Fail(c))
         /\ disk' = [q \in Runs |-> disk'[q]]
         /\ \A q \in Runs \ {cmd[c].run} : disk'[q] = disk[q]
<1> DEFINE r == cmd[c].run
           files == disk[r].files + 1
           tried == [disk[r] EXCEPT !.files = files, !.claims = Claims]
<1>1. AppendEvent(c, tried, "campaign", cmd[c])
  BY DEF Work
<1>2. files = disk[r].files + 1
  OBVIOUS
<1> HIDE DEF files
<1>3. /\ tried = [f \in Files |-> tried[f]] /\ tried.files = files /\ tried.claims = Claims
      /\ \A f \in Files \ {"files", "claims"} : tried[f] = disk[r][f]
  BY DEF DiskTyped, Files
<1> HIDE DEF tried
<1>4. ASSUME NEW new, Write(r, new)
      PROVE  /\ disk'[r] = new /\ disk' = [q \in Runs |-> disk'[q]]
             /\ \A q \in Runs \ {r} : disk'[q] = disk[q]
  BY <1>4 DEF DiskTyped, Write
<1>5. CASE Loads(tried)
  <2>1. PICK how \in Writes : Write(r, Appended(tried, "campaign", how))
    BY <1>1, <1>5 DEF AppendEvent, Endings, Writes
  <2>2. UNCHANGED cmd
    BY <1>1, <1>5 DEF AppendEvent, CmdTyped
  <2> DEFINE new == Appended(tried, "campaign", how)
  <2>3. /\ new = [f \in Files |-> new[f]] /\ new.end \in Writes
        /\ new.chain = Append(tried.chain, "campaign")
        /\ \A f \in Files \ {"chain", "end"} : new[f] = tried[f]
    BY <1>3, AppendedFiles
  <2> HIDE DEF new
  <2>4. /\ disk'[r] = new /\ disk' = [q \in Runs |-> disk'[q]]
        /\ \A q \in Runs \ {r} : disk'[q] = disk[q]
    BY <1>4, <2>1 DEF new
  <2>5. Same(r, {"chain", "end", "files", "claims"})
    BY <1>3, <2>3, <2>4 DEF Same
  <2>6. Worked(r)
    BY <1>2, <1>3, <2>3, <2>4, <2>5 DEF Worked, Files
  <2> QED
    BY <2>2, <2>4, <2>6
<1>6. CASE ~Loads(tried)
  <2>1. Write(r, tried) /\ Fail(c)
    BY <1>1, <1>6 DEF AppendEvent
  <2>2. /\ disk'[r] = tried /\ disk' = [q \in Runs |-> disk'[q]]
        /\ \A q \in Runs \ {r} : disk'[q] = disk[q]
    BY <1>4, <2>1
  <2>3. Unreported(r)
    BY <1>2, <1>3, <2>2 DEF Unreported, Same
  <2> QED
    BY <2>1, <2>2, <2>3
<1> QED
  BY <1>5, <1>6

\* An event is appended, or the chain does not load and nothing changes.
LEMMA EventAppended ==
  ASSUME DiskTyped, NEW c \in Commands, cmd[c].run \in Runs, NEW kind, NEW next,
         AppendEvent(c, disk[cmd[c].run], kind, next)
  PROVE  \/ UNCHANGED disk /\ Fail(c)
         \/ /\ \E how \in Writes : Write(cmd[c].run, Appended(disk[cmd[c].run], kind, how))
            /\ cmd' = [cmd EXCEPT ![c] = next]
<1>1. CASE Loads(disk[cmd[c].run])
  BY <1>1 DEF AppendEvent, Endings, Writes
<1>2. CASE ~Loads(disk[cmd[c].run])
  <2>1. Write(cmd[c].run, disk[cmd[c].run]) /\ Fail(c)
    BY <1>2 DEF AppendEvent
  <2>2. UNCHANGED disk
    BY <2>1 DEF Write, DiskTyped
  <2> QED
    BY <2>1, <2>2
<1> QED
  BY <1>1, <1>2

LEMMA WriteStep ==
  ASSUME StoreInv, NEW c \in Commands, WritesTo(c, cmd[c].run), cmd[c].run \in Runs,
         disk[cmd[c].run].chain # <<>>, Owns(c, cmd[c].run),
         PeersWait(c), CommandInv(c)', cmd'[c].at # "creation"
  PROVE  StoreInv'
<1>1. LeaseInv' /\ DiskTyped' /\ CmdTyped'
  BY DEF StoreInv, WritesTo, PeersWait, leaseVars, LeaseInv, LeaseTypeOK, OwnersHoldTheLock,
         RegistryIsLive
<1>2. RunsGrow'
  BY DEF StoreInv, WritesTo, RunsGrow, IsSealed
<1>3. Alone(c)
  <2>1. \A d \in Commands \ {c} : cmd'[d] = cmd[d] /\ lease'[d] = lease[d]
    BY DEF PeersWait, WritesTo, leaseVars
  <2>2. ASSUME NEW r \in Runs
        PROVE  /\ disk[r].made => disk'[r].made
               /\ disk[r].chain # <<>> => disk'[r].chain # <<>>
               /\ disk'[r].chain # <<>> => disk[r].chain # <<>>
               /\ disk'[r].seal # Absent => disk[r].seal # Absent \/ Owns(c, r)
    <3>1. CASE r = cmd[c].run
      BY <3>1 DEF WritesTo
    <3>2. CASE r # cmd[c].run
      BY <3>2 DEF WritesTo
    <3> QED
      BY <3>1, <3>2
  <2> QED
    BY <2>1, <2>2 DEF Alone
<1>4. CreatedOnce'
  BY DEF StoreInv, CreatedOnce, PeersWait, New
<1> QED
  BY <1>1, <1>2, <1>3, <1>4, PeersKeep DEF StoreInv

LEMMA OneRunWritten ==
  ASSUME DiskTyped, NEW r \in Runs,
         disk' = [q \in Runs |-> disk'[q]], \A q \in Runs \ {r} : disk'[q] = disk[q],
         disk'[r] = [f \in Files |-> disk'[r][f]],
         disk'[r].made \in BOOLEAN, disk'[r].chain \in Seq(Events)
  PROVE  DiskTyped'
<1>1. ASSUME NEW q \in Runs
      PROVE  /\ disk'[q] = [f \in Files |-> disk'[q][f]]
             /\ disk'[q].made \in BOOLEAN /\ disk'[q].chain \in Seq(Events)
  <2>1. CASE q = r
    BY <2>1
  <2>2. CASE q # r
    <3>1. disk'[q] = disk[q]
      BY <2>2
    <3> QED
      BY <3>1 DEF DiskTyped
  <2> QED
    BY <2>1, <2>2
<1> QED
  BY <1>1 DEF DiskTyped

\* A run with a record more in its chain, or another file changed.
LEMMA Appends ==
  ASSUME DiskTyped, NEW c \in Commands, NEW r \in Runs, NEW kind \in Events, UNCHANGED leaseVars,
         \E how \in Writes : Write(r, Appended(disk[r], kind, how))
  PROVE  WritesTo(c, r) /\ SameSeal(r)
<1>1. PICK how \in Writes : Write(r, Appended(disk[r], kind, how))
  OBVIOUS
<1> DEFINE new == Appended(disk[r], kind, how)
<1>2. /\ new = [f \in Files |-> new[f]] /\ new.chain = Append(disk[r].chain, kind)
      /\ \A f \in Files \ {"chain", "end"} : new[f] = disk[r][f]
  BY AppendedFiles DEF DiskTyped
<1> HIDE DEF new
<1>3. /\ disk'[r] = new /\ disk' = [q \in Runs |-> disk'[q]]
      /\ \A q \in Runs \ {r} : disk'[q] = disk[q]
  BY <1>1 DEF DiskTyped, Write, new
<1>4. disk'[r].chain \in Seq(Events) /\ disk'[r].chain # <<>>
  <2>1. disk[r].chain \in Seq(Events) /\ disk'[r].chain = Append(disk[r].chain, kind)
    BY <1>2, <1>3 DEF DiskTyped
  <2> QED
    BY <2>1
<1>5. disk'[r].made = disk[r].made /\ disk'[r].seal = disk[r].seal
  BY <1>2, <1>3 DEF Files
<1>6. DiskTyped'
  <2>1. disk[r].made \in BOOLEAN
    BY DEF DiskTyped
  <2> QED
    BY <1>2, <1>3, <1>4, <1>5, <2>1, OneRunWritten
<1> QED
  BY <1>3, <1>4, <1>5, <1>6 DEF WritesTo, SameSeal

\* A step of a command inside its run that leaves the run unsealed and goes on inside it.
LEMMA StaysInside ==
  ASSUME StoreInv, NEW c \in Commands, cmd[c].at \in Inside, cmd[c].at # "release",
         WritesTo(c, cmd[c].run), PeersWait(c), Kept(c),
         cmd'[c].at \in Inside,
         cmd'[c].at \in NoImport => cmd[c].at \in NoImport,
         Unsealed(c)'
  PROVE  StoreInv'
<1>1. CommandInv(c)
  BY DEF StoreInv
<1>2. /\ cmd[c].leased /\ Owns(c, cmd[c].run) /\ cmd[c].run \in Runs
      /\ disk[cmd[c].run].chain # <<>>
  BY <1>1 DEF CommandInv, Leased, Known, Opening, Owns, Inside
<1>3. Leased(c)'
  BY <1>1, <1>2 DEF CommandInv, Leased, Kept, WritesTo, leaseVars, Inside, Reading
<1>4. cmd[c].job = "inherit" => disk'[cmd[c].child].chain # <<>>
  BY <1>1 DEF CommandInv, Known, WritesTo
<1>5. Known(c)'
  BY <1>1, <1>2, <1>4 DEF CommandInv, Known, Opening, Kept, WritesTo, Inside, NoImport
<1> QED
  BY <1>2, <1>3, <1>5, WriteStep DEF CommandInv, Inside

\* Unless it seals the run, a command that writes leaves it as unsealed as it was.
LEMMA StaysUnsealed ==
  ASSUME StoreInv, NEW c \in Commands, cmd[c].at \in Writing, Kept(c), SameSeal(cmd[c].run)
  PROVE  Unsealed(c)'
BY DEF StoreInv, CommandInv, Unsealed, Kept, SameSeal, IsSealed

\* A file of a run other than its chain and its seal.
LEMMA Changes ==
  ASSUME DiskTyped, NEW c \in Commands, NEW r \in Runs, UNCHANGED leaseVars,
         disk[r].chain # <<>>,
         NEW file \in Files \ {"made", "chain", "seal"}, NEW x,
         disk' = [disk EXCEPT ![r] = [disk[r] EXCEPT ![file] = x]]
  PROVE  WritesTo(c, r) /\ SameSeal(r)
<1>1. disk'[r] = [disk[r] EXCEPT ![file] = x]
  BY DEF DiskTyped
<1>2. /\ disk'[r] = [f \in Files |-> disk'[r][f]]
      /\ \A f \in Files \ {file} : disk'[r][f] = disk[r][f]
  BY <1>1 DEF DiskTyped
<1>3. /\ disk'[r].made = disk[r].made /\ disk'[r].chain = disk[r].chain
      /\ disk'[r].seal = disk[r].seal
  BY <1>2 DEF Files
<1>4. disk' = [q \in Runs |-> disk'[q]] /\ \A q \in Runs \ {r} : disk'[q] = disk[q]
  BY DEF DiskTyped
<1>5. DiskTyped'
  BY <1>2, <1>3, <1>4 DEF DiskTyped
<1> QED
  BY <1>3, <1>4, <1>5 DEF WritesTo, SameSeal

\* What StaysInside knows of a command before its step.
LEMMA IsInside ==
  ASSUME StoreInv, NEW c \in Commands, cmd[c].at \in Inside, cmd[c].at # "release"
  PROVE  /\ CmdTyped /\ DiskTyped /\ CommandInv(c)
         /\ cmd[c].run \in Runs /\ disk[cmd[c].run].chain # <<>> /\ cmd[c].leased
BY DEF StoreInv, CommandInv, Leased, Known, Opening, Inside

LEMMA ImportStep ==
  ASSUME StoreInv, NEW c \in Commands, Import(c)
  PROVE  StoreInv'
<1> DEFINE r == cmd[c].run
<1>1. CASE CopyClaim(c)
  <2> DEFINE copies == disk[r].copies \cup {CHOOSE m \in Missing(c) : TRUE}
  <2> HIDE DEF copies
  <2>1. /\ disk' = [disk EXCEPT ![r] = [disk[r] EXCEPT !["copies"] = copies]]
        /\ cmd[c].at = "copying" /\ UNCHANGED <<leaseVars, cmd>>
    BY <1>1 DEF CopyClaim, Write, copies
  <2>2. WritesTo(c, r) /\ SameSeal(r)
    BY <2>1, IsInside, Changes DEF Inside, Files
  <2>3. PeersWait(c) /\ Kept(c)
    BY <2>1, IsInside DEF PeersWait, Kept, Inside, CmdTyped
  <2> QED
    BY <2>1, <2>2, <2>3, StaysInside, StaysUnsealed DEF Inside, Writing, NoImport
<1>2. CASE EvidenceFails(c)
  BY <1>2, EvidenceFailsStep
<1>3. CASE AnchorImport(c)
  <2>1. CASE Fail(c) /\ UNCHANGED disk
    BY <1>3, <2>1, Fails DEF AnchorImport
  <2>2. CASE /\ \E how \in Writes : Write(r, Appended(disk[r], "memory.imported", how))
             /\ Goto(c, "play")
    <3>1. cmd[c].at = "copying" /\ UNCHANGED leaseVars
      BY <1>3 DEF AnchorImport
    <3>2. WritesTo(c, r) /\ SameSeal(r)
      BY <2>2, <3>1, IsInside, Appends DEF Inside, Events
    <3>3. PeersWait(c) /\ Kept(c) /\ cmd'[c].at = "play"
      BY <2>2, <3>1, IsInside, Goes DEF Inside
    <3> QED
      BY <3>1, <3>2, <3>3, StaysInside, StaysUnsealed DEF Inside, Writing, NoImport
  <2>3. DiskTyped /\ r \in Runs
    BY <1>3, IsInside DEF AnchorImport, Inside
  <2> QED
    BY <1>3, <2>1, <2>2, <2>3, EventAppended DEF AnchorImport, Goto
<1> QED
  BY <1>1, <1>2, <1>3 DEF Import

LEMMA CampaignStep ==
  ASSUME StoreInv, NEW c \in Commands, Campaign(c)
  PROVE  StoreInv'
<1> DEFINE r == cmd[c].run
<1>1. CASE ReviseLimits(c)
  <2>1. cmd[c].at = "started" /\ cmd[c].job = "resume" /\ UNCHANGED leaseVars
    BY <1>1 DEF ReviseLimits
  <2>2. CASE UNCHANGED disk /\ Fail(c)
    BY <2>1, <2>2, Fails
  <2>3. CASE /\ \E how \in Writes : Write(r, Appended(disk[r], "limits_revised", how))
             /\ cmd' = [cmd EXCEPT ![c] = cmd[c]]
    <3>1. WritesTo(c, r) /\ SameSeal(r)
      BY <2>1, <2>3, IsInside, Appends DEF Inside, Events
    <3>2. UNCHANGED cmd
      BY <2>1, <2>3, IsInside DEF CmdTyped, Inside
    <3>3. PeersWait(c) /\ Kept(c)
      BY <2>1, <3>2, IsInside DEF PeersWait, Kept, Inside, CmdTyped
    <3>4. Unsealed(c)'
      BY <2>1, <3>1, <3>2, IsInside DEF Inside, CommandInv, Unsealed, SameSeal, IsSealed
    <3> QED
      BY <2>1, <3>1, <3>2, <3>3, <3>4, StaysInside DEF Inside, NoImport
  <2>4. DiskTyped /\ r \in Runs
    BY <2>1, IsInside DEF Inside
  <2> QED
    BY <1>1, <2>2, <2>3, <2>4, EventAppended DEF ReviseLimits
<1>2. CASE Started(c)
  BY <1>2, StartedStep
<1>3. CASE Play(c)
  <2>1. cmd[c].at = "play" /\ UNCHANGED leaseVars
    BY <1>3 DEF Play
  <2>2. CASE UNCHANGED disk /\ Fail(c)
    BY <2>1, <2>2, Fails
  <2>3. CASE /\ \E how \in Writes : Write(r, Appended(disk[r], "campaign", how))
             /\ cmd' = [cmd EXCEPT ![c] = [cmd[c] EXCEPT !.at = "working", !.seen = Absent]]
    <3>1. WritesTo(c, r) /\ SameSeal(r)
      BY <2>1, <2>3, IsInside, Appends DEF Inside, Events
    <3>2. PeersWait(c) /\ Kept(c) /\ cmd'[c].at = "working"
      <4> DEFINE new == [cmd[c] EXCEPT !.at = "working", !.seen = Absent]
      <4>1. CmdTyped
        BY DEF StoreInv
      <4>2. /\ new = [f \in Locals |-> new[f]] /\ new.at = "working"
            /\ new.leased = cmd[c].leased /\ new.job = cmd[c].job /\ new.run = cmd[c].run
            /\ new.child = cmd[c].child
        BY <4>1 DEF CmdTyped, Locals
      <4>3. cmd' = [cmd EXCEPT ![c] = new]
        BY <2>3
      <4> HIDE DEF new
      <4> QED
        BY <4>1, <4>2, <4>3 DEF CmdTyped, Kept, PeersWait
    <3> QED
      BY <2>1, <3>1, <3>2, StaysInside, StaysUnsealed DEF Inside, Writing, NoImport
  <2>4. DiskTyped /\ r \in Runs
    BY <2>1, IsInside DEF Inside
  <2> QED
    BY <1>3, <2>2, <2>3, <2>4, EventAppended DEF Play
<1>4. CASE Work(c)
  <2>1. cmd[c].at = "working" /\ UNCHANGED leaseVars
    BY <1>4 DEF Work
  <2>2. DiskTyped /\ CmdTyped /\ r \in Runs /\ cmd[c].leased /\ disk[r].chain # <<>>
    BY <2>1, IsInside DEF Inside
  <2>3. /\ (Worked(r) /\ UNCHANGED cmd) \/ (Unreported(r) /\ Fail(c))
        /\ disk' = [q \in Runs |-> disk'[q]]
        /\ \A q \in Runs \ {r} : disk'[q] = disk[q]
    BY <1>4, <2>2, WorkWrites
  <2>4. disk'[r].chain \in Seq(Events) /\ disk'[r].chain # <<>>
    <3>1. disk[r].chain \in Seq(Events) /\ "campaign" \in Events
      BY <2>2 DEF DiskTyped, Events
    <3>2. CASE Worked(r)
      BY <3>1, <3>2 DEF Worked
    <3>3. CASE Unreported(r)
      BY <2>2, <3>1, <3>3 DEF Unreported, Same, Files
    <3> QED
      BY <2>3, <3>2, <3>3
  <2>5. WritesTo(c, r) /\ SameSeal(r)
    <3>1. disk'[r] = [f \in Files |-> disk'[r][f]]
      BY <2>3 DEF Worked, Unreported, Same
    <3>2. disk'[r].made = disk[r].made /\ disk'[r].seal = disk[r].seal
      BY <2>3 DEF Worked, Unreported, Same, Files
    <3>3. DiskTyped'
      <4>1. disk[r].made \in BOOLEAN
        BY <2>2 DEF DiskTyped
      <4> QED
        BY <2>2, <2>3, <2>4, <3>1, <3>2, <4>1, OneRunWritten
    <3> QED
      BY <2>1, <2>3, <2>4, <3>2, <3>3 DEF WritesTo, SameSeal
  <2>6. PeersWait(c) /\ Kept(c) /\ cmd'[c].at \in {"working", "release"}
    <3>1. CASE UNCHANGED cmd
      BY <2>1, <2>2, <3>1 DEF PeersWait, Kept, CmdTyped
    <3>2. CASE Fail(c)
      BY <2>2, <3>2, Goes DEF Fail
    <3> QED
      BY <2>3, <3>1, <3>2
  <2> QED
    BY <2>1, <2>5, <2>6, StaysInside, StaysUnsealed DEF Inside, Writing, NoImport
<1>5. CASE ReadHead(c)
  BY <1>5, ReadHeadStep
<1>6. CASE WriteCheckpoint(c)
  <2>1. /\ disk' = [disk EXCEPT ![r] = [disk[r] EXCEPT !["checkpoint"] = cmd[c].seen]]
        /\ cmd[c].at = "working" /\ UNCHANGED leaseVars
    BY <1>6 DEF WriteCheckpoint, Write
  <2>2. WritesTo(c, r) /\ SameSeal(r)
    BY <2>1, IsInside, Changes DEF Inside, Files
  <2>3. PeersWait(c) /\ Kept(c) /\ cmd'[c].at = "working"
    <3>1. cmd' = [cmd EXCEPT ![c].seen = Absent] /\ CmdTyped
      BY <1>6, <2>1, IsInside DEF WriteCheckpoint, Inside
    <3> QED
      BY <2>1, <3>1 DEF CmdTyped, Locals, PeersWait, Kept
  <2> QED
    BY <2>1, <2>2, <2>3, StaysInside, StaysUnsealed DEF Inside, Writing, NoImport
<1>7. CASE PersistReport(c)
  <2> DEFINE files == disk[r].files + 1
  <2> HIDE DEF files
  <2>1. /\ disk' = [disk EXCEPT ![r] = [disk[r] EXCEPT !["files"] = files]]
        /\ cmd[c].at \in {"persist", "working"} /\ UNCHANGED leaseVars /\ Goto(c, "anchor")
    BY <1>7 DEF PersistReport, Write, files
  <2>2. WritesTo(c, r) /\ SameSeal(r)
    BY <2>1, IsInside, Changes DEF Inside, Files
  <2>3. PeersWait(c) /\ Kept(c) /\ cmd'[c].at = "anchor"
    BY <2>1, IsInside, Goes DEF Inside
  <2> QED
    BY <2>1, <2>2, <2>3, StaysInside, StaysUnsealed DEF Inside, Writing, NoImport
<1>8. CASE AnchorReport(c)
  <2>1. cmd[c].at = "anchor" /\ UNCHANGED leaseVars
    BY <1>8 DEF AnchorReport
  <2>2. CASE UNCHANGED disk /\ Fail(c)
    BY <2>1, <2>2, Fails
  <2>3. CASE /\ \E how \in Writes : Write(r, Appended(disk[r], "validation.completed", how))
             /\ Goto(c, "release")
    <3>1. WritesTo(c, r) /\ SameSeal(r)
      BY <2>1, <2>3, IsInside, Appends DEF Inside, Events
    <3>2. PeersWait(c) /\ Kept(c) /\ cmd'[c].at = "release"
      BY <2>1, <2>3, IsInside, Goes DEF Inside
    <3> QED
      BY <2>1, <3>1, <3>2, StaysInside, StaysUnsealed DEF Inside, Writing, NoImport
  <2>4. DiskTyped /\ r \in Runs
    BY <2>1, IsInside DEF Inside
  <2> QED
    BY <1>8, <2>2, <2>3, <2>4, EventAppended DEF AnchorReport, Goto
<1> QED
  BY <1>1, <1>2, <1>3, <1>4, <1>5, <1>6, <1>7, <1>8 DEF Campaign

-----------------------------------------------------------------------------
\* Sealing the parent of a warm campaign.

LEMMA SealStep ==
  ASSUME StoreInv, NEW c \in Commands, Seal(c)
  PROVE  StoreInv'
<1> DEFINE r == cmd[c].run
<1>0. cmd[c].at \in {"freeze", "listing", "sealing"} /\ UNCHANGED leaseVars
  BY DEF Seal, Freeze, WriteListing, WriteSeal
<1>1. CASE Freeze(c)
  <2>1. CASE Fail(c) /\ UNCHANGED disk
    BY <1>0, <2>1, Fails
  <2>2. CASE /\ cmd' = [cmd EXCEPT ![c].at = "make", ![c].seen = disk[r].seal]
             /\ UNCHANGED disk
    <3>1. PeersWait(c) /\ Kept(c) /\ cmd'[c].at = "make"
      <4> DEFINE seal == disk[r].seal
      <4>1. cmd' = [cmd EXCEPT ![c].at = "make", ![c].seen = seal] /\ CmdTyped
        BY <2>2 DEF StoreInv
      <4> QED
        BY <4>1, Sees
    <3>2. CommandInv(c)'
      <4>0. CommandInv(c)
        BY DEF StoreInv
      <4>1. Leased(c)' /\ Unsealed(c)'
        BY <1>0, <3>1, <4>0 DEF CommandInv, Leased, Unsealed, Kept, leaseVars, Writing,
                                Reading, Inside
      <4>2. Known(c)'
        BY <1>0, <2>2, <3>1, <4>0 DEF CommandInv, Known, Opening, Kept, Inside, NoImport
      <4> QED
        BY <4>1, <4>2 DEF CommandInv
    <3> QED
      BY <1>0, <2>2, <3>1, <3>2, QuietStep DEF Quiet
  <2>3. CASE ~IsSealed(r) /\ AnchorSeal(c)
    <3>0. \E how \in Writes : Write(r, Appended(disk[r], "run.sealed", how))
      BY <2>3 DEF AnchorSeal, Endings, Writes
    <3>1. WritesTo(c, r) /\ SameSeal(r)
      BY <1>0, <3>0, IsInside, Appends DEF Inside, Events
    <3>2. PeersWait(c) /\ Kept(c) /\ cmd'[c].at \in {"listing", "release"}
      BY <1>0, <2>3, IsInside, Goes DEF Inside, AnchorSeal, Fail
    <3>3. Unsealed(c)'
      BY <2>3, <3>1, <3>2 DEF Unsealed, Kept, SameSeal, IsSealed
    <3> QED
      BY <1>0, <3>1, <3>2, <3>3, StaysInside DEF Inside, NoImport
  <2> QED
    BY <1>1, <2>1, <2>2, <2>3 DEF Freeze
<1>2. CASE WriteListing(c)
  <2> DEFINE listing == Artifacts(disk[r])
  <2>1. cmd[c].at = "listing" /\ Goto(c, "sealing") /\ DiskTyped /\ r \in Runs
    BY <1>0, <1>2, IsInside DEF WriteListing, Inside
  <2>2. disk' = [disk EXCEPT ![r] = [disk[r] EXCEPT !["listing"] = listing]]
    BY <1>2 DEF WriteListing, Write
  <2> HIDE DEF listing
  <2>3. WritesTo(c, r) /\ SameSeal(r)
    BY <1>0, <2>1, <2>2, IsInside, Changes DEF Inside, Files
  <2>4. PeersWait(c) /\ Kept(c) /\ cmd'[c].at = "sealing"
    BY <2>1, IsInside, Goes DEF Inside
  <2> QED
    BY <2>1, <2>3, <2>4, StaysInside, StaysUnsealed DEF Inside, Writing, NoImport
<1>3. CASE WriteSeal(c)
  <2> DEFINE seal == [listing |-> disk[r].listing, chain |-> disk[r].chain]
  <2>1. /\ cmd[c].at = "sealing" /\ CmdTyped /\ DiskTyped /\ CommandInv(c)
        /\ r \in Runs /\ disk[r].chain # <<>> /\ cmd[c].leased
    BY <1>0, <1>3, IsInside DEF WriteSeal, Inside
  <2>2. /\ disk' = [disk EXCEPT ![r] = [disk[r] EXCEPT !.seal = seal]]
        /\ cmd' = [cmd EXCEPT ![c].at = "make", ![c].seen = seal]
    BY <1>3 DEF WriteSeal, Write
  <2> HIDE DEF seal
  <2>3. PeersWait(c) /\ Kept(c) /\ cmd'[c].at = "make"
    BY <2>1, <2>2, Sees
  <2>4. WritesTo(c, r)
    <3>1. /\ disk'[r] = [disk[r] EXCEPT !.seal = seal]
          /\ disk' = [q \in Runs |-> disk'[q]] /\ \A q \in Runs \ {r} : disk'[q] = disk[q]
      BY <2>1, <2>2 DEF DiskTyped
    <3>2. /\ disk'[r] = [f \in Files |-> disk'[r][f]]
          /\ disk'[r].made = disk[r].made /\ disk'[r].chain = disk[r].chain
      <4>1. disk[r] = [f \in Files |-> disk[r][f]]
        BY <2>1 DEF DiskTyped
      <4> HIDE DEF r
      <4> QED
        BY <3>1, <4>1 DEF Files
    <3>3. DiskTyped'
      <4>1. disk[r].made \in BOOLEAN /\ disk[r].chain \in Seq(Events)
        BY <2>1 DEF DiskTyped
      <4> QED
        BY <2>1, <3>1, <3>2, <4>1, OneRunWritten
    <3> QED
      BY <1>0, <2>1, <3>1, <3>2, <3>3 DEF WritesTo
  <2>5. Owns(c, r)
    BY <2>1 DEF CommandInv, Leased, Owns
  <2>6. CommandInv(c)'
    <3>1. Leased(c)' /\ Unsealed(c)'
      BY <1>0, <2>1, <2>3 DEF CommandInv, Leased, Unsealed, Kept, leaseVars, Writing, Reading
    <3>2. cmd[c].job = "inherit" => disk'[cmd[c].child].chain # <<>>
      BY <2>1, <2>4 DEF CommandInv, Known, WritesTo
    <3>3. Known(c)'
      BY <2>1, <2>3, <3>2 DEF CommandInv, Known, Opening, Kept, Inside, NoImport
    <3> QED
      BY <3>1, <3>3 DEF CommandInv
  <2> QED
    BY <2>1, <2>3, <2>4, <2>5, <2>6, WriteStep
<1> QED
  BY <1>1, <1>2, <1>3 DEF Seal

-----------------------------------------------------------------------------
\* Creating a run.

LEMMA CreateStep ==
  ASSUME StoreInv, NEW c \in Commands, Create(c)
  PROVE  StoreInv'
<1> DEFINE new == New(c)
<1>0. /\ cmd[c].at \in {"make", "creation"} /\ UNCHANGED leaseVars
      /\ CmdTyped /\ DiskTyped /\ CommandInv(c) /\ RunsGrow /\ new \in Runs
  BY DEF Create, MakeRun, AppendCreation, StoreInv, CommandInv, Known, New
<1>1. LeaseInv'
  BY <1>0, LeaseStepInv DEF StoreInv
<1>2. CASE Fail(c) /\ UNCHANGED disk
  BY <1>0, <1>2, Fails
<1>3. CASE /\ cmd[c].at = "make" /\ ~disk[new].made /\ Goto(c, "creation")
           /\ Write(new, [disk[new] EXCEPT !.made = TRUE, !.snapshot = cmd[c].seen,
                            !.parent = IF cmd[c].job = "warm" THEN cmd[c].run ELSE NoRun])
  <2>1. /\ PeersWait(c) /\ Kept(c) /\ cmd'[c].at = "creation" /\ New(c)' = new
    BY <1>0, <1>3, Goes DEF New, Kept
  <2>2. disk[new].chain = <<>> /\ ~IsSealed(new)
    BY <1>0, <1>3 DEF RunsGrow
  <2>3. /\ DiskTyped' /\ \A q \in Runs \ {new} : disk'[q] = disk[q]
        /\ disk'[new].made /\ disk'[new].chain = <<>> /\ disk'[new].seal = disk[new].seal
    <3> DEFINE parent == IF cmd[c].job = "warm" THEN cmd[c].run ELSE NoRun
               seen == cmd[c].seen
    <3>1. disk' = [disk EXCEPT ![new] = [disk[new] EXCEPT !.made = TRUE, !.snapshot = seen,
                                                          !.parent = parent]]
      BY <1>3 DEF Write
    <3> HIDE DEF parent, seen, new
    <3>2. /\ disk'[new] = [disk[new] EXCEPT !.made = TRUE, !.snapshot = seen,
                                            !.parent = parent]
          /\ disk' = [q \in Runs |-> disk'[q]] /\ \A q \in Runs \ {new} : disk'[q] = disk[q]
      BY <1>0, <3>1 DEF DiskTyped
    <3>3. /\ disk'[new] = [f \in Files |-> disk'[new][f]]
          /\ disk'[new].made /\ disk'[new].chain = disk[new].chain
          /\ disk'[new].seal = disk[new].seal
      BY <1>0, <3>2 DEF DiskTyped, Files
    <3>4. DiskTyped'
      <4>1. disk[new].chain \in Seq(Events)
        BY <1>0 DEF DiskTyped
      <4> QED
        BY <1>0, <3>2, <3>3, <4>1, OneRunWritten
    <3> QED
      BY <2>2, <3>2, <3>3, <3>4
  <2>4. Alone(c)
    <3>1. \A d \in Commands \ {c} : cmd'[d] = cmd[d] /\ lease'[d] = lease[d]
      BY <1>0, <2>1 DEF PeersWait, leaseVars
    <3>2. ASSUME NEW r \in Runs
          PROVE  /\ disk[r].made => disk'[r].made
                 /\ disk[r].chain # <<>> => disk'[r].chain # <<>>
                 /\ disk'[r].chain # <<>> => disk[r].chain # <<>>
                 /\ disk'[r].seal # Absent => disk[r].seal # Absent
      BY <1>3, <2>2, <2>3
    <3> QED
      BY <3>1, <3>2 DEF Alone
  <2>5. CommandInv(c)'
    <3>1. Leased(c)' /\ Unsealed(c)'
      BY <1>0, <1>3, <2>1 DEF CommandInv, Leased, Unsealed, Kept, leaseVars, Writing, Reading,
                              Inside
    <3>2. cmd[c].job = "inherit" => disk'[cmd[c].child].chain # <<>>
      BY <1>0, <2>4 DEF CommandInv, Known, Alone
    <3>3. Known(c)'
      BY <1>0, <1>3, <2>1, <2>3, <3>2 DEF CommandInv, Known, Opening, Kept, Inside, NoImport
    <3> QED
      BY <3>1, <3>3 DEF CommandInv
  <2>6. CreatedOnce'
    <3>1. ASSUME NEW d \in Commands \ {c}, cmd[d].at = "creation"
          PROVE  New(d) # new
      BY <1>3, <3>1 DEF StoreInv, CommandInv, Known
    <3>2. \A d \in Commands \ {c} : cmd'[d] = cmd[d] /\ New(d)' = New(d)
      BY <2>1 DEF PeersWait, New
    <3> QED
      BY <2>1, <3>1, <3>2 DEF StoreInv, CreatedOnce
  <2>7. RunsGrow'
    BY <1>0, <2>2, <2>3 DEF RunsGrow, IsSealed
  <2> QED
    BY <1>1, <2>1, <2>3, <2>4, <2>5, <2>6, <2>7, PeersKeep DEF StoreInv, PeersWait
<1>4. CASE AppendCreation(c)
  <2>1. /\ cmd[c].at = "creation"
        /\ \E how \in Writes : Write(new, Appended(disk[new], "run.created", how))
    BY <1>4 DEF AppendCreation, Endings, Writes
  <2>2. WritesTo(c, new) /\ SameSeal(new)
    BY <1>0, <2>1, Appends DEF Events
  <2>3. /\ PeersWait(c) /\ cmd'[c].run = cmd[c].run /\ cmd'[c].child = cmd[c].child
        /\ cmd'[c].leased = cmd[c].leased
        /\ IF cmd[c].job = "warm"
           THEN cmd'[c].at = "release" /\ cmd'[c].job = "inherit"
           ELSE cmd'[c].at = "acquire" /\ cmd'[c].job = cmd[c].job
    BY <1>0, <1>4 DEF AppendCreation, CmdTyped, Locals, PeersWait
  <2>4. disk[new].made /\ disk[new].chain = <<>>
    BY <1>0, <2>1 DEF CommandInv, Known
  <2>5. Alone(c)
    <3>1. \A d \in Commands \ {c} : cmd'[d] = cmd[d] /\ lease'[d] = lease[d]
      BY <1>0, <2>3 DEF PeersWait, leaseVars
    <3>2. ASSUME NEW r \in Runs
          PROVE  /\ disk[r].made => disk'[r].made
                 /\ disk[r].chain # <<>> => disk'[r].chain # <<>>
                 /\ disk'[r].chain # <<>> => disk[r].chain # <<>> \/ new = r
                 /\ disk'[r].seal # Absent => disk[r].seal # Absent
      BY <2>2 DEF WritesTo, SameSeal
    <3> QED
      BY <2>1, <3>1, <3>2 DEF Alone
  <2>6. CommandInv(c)'
    <3>1. Leased(c)' /\ Unsealed(c)'
      BY <1>0, <2>1, <2>3 DEF CommandInv, Leased, Unsealed, leaseVars, Writing, Reading, Inside
    <3>2. Known(c)'
      BY <1>0, <2>1, <2>2, <2>3 DEF CommandInv, Known, Opening, Inside, WritesTo, New, NoImport
    <3> QED
      BY <3>1, <3>2 DEF CommandInv
  <2>7. CreatedOnce'
    <3>1. \A d \in Commands \ {c} : cmd'[d] = cmd[d] /\ New(d)' = New(d)
      BY <2>3 DEF PeersWait, New
    <3> QED
      BY <2>3, <3>1 DEF StoreInv, CreatedOnce
  <2>8. RunsGrow'
    BY <1>0, <2>2, <2>4 DEF RunsGrow, IsSealed, WritesTo
  <2> QED
    BY <1>1, <2>2, <2>3, <2>5, <2>6, <2>7, <2>8, PeersKeep DEF StoreInv, PeersWait, WritesTo
<1> QED
  BY <1>2, <1>3, <1>4 DEF Create, MakeRun

-----------------------------------------------------------------------------
\* Taking the lease and giving it back.

LEMMA LeaseMoves ==
  ASSUME StoreInv, NEW c \in Commands, Lease(c)
  PROVE  StoreInv'
<1>0. CmdTyped /\ CommandInv(c) /\ LeaseInv
  BY DEF StoreInv
<1>1. cmd[c].at \in {"acquire", "locking", "release", "discard"} /\ cmd[c].run \in Runs
      /\ UNCHANGED disk
  BY <1>0 DEF Lease, Acquire, TryLock, Release, DiscardLease, CommandInv, Known
<1>2. ASSUME PeersWait(c), CommandInv(c)', cmd'[c].at # "creation", [LeaseNext]_leaseVars,
             \A d \in Commands \ {c} : lease'[d] = lease[d]
      PROVE  StoreInv'
  <2>1. LeaseInv' /\ DiskTyped' /\ RunsGrow'
    BY <1>1, <1>2, LeaseStepInv DEF StoreInv, DiskTyped, RunsGrow, IsSealed
  <2>2. Alone(c)
    BY <1>1, <1>2 DEF Alone, PeersWait
  <2>3. CreatedOnce'
    BY <1>2 DEF StoreInv, CreatedOnce, PeersWait, New
  <2> QED
    BY <1>2, <2>1, <2>2, <2>3, PeersKeep DEF StoreInv, PeersWait
<1>3. CASE Acquire(c)
  <2>1. CASE Register(c, cmd[c].run) /\ Goto(c, "locking")
    <3>1. PeersWait(c) /\ Kept(c) /\ cmd'[c].at = "locking"
      BY <1>0, <2>1, Goes
    <3>2. /\ lease' = [lease EXCEPT ![c] = At("registered", cmd[c].run)]
          /\ lease[c] = NoLease
      BY <2>1 DEF Register
    <3>3. lease'[c] = At("registered", cmd[c].run)
      BY <1>0, <3>2 DEF LeaseInv, LeaseTypeOK
    <3>4. ~cmd[c].leased
      BY <1>0, <1>3, <3>2 DEF Acquire, CommandInv, Leased, At, NoLease
    <3>5. Leased(c)' /\ Unsealed(c)'
      BY <3>1, <3>3, <3>4 DEF Leased, Unsealed, Kept, Writing, Reading, Inside
    <3>6. Known(c)'
      BY <1>0, <1>1, <1>3, <3>1 DEF Acquire, CommandInv, Known, Opening, Kept, Inside, NoImport
    <3>7. LeaseNext
      BY <1>1, <2>1 DEF LeaseNext
    <3> QED
      BY <1>2, <3>1, <3>2, <3>5, <3>6, <3>7 DEF CommandInv
  <2>2. CASE Fail(c) /\ UNCHANGED leaseVars
    BY <1>1, <1>3, <2>2, Fails DEF Acquire
  <2> QED
    BY <1>3, <2>1, <2>2 DEF Acquire
<1>4. CASE TryLock(c)
  <2>1. cmd[c].at = "locking" /\ lease[c] = At("registered", cmd[c].run) /\ ~cmd[c].leased
    BY <1>0, <1>4 DEF TryLock, CommandInv, Leased, At, CmdTyped
  <2>2. CASE /\ Lock(c)
             /\ cmd' = [cmd EXCEPT ![c].at = AfterLease(cmd[c].job), ![c].leased = TRUE,
                                   ![c].reading = cmd[c].run]
    <3> DEFINE place == AfterLease(cmd[c].job)
               run == cmd[c].run
    <3>0. place = CASE cmd[c].job = "campaign" -> "started"
                    [] cmd[c].job = "warm" -> "freeze"
                    [] OTHER -> "open"
      BY DEF AfterLease
    <3> HIDE DEF place, run
    <3>1. /\ PeersWait(c) /\ cmd'[c].at = place /\ cmd'[c].leased = TRUE
          /\ cmd'[c].reading = run /\ cmd'[c].run = cmd[c].run /\ cmd'[c].job = cmd[c].job
          /\ cmd'[c].child = cmd[c].child
      <4>1. cmd' = [cmd EXCEPT ![c].at = place, ![c].leased = TRUE, ![c].reading = run]
        BY <2>2 DEF place, run
      <4>2. /\ cmd'[c] = [cmd[c] EXCEPT !.at = place, !.leased = TRUE, !.reading = run]
            /\ cmd' = [d \in Commands |-> cmd'[d]]
            /\ \A d \in Commands \ {c} : cmd'[d] = cmd[d]
        BY <1>0, <4>1 DEF CmdTyped
      <4>3. /\ cmd'[c] = [f \in Locals |-> cmd'[c][f]]
            /\ cmd'[c].at = place /\ cmd'[c].leased = TRUE /\ cmd'[c].reading = run
            /\ cmd'[c].run = cmd[c].run /\ cmd'[c].job = cmd[c].job
            /\ cmd'[c].child = cmd[c].child
        BY <1>0, <4>2 DEF CmdTyped, Locals
      <4>4. CmdTyped'
        <5>1. ASSUME NEW d \in Commands
              PROVE  cmd'[d] = [f \in Locals |-> cmd'[d][f]] /\ cmd'[d].leased \in BOOLEAN
          <6>1. CASE d = c
            BY <4>3, <6>1
          <6>2. CASE d # c
            <7>1. cmd'[d] = cmd[d]
              BY <4>2, <6>2
            <7> QED
              BY <1>0, <7>1 DEF CmdTyped
          <6> QED
            BY <6>1, <6>2
        <5> QED
          BY <4>2, <5>1 DEF CmdTyped
      <4> QED
        BY <4>2, <4>3, <4>4 DEF PeersWait
    <3>2. lease' = [lease EXCEPT ![c].step = "owned"]
      BY <2>2 DEF Lock
    <3>3. lease'[c] = At("owned", cmd[c].run)
      BY <1>0, <2>1, <3>2 DEF LeaseInv, LeaseTypeOK, At
    <3>4. Leased(c)'
      BY <3>0, <3>1, <3>3 DEF Leased
    <3>5. Known(c)'
      BY <1>0, <1>1, <2>1, <3>0, <3>1 DEF CommandInv, Known, Opening, NoImport
    <3>6. Unsealed(c)'
      BY <1>0, <2>1, <3>0, <3>1 DEF CommandInv, Known, Unsealed, NoImport, Writing, Reading, run
    <3>7. LeaseNext
      BY <2>2 DEF LeaseNext
    <3> QED
      BY <1>2, <3>0, <3>1, <3>2, <3>4, <3>5, <3>6, <3>7 DEF CommandInv
  <2>3. CASE LockRefused(c) /\ Fail(c)
    <3>1. PeersWait(c) /\ cmd'[c] = NotStarted
      BY <1>0, <2>1, <2>3, Stops DEF Fail
    <3>2. lease' = [lease EXCEPT ![c] = NoLease] /\ LeaseNext
      BY <2>3 DEF LockRefused, LeaseNext
    <3>3. CommandInv(c)'
      BY <3>1 DEF NotStarted, CommandInv, Leased, Known, Unsealed, Opening, Reading, Inside,
                  Writing, NoImport
    <3> QED
      BY <1>2, <3>1, <3>2, <3>3 DEF NotStarted
  <2> QED
    BY <1>4, <2>2, <2>3 DEF TryLock
<1>5. CASE Release(c)
  <2>1. PeersWait(c) /\ Kept(c) /\ cmd'[c].at = "discard"
    BY <1>0, <1>5, Goes DEF Release
  <2>2. lease' = [lease EXCEPT ![c].step = "unlocked"] /\ LeaseNext
    BY <1>5 DEF Release, Unlock, LeaseNext
  <2>3. CommandInv(c)'
    BY <1>0, <1>1, <1>5, <2>1 DEF CommandInv, Leased, Known, Unsealed, Opening, Kept, Reading,
                                   Inside, Writing, NoImport
  <2> QED
    BY <1>2, <2>1, <2>2, <2>3
<1>6. CASE DiscardLease(c)
  <2>1. lease' = [lease EXCEPT ![c] = NoLease] /\ LeaseNext
    BY <1>6 DEF DiscardLease, Discard, LeaseNext
  <2>2. CASE cmd[c].job = "inherit"
    <3>1. /\ PeersWait(c) /\ cmd'[c].at = "acquire" /\ cmd'[c].job = "campaign"
          /\ cmd'[c].run = cmd[c].child /\ ~cmd'[c].leased
      BY <1>0, <1>6, <2>2 DEF DiscardLease, NotStarted, CmdTyped, Locals, PeersWait
    <3>2. cmd[c].child \in Runs /\ disk[cmd[c].child].chain # <<>>
      BY <1>0, <2>2 DEF CommandInv, Known
    <3>3. CommandInv(c)'
      BY <1>1, <3>1, <3>2 DEF CommandInv, Leased, Known, Unsealed, Opening, Reading, Inside,
                              Writing, NoImport
    <3> QED
      BY <1>2, <2>1, <3>1, <3>3
  <2>3. CASE cmd[c].job # "inherit"
    <3>1. PeersWait(c) /\ cmd'[c] = NotStarted
      BY <1>0, <1>6, <2>3, Stops DEF DiscardLease
    <3>2. CommandInv(c)'
      BY <3>1 DEF NotStarted, CommandInv, Leased, Known, Unsealed, Opening, Reading, Inside,
                  Writing, NoImport
    <3> QED
      BY <1>2, <2>1, <3>1, <3>2 DEF NotStarted
  <2> QED
    BY <2>2, <2>3
<1> QED
  BY <1>3, <1>4, <1>5, <1>6 DEF Lease

-----------------------------------------------------------------------------
\* A crash, and the invariant.

LEMMA CrashStep ==
  ASSUME StoreInv, NEW p \in Commands, Crash(p)
  PROVE  StoreInv'
<1>0. LeaseInv /\ DiskTyped /\ CmdTyped /\ RunsGrow /\ CreatedOnce
      /\ \A c \in Commands : CommandInv(c)
  BY DEF StoreInv
<1>1. LeaseInv'
  BY <1>0, ProcessDiesStep DEF Crash
<1>2. PICK torn \in BOOLEAN :
        disk' = [r \in Runs |-> IF Interrupted(p, r)
                                THEN [disk[r] EXCEPT !.torn = @ \/ torn] ELSE disk[r]]
  BY DEF Crash
<1>3. ASSUME NEW r \in Runs
      PROVE  /\ disk'[r] = [f \in Files |-> disk'[r][f]]
             /\ \A f \in Files \ {"torn"} : disk'[r][f] = disk[r][f]
  <2> DEFINE now == disk[r].torn \/ torn
  <2> HIDE DEF now
  <2>1. CASE disk'[r] = [disk[r] EXCEPT !.torn = now]
    BY <1>0, <2>1 DEF DiskTyped, Files
  <2>2. CASE disk'[r] = disk[r]
    BY <1>0, <2>2 DEF DiskTyped
  <2> QED
    BY <1>2, <2>1, <2>2 DEF now
<1>4. \A r \in Runs : /\ disk'[r].made = disk[r].made /\ disk'[r].chain = disk[r].chain
                      /\ disk'[r].seal = disk[r].seal
  BY <1>3 DEF Files
<1>5. DiskTyped' /\ RunsGrow'
  <2>1. disk' = [r \in Runs |-> disk'[r]]
    BY <1>2
  <2>2. \A r \in Runs : /\ disk'[r] = [f \in Files |-> disk'[r][f]]
                        /\ disk'[r].made \in BOOLEAN /\ disk'[r].chain \in Seq(Events)
    BY <1>0, <1>3, <1>4 DEF DiskTyped
  <2> QED
    BY <1>0, <1>4, <2>1, <2>2 DEF DiskTyped, RunsGrow, IsSealed
<1>6. ASSUME NEW c \in Commands
      PROVE  \/ cmd'[c] = NotStarted
             \/ cmd'[c] = cmd[c] /\ lease'[c] = lease[c]
  BY DEF Crash, ProcessDies
<1>7. CmdTyped'
  <2>1. cmd' = [c \in Commands |-> cmd'[c]]
    BY DEF Crash
  <2>2. ASSUME NEW c \in Commands
        PROVE  cmd'[c] = [f \in Locals |-> cmd'[c][f]] /\ cmd'[c].leased \in BOOLEAN
    <3>1. CASE cmd'[c] = NotStarted
      BY <3>1 DEF NotStarted, Locals
    <3>2. CASE cmd'[c] = cmd[c]
      BY <1>0, <3>2 DEF CmdTyped
    <3> QED
      BY <1>6, <3>1, <3>2
  <2> QED
    BY <2>1, <2>2 DEF CmdTyped
<1>8. CreatedOnce'
  BY <1>0, <1>6 DEF CreatedOnce, NotStarted, New
<1>9. ASSUME NEW c \in Commands
      PROVE  CommandInv(c)'
  <2>1. CASE cmd'[c] = NotStarted
    BY <2>1 DEF NotStarted, CommandInv, Leased, Known, Unsealed, Opening, Reading, Inside,
                Writing, NoImport
  <2>2. CASE cmd'[c] = cmd[c] /\ lease'[c] = lease[c]
    <3>1. CommandInv(c)
      BY <1>0
    <3>2. Leased(c)'
      BY <2>2, <3>1 DEF CommandInv, Leased
    <3>3. New(c)' = New(c) /\ (Opening(c)' <=> Opening(c))
      BY <2>2 DEF New, Opening
    <3>4. Opening(c) => cmd[c].run \in Runs
      BY <3>1 DEF Opening, CommandInv, Known, Inside
    <3>5. cmd[c].at = "creation" => New(c) \in Runs
      BY <3>1 DEF CommandInv, Known, New
    <3>6. Known(c)'
      BY <1>4, <2>2, <3>1, <3>3, <3>4, <3>5 DEF CommandInv, Known
    <3>7. cmd[c].at # "idle" => IsSealed(cmd[c].run)' = IsSealed(cmd[c].run)
      BY <1>4, <2>2, <3>1 DEF IsSealed, CommandInv, Known
    <3>8. Unsealed(c)'
      BY <2>2, <3>1, <3>7 DEF CommandInv, Unsealed, IsSealed, Writing, Reading
    <3> QED
      BY <3>2, <3>6, <3>8 DEF CommandInv
  <2> QED
    BY <1>6, <2>1, <2>2
<1> QED
  BY <1>1, <1>5, <1>7, <1>8, <1>9 DEF StoreInv

LEMMA StoreInitInv ==
  ASSUME Init
  PROVE  StoreInv
<1>1. LeaseInv
  BY LeaseInitInv DEF Init
<1>2. DiskTyped /\ RunsGrow
  <2>1. /\ NoFiles = [f \in Files |-> NoFiles[f]] /\ NoFiles.made = FALSE
        /\ NoFiles.chain = <<>> /\ NoFiles.seal = Absent
    BY DEF NoFiles, Files
  <2>2. <<>> \in Seq(Events)
    OBVIOUS
  <2>3. disk = [r \in Runs |-> NoFiles]
    BY DEF Init
  <2> QED
    BY <2>1, <2>2, <2>3 DEF DiskTyped, RunsGrow, IsSealed
<1>3. CmdTyped /\ CreatedOnce
  BY DEF Init, NotStarted, CmdTyped, Locals, CreatedOnce
<1>4. \A c \in Commands : CommandInv(c)
  BY DEF Init, NotStarted, CommandInv, Leased, Known, Unsealed, Opening, Reading, Inside,
         Writing, NoImport
<1> QED
  BY <1>1, <1>2, <1>3, <1>4 DEF StoreInv

LEMMA StoreNextInv ==
  ASSUME StoreInv, [Next]_vars
  PROVE  StoreInv'
<1>1. CASE UNCHANGED vars
  <2>1. UNCHANGED <<process, registry, flock, lease, disk, cmd, started>>
    BY <1>1 DEF vars, leaseVars
  <2>2. LeaseInv'
    BY <2>1, LeaseStepInv DEF StoreInv, leaseVars
  <2>3. DiskTyped' /\ CmdTyped' /\ RunsGrow' /\ CreatedOnce'
    BY <2>1 DEF StoreInv, DiskTyped, CmdTyped, RunsGrow, IsSealed, CreatedOnce, New
  <2>4. \A c \in Commands : CommandInv(c)'
    BY <2>1 DEF StoreInv, CommandInv, Leased, Known, Unsealed, Opening, IsSealed, New
  <2> QED
    BY <2>2, <2>3, <2>4 DEF StoreInv
<1>2. CASE Next
  BY <1>2, StartStep, OpenStep, OpenedStep, LeaseMoves, SealStep, CreateStep, ImportStep,
     CampaignStep, CrashStep DEF Next
<1> QED
  BY <1>1, <1>2

\* What a write of one run does to another.
LEMMA WritesOneRun ==
  ASSUME DiskTyped, NEW q, NEW d, Write(q, d), NEW r \in Runs, r # q
  PROVE  disk'[r] = disk[r]
BY DEF DiskTyped, Write

LEMMA AppendWrites ==
  ASSUME NEW c \in Commands, NEW d, NEW kind, NEW next, AppendEvent(c, d, kind, next)
  PROVE  \E e : Write(cmd[c].run, e)
BY DEF AppendEvent

\* What a step of one command does to a sealed run.
LEMMA SealedStays ==
  ASSUME StoreInv, NEW r \in Runs, IsSealed(r), NEW c \in Commands,
         Seal(c) \/ Create(c) \/ Import(c) \/ Campaign(c)
  PROVE  disk'[r] = disk[r]
<1>0. DiskTyped /\ CommandInv(c) /\ RunsGrow
  BY DEF StoreInv
<1> DEFINE run == cmd[c].run
<1>1. CASE UNCHANGED disk
  BY <1>1
<1>2. ASSUME NEW d, Write(run, d), cmd[c].at \in Writing
      PROVE  disk'[r] = disk[r]
  BY <1>0, <1>2, WritesOneRun DEF CommandInv, Unsealed
<1>3. CASE Seal(c)
  <2>1. CASE Freeze(c)
    BY <1>0, <2>1, WritesOneRun DEF Freeze, AnchorSeal
  <2>2. CASE WriteListing(c) \/ WriteSeal(c)
    BY <1>2, <2>2 DEF WriteListing, WriteSeal, Writing
  <2> QED
    BY <1>3, <2>1, <2>2 DEF Seal
<1>4. CASE Create(c)
  <2>1. CASE MakeRun(c)
    <3>1. disk[New(c)].made => UNCHANGED disk
      BY <2>1 DEF MakeRun
    <3>2. New(c) \in Runs
      BY <1>0, <2>1 DEF MakeRun, CommandInv, Known, New
    <3>3. ~disk[New(c)].made => New(c) # r
      BY <1>0, <3>2 DEF RunsGrow
    <3> QED
      BY <1>0, <2>1, <3>1, <3>3, WritesOneRun DEF MakeRun
  <2>2. CASE AppendCreation(c)
    <3>1. New(c) # r
      BY <1>0, <2>2 DEF AppendCreation, CommandInv, Known, RunsGrow
    <3> QED
      BY <1>0, <2>2, <3>1, WritesOneRun DEF AppendCreation
  <2> QED
    BY <1>4, <2>1, <2>2 DEF Create
<1>5. CASE Import(c)
  <2>1. CASE CopyClaim(c) \/ EvidenceFails(c)
    BY <1>2, <2>1 DEF CopyClaim, EvidenceFails, Writing
  <2>2. CASE AnchorImport(c)
    BY <1>1, <1>2, <2>2, AppendWrites DEF AnchorImport, Writing
  <2> QED
    BY <1>5, <2>1, <2>2 DEF Import
<1>6. CASE Campaign(c)
  <2>1. CASE ReviseLimits(c)
    <3>1. ~IsSealed(run)
      BY <1>0, <2>1 DEF ReviseLimits, CommandInv, Leased, Unsealed, Inside
    <3> QED
      BY <1>0, <2>1, <3>1, WritesOneRun, AppendWrites DEF ReviseLimits
  <2>2. CASE Started(c) \/ ReadHead(c)
    BY <2>2 DEF Started, ReadHead
  <2>3. CASE WriteCheckpoint(c) \/ PersistReport(c)
    BY <1>2, <2>3 DEF WriteCheckpoint, PersistReport, Writing
  <2>4. CASE Play(c) \/ Work(c) \/ AnchorReport(c)
    BY <1>2, <2>4, AppendWrites DEF Play, Work, AnchorReport, Writing
  <2> QED
    BY <1>6, <2>1, <2>2, <2>3, <2>4 DEF Campaign
<1> QED
  BY <1>3, <1>4, <1>5, <1>6

LEMMA StoreStepFrozen ==
  ASSUME StoreInv, [Next]_vars
  PROVE  [\A r \in Runs : IsSealed(r) => disk'[r] = disk[r]]_vars
<1>1. CASE UNCHANGED vars
  BY <1>1
<1> SUFFICES ASSUME Next, NEW r \in Runs, IsSealed(r) PROVE disk'[r] = disk[r]
  BY <1>1
<1>2. ASSUME NEW p \in Commands, Crash(p)
      PROVE  disk'[r] = disk[r]
  <2>1. ~Interrupted(p, r)
    BY DEF Interrupted, Dead, StoreInv, CommandInv, Unsealed, Writing
  <2> QED
    BY <1>2, <2>1 DEF Crash
<1>3. ASSUME NEW c \in Commands,
             Open(c) \/ Opened(c) \/ Lease(c)
      PROVE  disk'[r] = disk[r]
  BY <1>3 DEF Open, OpenManifest, CheckPrefix, CheckSeal, Opened, OpenedResume, OpenedReport,
              OpenedWarm, OpenedImport, Lease, Acquire, TryLock, Release, DiscardLease
<1>4. ASSUME NEW c \in Commands, NEW q \in Runs,
             \/ StartCold(c, q)
             \/ \E job \in {"resume", "report"} : StartOn(c, job, q)
             \/ \E child \in Runs \ {q} : StartWarm(c, q, child)
      PROVE  disk'[r] = disk[r]
  BY <1>4 DEF StartCold, StartOn, StartWarm, Begin
<1> QED
  BY <1>2, <1>3, <1>4, SealedStays DEF Next

\* runtime/lease.py around every command of cli.py and campaign_runner.py: no two of them
\* are inside the same run, for any number of commands, processes, runs and crashes.
THEOREM RunsHaveOneOwner == Spec => []OneOwner
<1>1. StoreInv => OneOwner
  BY LeaseInvOwner DEF StoreInv
<1> QED
  BY <1>1, StoreInitInv, StoreNextInv, PTL DEF Spec

\* runtime/results.py: once sealed.json is there no step of any command changes a file of
\* the run, for any number of commands, children and crashes.
THEOREM SealedRunsAreFrozen == Spec => SealedIsFrozen
BY StoreInitInv, StoreNextInv, StoreStepFrozen, PTL DEF Spec, SealedIsFrozen

-----------------------------------------------------------------------------
\* What the checks of a reader and of a child rest on.

FileTypes(r) ==
    /\ disk[r].parent \in (Runs \ {r}) \cup {NoRun}
    /\ disk[r].parent = NoRun <=> disk[r].snapshot = Absent
    /\ disk[r].end \in Writes /\ disk[r].files \in Nat
    /\ disk[r].torn \in BOOLEAN
    /\ disk[r].claims \subseteq Claims /\ disk[r].copies \subseteq Eligible

\* A run is made under its parent's seal.
Bound(r) ==
    disk[r].parent # NoRun =>
        disk[r].made /\ IsSealed(disk[r].parent) /\ disk[disk[r].parent].seal = disk[r].snapshot

Inheritance(r) == disk[disk[r].parent].claims \cap Eligible

\* What a run has copied is its parent's; it has all of it when it says so, and it says so
\* before it plays.
Inherits(r) ==
    /\ disk[r].parent = NoRun => disk[r].copies = {}
    /\ disk[r].parent # NoRun =>
          /\ disk[r].copies \subseteq Inheritance(r)
          /\ Contains(disk[r].chain, "memory.imported") => Inheritance(r) \subseteq disk[r].copies
          /\ Contains(disk[r].chain, "campaign") => Contains(disk[r].chain, "memory.imported")

\* What was the chain of a run is its beginning.
Begins(s, r) == s \in Seq(Events) /\ IsPrefix(s, disk[r].chain)

RunFacts(r) ==
    /\ FileTypes(r) /\ Bound(r) /\ Inherits(r)
    /\ Begins(disk[r].checkpoint, r)
    /\ IsSealed(r) => SealHolds(disk[r])

LocalTypes(c) ==
    /\ cmd[c].at \in Places /\ cmd[c].job \in Jobs
    /\ cmd[c].leased <=> lease[c].step = "owned" \/ cmd[c].at = "discard"
    /\ cmd[c].leased => lease[c].run = cmd[c].run
    /\ cmd[c].job \in {"warm", "inherit"} => cmd[c].child \in Runs \ {cmd[c].run}
    /\ cmd[c].at \in {"freeze", "listing", "sealing"} => cmd[c].job = "warm"

\* A command reads its run or that run's parent.
Reads(c) ==
    /\ cmd[c].at \in Reading \cup {"copying"} =>
          /\ cmd[c].reading \in Runs /\ disk[cmd[c].run].made
          /\ cmd[c].reading # cmd[c].run \/ cmd[c].job = "import" =>
                cmd[c].reading = disk[cmd[c].run].parent
    /\ cmd[c].at = "prefix" => Begins(cmd[c].seen, cmd[c].reading)
    /\ cmd[c].at = "make" =>
          IF cmd[c].job = "warm"
          THEN IsSealed(cmd[c].run) /\ cmd[c].seen = disk[cmd[c].run].seal
          ELSE cmd[c].seen = Absent

\* What the owner of a run knows of it at the places where it writes.
Sealable(c) ==
    /\ cmd[c].at \in {"listing", "sealing"} =>
          Loads(disk[cmd[c].run]) /\ Last(disk[cmd[c].run].chain) = "run.sealed"
    /\ cmd[c].at = "sealing" => disk[cmd[c].run].listing = Artifacts(disk[cmd[c].run])

Importing(c) ==
    /\ cmd[c].at = "copying" => /\ cmd[c].job = "import"
                                /\ ~Contains(disk[cmd[c].run].chain, "memory.imported")
    /\ cmd[c].at \in {"play", "working"} /\ disk[cmd[c].run].parent # NoRun =>
          Contains(disk[cmd[c].run].chain, "memory.imported")

Running(c) == cmd[c].at = "working" => Begins(cmd[c].seen, cmd[c].run)

CommandFacts(c) == LocalTypes(c) /\ Reads(c) /\ Sealable(c) /\ Importing(c) /\ Running(c)

StoreFacts ==
    /\ started \in 0..MaxStarts
    /\ \A r \in Runs : RunFacts(r)
    /\ \A c \in Commands : CommandFacts(c)

-----------------------------------------------------------------------------
\* Chains.

LEMMA ChainGrows ==
  ASSUME NEW S, NEW s \in Seq(S), NEW t \in Seq(S), NEW e \in S, IsPrefix(s, t)
  PROVE  IsPrefix(s, Append(t, e))
<1>1. Len(s) \in Nat /\ Len(t) \in Nat /\ Len(s) <= Len(t) /\ Len(Append(t, e)) = Len(t) + 1
  BY DEF IsPrefix
<1>2. \A i \in 1..Len(s) : i \in 1..Len(t) /\ Append(t, e)[i] = t[i]
  BY <1>1
<1>3. SubSeq(Append(t, e), 1, Len(s)) = SubSeq(t, 1, Len(s))
  BY <1>1, <1>2
<1> QED
  BY <1>1, <1>3 DEF IsPrefix

LEMMA ChainIsPrefix ==
  ASSUME NEW S, NEW s \in Seq(S)
  PROVE  IsPrefix(s, s)
BY DEF IsPrefix

LEMMA ContainsMore ==
  ASSUME NEW S, NEW s \in Seq(S), NEW e \in S, NEW x
  PROVE  Contains(Append(s, e), x) <=> Contains(s, x) \/ x = e
<1> DEFINE t == Append(s, e)
<1>1. /\ Len(s) \in Nat /\ Len(t) = Len(s) + 1
      /\ \A i \in 1..Len(s) : t[i] = s[i]
      /\ t[Len(s) + 1] = e
  OBVIOUS
<1> HIDE DEF t
<1>2. Contains(t, x) => Contains(s, x) \/ x = e
  BY <1>1 DEF Contains
<1>3. Contains(s, x) => Contains(t, x)
  BY <1>1 DEF Contains
<1>4. x = e => Contains(t, x)
  BY <1>1 DEF Contains
<1> QED
  BY <1>2, <1>3, <1>4 DEF t

LEMMA LastOfMore ==
  ASSUME NEW S, NEW s \in Seq(S), NEW e \in S
  PROVE  Last(Append(s, e)) = e
BY DEF Last

-----------------------------------------------------------------------------
\* What a step does to one run.

Adds(r, kind) ==
    /\ Same(r, {"chain", "end"})
    /\ disk'[r].chain = Append(disk[r].chain, kind) /\ disk'[r].end \in Writes

\* A command that owns r, opened or created it and has seen it unsealed changes its files.
OwnWrite(c, r) ==
    /\ r = cmd[c].run /\ cmd[c].leased /\ cmd[c].at # "discard"
    /\ ~IsSealed(r) /\ disk[r].chain # <<>>
    /\ \/ cmd[c].at = "started" /\ Adds(r, "limits_revised")
       \/ cmd[c].at = "play" /\ Adds(r, "campaign")
       \/ cmd[c].at = "working" /\ (Worked(r) \/ Unreported(r))
       \/ /\ cmd[c].at = "working" /\ Same(r, {"checkpoint"})
          /\ disk'[r].checkpoint = cmd[c].seen
       \/ /\ cmd[c].at \in {"persist", "working"} /\ Same(r, {"files"})
          /\ disk'[r].files = disk[r].files + 1
       \/ cmd[c].at = "anchor" /\ Adds(r, "validation.completed")
       \/ /\ cmd[c].at = "copying" /\ Same(r, {"copies"})
          /\ \E m \in Missing(c) : disk'[r].copies = disk[r].copies \cup {m}
       \/ cmd[c].at = "copying" /\ Adds(r, "memory.imported") /\ Missing(c) = {}
       \/ cmd[c].at = "freeze" /\ Adds(r, "run.sealed")
       \/ /\ cmd[c].at = "listing" /\ Same(r, {"listing"})
          /\ disk'[r].listing = Artifacts(disk[r])
       \/ /\ cmd[c].at = "sealing" /\ Same(r, {"seal"})
          /\ disk'[r].seal = [listing |-> disk[r].listing, chain |-> disk[r].chain]

Makes(c, r) ==
    /\ cmd[c].at = "make" /\ r = New(c) /\ ~disk[r].made
    /\ Same(r, {"made", "snapshot", "parent"})
    /\ disk'[r].made /\ disk'[r].snapshot = cmd[c].seen
    /\ disk'[r].parent = IF cmd[c].job = "warm" THEN cmd[c].run ELSE NoRun

Creates(c, r) ==
    /\ cmd[c].at = "creation" /\ r = New(c) /\ disk[r].made /\ disk[r].chain = <<>>
    /\ Adds(r, "run.created")

\* A crash tears a trace of a run that was being worked on.
Tears(c, r) ==
    /\ r = cmd[c].run /\ cmd[c].leased /\ cmd[c].at = "working" /\ ~IsSealed(r)
    /\ Same(r, {"torn"}) /\ disk'[r].torn \in BOOLEAN
    /\ cmd'[c] = NotStarted

Writers(c, r) == OwnWrite(c, r) \/ Makes(c, r) \/ Creates(c, r)

LEMMA AddsOne ==
  ASSUME DiskTyped, NEW r \in Runs, NEW kind,
         \E how \in Writes : Write(r, Appended(disk[r], kind, how))
  PROVE  Adds(r, kind) /\ \A q \in Runs \ {r} : disk'[q] = disk[q]
<1>1. PICK how \in Writes : Write(r, Appended(disk[r], kind, how))
  OBVIOUS
<1> DEFINE new == Appended(disk[r], kind, how)
<1>2. /\ new = [f \in Files |-> new[f]] /\ new.chain = Append(disk[r].chain, kind)
      /\ new.end \in Writes /\ \A f \in Files \ {"chain", "end"} : new[f] = disk[r][f]
  BY AppendedFiles DEF DiskTyped
<1> HIDE DEF new
<1>3. disk'[r] = new /\ \A q \in Runs \ {r} : disk'[q] = disk[q]
  BY <1>1 DEF DiskTyped, Write, new
<1> QED
  BY <1>2, <1>3 DEF Adds, Same

LEMMA SetsOne ==
  ASSUME DiskTyped, NEW r \in Runs, NEW file \in Files, NEW x,
         disk' = [disk EXCEPT ![r] = [disk[r] EXCEPT ![file] = x]]
  PROVE  /\ Same(r, {file}) /\ disk'[r][file] = x
         /\ \A q \in Runs \ {r} : disk'[q] = disk[q]
<1>1. disk'[r] = [disk[r] EXCEPT ![file] = x]
  BY DEF DiskTyped
<1>2. /\ disk'[r] = [f \in Files |-> disk'[r][f]] /\ disk'[r][file] = x
      /\ \A f \in Files \ {file} : disk'[r][f] = disk[r][f]
  BY <1>1 DEF DiskTyped
<1> QED
  BY <1>2 DEF DiskTyped, Same

\* The steps of c that write, each on one run.
LEMMA WritesOwn ==
  ASSUME StoreInv, NEW c \in Commands, Seal(c) \/ Import(c) \/ Campaign(c)
  PROVE  \/ UNCHANGED disk
         \/ /\ OwnWrite(c, cmd[c].run) /\ cmd[c].run \in Runs
            /\ \A q \in Runs \ {cmd[c].run} : disk'[q] = disk[q]
<1> DEFINE r == cmd[c].run
<1>0. DiskTyped /\ CmdTyped /\ CommandInv(c)
  BY DEF StoreInv
<1>1. ASSUME cmd[c].at \in Inside \ {"release"}
      PROVE  r \in Runs /\ cmd[c].leased /\ cmd[c].at # "discard" /\ disk[r].chain # <<>>
  BY <1>1, IsInside DEF Inside
<1>2. cmd[c].at \in Writing => ~IsSealed(r)
  BY <1>0 DEF CommandInv, Unsealed
<1>3. CASE Freeze(c)
  <2>1. CASE UNCHANGED disk
    BY <2>1
  <2>2. CASE /\ cmd[c].at = "freeze" /\ ~IsSealed(r)
             /\ \E how \in Writes : Write(r, Appended(disk[r], "run.sealed", how))
    BY <1>0, <1>1, <2>2, AddsOne DEF OwnWrite, Inside
  <2>3. AnchorSeal(c) => \E how \in Writes : Write(r, Appended(disk[r], "run.sealed", how))
    BY DEF AnchorSeal, Endings, Writes
  <2> QED
    BY <1>3, <2>1, <2>2, <2>3 DEF Freeze
<1>4. CASE WriteListing(c)
  <2> DEFINE listing == Artifacts(disk[r])
  <2>1. cmd[c].at = "listing"
        /\ disk' = [disk EXCEPT ![r] = [disk[r] EXCEPT !["listing"] = listing]]
    BY <1>4 DEF WriteListing, Write
  <2> HIDE DEF listing
  <2>2. r \in Runs /\ ~IsSealed(r)
    BY <1>1, <1>2, <2>1 DEF Inside, Writing
  <2>3. /\ Same(r, {"listing"}) /\ disk'[r].listing = listing
        /\ \A q \in Runs \ {r} : disk'[q] = disk[q]
    BY <1>0, <2>1, <2>2, SetsOne DEF Files
  <2> QED
    BY <1>1, <2>1, <2>2, <2>3 DEF OwnWrite, Inside, listing
<1>5. CASE WriteSeal(c)
  <2> DEFINE seal == [listing |-> disk[r].listing, chain |-> disk[r].chain]
  <2>1. cmd[c].at = "sealing"
        /\ disk' = [disk EXCEPT ![r] = [disk[r] EXCEPT !["seal"] = seal]]
    BY <1>5 DEF WriteSeal, Write
  <2> HIDE DEF seal
  <2>2. r \in Runs /\ ~IsSealed(r)
    BY <1>1, <1>2, <2>1 DEF Inside, Writing
  <2>3. /\ Same(r, {"seal"}) /\ disk'[r].seal = seal
        /\ \A q \in Runs \ {r} : disk'[q] = disk[q]
    BY <1>0, <2>1, <2>2, SetsOne DEF Files
  <2> QED
    BY <1>1, <2>1, <2>2, <2>3 DEF OwnWrite, Inside, seal
<1>6. CASE CopyClaim(c)
  <2> DEFINE m == CHOOSE x \in Missing(c) : TRUE
             copies == disk[r].copies \cup {m}
  <2>1. cmd[c].at = "copying" /\ m \in Missing(c)
        /\ disk' = [disk EXCEPT ![r] = [disk[r] EXCEPT !["copies"] = copies]]
    BY <1>6 DEF CopyClaim, Write
  <2> HIDE DEF m
  <2>2. r \in Runs /\ ~IsSealed(r)
    BY <1>1, <1>2, <2>1 DEF Inside, Writing
  <2>3. /\ Same(r, {"copies"}) /\ disk'[r].copies = copies
        /\ \A q \in Runs \ {r} : disk'[q] = disk[q]
    <3> HIDE DEF copies
    <3> QED
      BY <1>0, <2>1, <2>2, SetsOne DEF Files
  <2> QED
    BY <1>1, <2>1, <2>2, <2>3 DEF OwnWrite, Inside
<1>7. CASE EvidenceFails(c) \/ Started(c) \/ ReadHead(c)
  BY <1>7 DEF EvidenceFails, Started, ReadHead
<1>8. CASE AnchorImport(c)
  <2>1. CASE UNCHANGED disk
    BY <2>1
  <2>2. CASE \E how \in Writes : Write(r, Appended(disk[r], "memory.imported", how))
    <3>1. cmd[c].at = "copying" /\ Missing(c) = {}
      BY <1>8 DEF AnchorImport
    <3> QED
      BY <1>0, <1>1, <1>2, <2>2, <3>1, AddsOne DEF OwnWrite, Inside, Writing
  <2>3. r \in Runs
    BY <1>1, <1>8 DEF AnchorImport, Inside
  <2> QED
    BY <1>0, <1>8, <2>1, <2>2, <2>3, EventAppended DEF AnchorImport
<1>9. CASE ReviseLimits(c)
  <2>1. cmd[c].at = "started" /\ cmd[c].job = "resume" /\ r \in Runs
    BY <1>1, <1>9 DEF ReviseLimits, Inside
  <2>2. ~IsSealed(r)
    BY <1>0, <1>1, <2>1 DEF CommandInv, Unsealed, Inside
  <2>3. \/ UNCHANGED disk
        \/ \E how \in Writes : Write(r, Appended(disk[r], "limits_revised", how))
    BY <1>0, <1>9, <2>1, EventAppended DEF ReviseLimits
  <2> QED
    BY <1>0, <1>1, <2>1, <2>2, <2>3, AddsOne DEF OwnWrite, Inside
<1>10. CASE Play(c)
  <2>1. cmd[c].at = "play" /\ r \in Runs /\ ~IsSealed(r)
    BY <1>1, <1>2, <1>10 DEF Play, Inside, Writing
  <2>2. \/ UNCHANGED disk
        \/ \E how \in Writes : Write(r, Appended(disk[r], "campaign", how))
    BY <1>0, <1>10, <2>1, EventAppended DEF Play
  <2> QED
    BY <1>0, <1>1, <2>1, <2>2, AddsOne DEF OwnWrite, Inside
<1>11. CASE AnchorReport(c)
  <2>1. cmd[c].at = "anchor" /\ r \in Runs /\ ~IsSealed(r)
    BY <1>1, <1>2, <1>11 DEF AnchorReport, Inside, Writing
  <2>2. \/ UNCHANGED disk
        \/ \E how \in Writes : Write(r, Appended(disk[r], "validation.completed", how))
    BY <1>0, <1>11, <2>1, EventAppended DEF AnchorReport
  <2> QED
    BY <1>0, <1>1, <2>1, <2>2, AddsOne DEF OwnWrite, Inside
<1>12. CASE WriteCheckpoint(c)
  <2> DEFINE seen == cmd[c].seen
  <2>1. cmd[c].at = "working"
        /\ disk' = [disk EXCEPT ![r] = [disk[r] EXCEPT !["checkpoint"] = seen]]
    BY <1>12 DEF WriteCheckpoint, Write
  <2> HIDE DEF seen
  <2>2. r \in Runs /\ ~IsSealed(r)
    BY <1>1, <1>2, <2>1 DEF Inside, Writing
  <2>3. /\ Same(r, {"checkpoint"}) /\ disk'[r].checkpoint = seen
        /\ \A q \in Runs \ {r} : disk'[q] = disk[q]
    BY <1>0, <2>1, <2>2, SetsOne DEF Files
  <2> QED
    BY <1>1, <2>1, <2>2, <2>3 DEF OwnWrite, Inside, seen
<1>13. CASE PersistReport(c)
  <2> DEFINE files == disk[r].files + 1
  <2>1. cmd[c].at \in {"persist", "working"}
        /\ disk' = [disk EXCEPT ![r] = [disk[r] EXCEPT !["files"] = files]]
    BY <1>13 DEF PersistReport, Write
  <2> HIDE DEF files
  <2>2. r \in Runs /\ ~IsSealed(r)
    BY <1>1, <1>2, <2>1 DEF Inside, Writing
  <2>3. /\ Same(r, {"files"}) /\ disk'[r].files = files
        /\ \A q \in Runs \ {r} : disk'[q] = disk[q]
    BY <1>0, <2>1, <2>2, SetsOne DEF Files
  <2> QED
    BY <1>1, <2>1, <2>2, <2>3 DEF OwnWrite, Inside, files
<1>14. CASE Work(c)
  <2>1. cmd[c].at = "working"
    BY <1>14 DEF Work
  <2>2. r \in Runs /\ ~IsSealed(r)
    BY <1>1, <1>2, <2>1 DEF Inside, Writing
  <2>3. (Worked(r) \/ Unreported(r)) /\ \A q \in Runs \ {r} : disk'[q] = disk[q]
    BY <1>0, <1>14, <2>2, WorkWrites
  <2> QED
    BY <1>1, <2>1, <2>2, <2>3 DEF OwnWrite, Inside
<1> QED
  BY <1>3, <1>4, <1>5, <1>6, <1>7, <1>8, <1>9, <1>10, <1>11, <1>12, <1>13, <1>14
     DEF Seal, Import, Campaign

LEMMA WritesNew ==
  ASSUME StoreInv, NEW c \in Commands, Create(c)
  PROVE  \/ UNCHANGED disk
         \/ /\ Makes(c, New(c)) \/ Creates(c, New(c))
            /\ New(c) \in Runs
            /\ \A q \in Runs \ {New(c)} : disk'[q] = disk[q]
<1> DEFINE new == New(c)
<1>0. DiskTyped /\ CmdTyped /\ CommandInv(c)
  BY DEF StoreInv
<1>1. new \in Runs
  BY <1>0 DEF Create, MakeRun, AppendCreation, CommandInv, Known, New
<1>2. CASE MakeRun(c) /\ ~disk[new].made
  <2> DEFINE parent == IF cmd[c].job = "warm" THEN cmd[c].run ELSE NoRun
             seen == cmd[c].seen
  <2>1. disk' = [disk EXCEPT ![new] = [disk[new] EXCEPT !.made = TRUE, !.snapshot = seen,
                                                        !.parent = parent]]
    BY <1>2 DEF MakeRun, Write
  <2> HIDE DEF parent, seen, new
  <2>2. /\ disk'[new] = [disk[new] EXCEPT !.made = TRUE, !.snapshot = seen,
                                          !.parent = parent]
        /\ \A q \in Runs \ {new} : disk'[q] = disk[q]
    BY <1>0, <1>1, <2>1 DEF DiskTyped
  <2>3. /\ Same(new, {"made", "snapshot", "parent"})
        /\ disk'[new].made /\ disk'[new].snapshot = seen /\ disk'[new].parent = parent
    BY <1>0, <1>1, <2>2 DEF DiskTyped, Files, Same
  <2> QED
    BY <1>1, <1>2, <2>2, <2>3 DEF MakeRun, Makes, parent, seen, new
<1>3. CASE AppendCreation(c)
  <2>1. /\ cmd[c].at = "creation"
        /\ \E how \in Writes : Write(new, Appended(disk[new], "run.created", how))
    BY <1>3 DEF AppendCreation, Endings, Writes
  <2>2. disk[new].made /\ disk[new].chain = <<>>
    BY <1>0, <2>1 DEF CommandInv, Known
  <2> QED
    BY <1>0, <1>1, <2>1, <2>2, AddsOne DEF Creates
<1> QED
  BY <1>2, <1>3 DEF Create, MakeRun

\* A step of c leaves every other command alone, a crash all but those that die.
LEMMA OneMoves ==
  ASSUME StoreInv, NEW c \in Commands,
         \/ Open(c) \/ Opened(c) \/ Lease(c) \/ Seal(c) \/ Create(c) \/ Import(c) \/ Campaign(c)
         \/ \E command : Begin(c, command)
  PROVE  \A d \in Commands \ {c} : cmd'[d] = cmd[d] /\ lease'[d] = lease[d]
<1>0. CmdTyped /\ LeaseInv
  BY DEF StoreInv
<1>1. ASSUME NEW d \in Commands \ {c} PROVE cmd'[d] = cmd[d]
  BY <1>0, <1>1 DEF CmdTyped, Open, OpenManifest, CheckPrefix, CheckSeal, Opened, OpenedResume,
     OpenParent, OpenedReport, OpenedWarm, OpenedImport, Lease, Acquire, TryLock, Release,
     DiscardLease, Seal, Freeze, WriteListing, WriteSeal, Create, MakeRun, AppendCreation,
     Import, CopyClaim, EvidenceFails, AnchorImport, Campaign, ReviseLimits, Started, Play,
     Work, ReadHead, WriteCheckpoint, PersistReport, AnchorReport, Begin, Goto, Fail,
     AppendEvent, AnchorSeal
<1>2. ASSUME NEW d \in Commands \ {c} PROVE lease'[d] = lease[d]
  BY <1>0, <1>2 DEF LeaseInv, LeaseTypeOK, leaseVars, Register, Lock, LockRefused, Unlock,
     Discard, Open, OpenManifest, CheckPrefix, CheckSeal, Opened, OpenedResume,
     OpenedReport, OpenedWarm, OpenedImport, Lease, Acquire, TryLock, Release,
     DiscardLease, Seal, Freeze, WriteListing, WriteSeal, Create, MakeRun, AppendCreation,
     Import, CopyClaim, EvidenceFails, AnchorImport, Campaign, ReviseLimits, Started, Play,
     Work, ReadHead, WriteCheckpoint, PersistReport, AnchorReport, Begin
<1> QED
  BY <1>1, <1>2

\* What holds of a run after any step: it is made once and under one parent, and its chain
\* only grows, at its end.
Grows(r) ==
    /\ disk[r].made =>
          /\ disk'[r].made /\ disk'[r].parent = disk[r].parent
          /\ disk'[r].snapshot = disk[r].snapshot
    /\ \A s \in Seq(Events) : IsPrefix(s, disk[r].chain) => IsPrefix(s, disk'[r].chain)

\* Who changes which files of a run.
MadeFiles == {"made", "parent", "snapshot"}

LEMMA WriterFiles ==
  ASSUME NEW c \in Commands, NEW r \in Runs, OwnWrite(c, r) \/ Creates(c, r) \/ Tears(c, r)
  PROVE  \A f \in MadeFiles : disk'[r][f] = disk[r][f]
<1>1. ASSUME NEW files, Same(r, files), files \cap MadeFiles = {}
      PROVE  \A f \in MadeFiles : disk'[r][f] = disk[r][f]
  BY <1>1 DEF Same, Files, MadeFiles
<1>2. \A kind : Adds(r, kind) => Same(r, {"chain", "end"})
  BY DEF Adds
<1>3. CASE OwnWrite(c, r)
  <2>1. \E files \in {{"chain", "end"}, {"chain", "end", "files", "claims"}, {"files", "claims"},
                      {"checkpoint"}, {"files"}, {"copies"}, {"listing"}, {"seal"}} :
           Same(r, files)
    BY <1>2, <1>3 DEF OwnWrite, Worked, Unreported
  <2> QED
    BY <1>1, <2>1 DEF MadeFiles
<1>4. CASE Creates(c, r)
  BY <1>1, <1>2, <1>4 DEF Creates, MadeFiles
<1>5. CASE Tears(c, r)
  BY <1>1, <1>5 DEF Tears, MadeFiles
<1> QED
  BY <1>3, <1>4, <1>5

LEMMA WriterChain ==
  ASSUME NEW c \in Commands, NEW r \in Runs, Writers(c, r) \/ Tears(c, r)
  PROVE  \/ disk'[r].chain = disk[r].chain
         \/ \E kind \in Events : disk'[r].chain = Append(disk[r].chain, kind)
<1>1. ASSUME NEW files, Same(r, files), "chain" \notin files
      PROVE  disk'[r].chain = disk[r].chain
  BY <1>1 DEF Same, Files
<1>2. \A kind \in Events : Adds(r, kind) => disk'[r].chain = Append(disk[r].chain, kind)
  BY DEF Adds
<1>3. CASE OwnWrite(c, r)
  <2>1. \/ \E kind \in Events : disk'[r].chain = Append(disk[r].chain, kind)
        \/ \E files \in {{"files", "claims"}, {"checkpoint"}, {"files"}, {"copies"},
                         {"listing"}, {"seal"}} : Same(r, files)
    BY <1>2, <1>3 DEF OwnWrite, Worked, Unreported, Events
  <2> QED
    BY <1>1, <2>1
<1>4. CASE Makes(c, r)
  BY <1>1, <1>4 DEF Makes
<1>5. CASE Creates(c, r)
  BY <1>2, <1>5 DEF Creates, Events
<1>6. CASE Tears(c, r)
  BY <1>1, <1>6 DEF Tears
<1> QED
  BY <1>3, <1>4, <1>5, <1>6 DEF Writers

\* A step of c: it alone moves, and writes at most one run it owns or creates.
Moves(c) ==
    /\ \A d \in Commands \ {c} : cmd'[d] = cmd[d] /\ lease'[d] = lease[d]
    /\ \A r \in Runs : disk'[r] = disk[r] \/ Writers(c, r)

LEMMA StepMoves ==
  ASSUME StoreInv, NEW c \in Commands,
         \/ Open(c) \/ Opened(c) \/ Lease(c) \/ Seal(c) \/ Create(c) \/ Import(c) \/ Campaign(c)
         \/ \E command : Begin(c, command)
  PROVE  Moves(c)
<1>1. \A d \in Commands \ {c} : cmd'[d] = cmd[d] /\ lease'[d] = lease[d]
  BY OneMoves
<1>2. CASE Seal(c) \/ Import(c) \/ Campaign(c)
  BY <1>1, <1>2, WritesOwn DEF Moves, Writers
<1>3. CASE Create(c)
  BY <1>1, <1>3, WritesNew DEF Moves, Writers
<1>4. CASE Open(c) \/ Opened(c) \/ Lease(c) \/ \E command : Begin(c, command)
  BY <1>1, <1>4 DEF Moves, Open, OpenManifest, CheckPrefix, CheckSeal, Opened, OpenedResume,
     OpenedReport, OpenedWarm, OpenedImport, Lease, Acquire, TryLock, Release, DiscardLease,
     Begin
<1> QED
  BY <1>2, <1>3, <1>4

LEMMA RunGrows ==
  ASSUME StoreInv, NEW c \in Commands, NEW r \in Runs,
         disk'[r] = disk[r] \/ Writers(c, r) \/ Tears(c, r)
  PROVE  Grows(r)
<1>0. disk[r].chain \in Seq(Events)
  BY DEF StoreInv, DiskTyped
<1>1. \/ disk'[r].chain = disk[r].chain
      \/ \E kind \in Events : disk'[r].chain = Append(disk[r].chain, kind)
  BY WriterChain
<1>2. \A s \in Seq(Events) : IsPrefix(s, disk[r].chain) => IsPrefix(s, disk'[r].chain)
  BY <1>0, <1>1, ChainGrows
<1>3. disk[r].made =>
          /\ disk'[r].made /\ disk'[r].parent = disk[r].parent
          /\ disk'[r].snapshot = disk[r].snapshot
  BY WriterFiles DEF Writers, Makes, MadeFiles
<1> QED
  BY <1>2, <1>3 DEF Grows

\* The run a command owns is left alone by its peers.
LEMMA OwnedStays ==
  ASSUME StoreInv, NEW c \in Commands, NEW d \in Commands \ {c}, NEW r \in Runs,
         Owns(d, r), disk[r].chain # <<>>, disk'[r] = disk[r] \/ Writers(c, r) \/ Tears(c, r)
  PROVE  disk'[r] = disk[r]
<1>1. ~Owns(c, r)
  BY LeaseInvOwner DEF StoreInv, OneOwner
<1>2. CommandInv(c) /\ disk[r].made
  BY DEF StoreInv, RunsGrow
<1> QED
  BY <1>1, <1>2 DEF Writers, OwnWrite, Makes, Creates, Tears, CommandInv, Leased, Owns

LEMMA Frozen ==
  ASSUME StoreInv, [Next]_vars, NEW r \in Runs, IsSealed(r)
  PROVE  disk'[r] = disk[r]
BY StoreStepFrozen DEF vars

\* The facts of a command that does not move.
LEMMA PeerFacts ==
  ASSUME StoreInv, [Next]_vars, NEW d \in Commands,
         CommandFacts(d), cmd'[d] = cmd[d], lease'[d] = lease[d],
         \A r \in Runs : \/ disk'[r] = disk[r]
                        \/ \E c \in Commands \ {d} : Writers(c, r) \/ Tears(c, r)
  PROVE  CommandFacts(d)'
<1> DEFINE r == cmd[d].run
<1>0. CommandInv(d) /\ d \in Commands
  BY DEF StoreInv
<1>2. \A q \in Runs : Grows(q)
  BY RunGrows
<1>1. cmd[d].at \in Inside \ {"release"} =>
         r \in Runs /\ Owns(d, r) /\ disk[r].chain # <<>> /\ disk'[r] = disk[r]
  <2>1. cmd[d].at \in Inside \ {"release"} =>
           r \in Runs /\ Owns(d, r) /\ disk[r].chain # <<>>
    BY <1>0, IsInside DEF CommandInv, Leased, Owns, Inside
  <2>2. \A q \in Runs : Owns(d, q) /\ disk[q].chain # <<>> => disk'[q] = disk[q]
    BY OwnedStays
  <2> QED
    BY <2>1, <2>2
<1>3. LocalTypes(d)'
  BY DEF CommandFacts, LocalTypes
<1>4. Sealable(d)'
  BY <1>1 DEF CommandFacts, Sealable, Inside
<1>5. Importing(d)'
  BY <1>1 DEF CommandFacts, Importing, Inside
<1>6. Running(d)'
  BY <1>1 DEF CommandFacts, Running, Begins, Inside
<1>7. Reads(d)'
  <2>1. cmd[d].at \in Reading \cup {"copying", "make"} => r \in Runs
    BY <1>0 DEF CommandInv, Known, Reading
  <2>2. cmd[d].at \in Reading \cup {"copying"} => Grows(r)
    BY <1>2, <2>1
  <2>3. cmd[d].at = "prefix" => Begins(cmd[d].seen, cmd[d].reading)'
    <3>1. cmd[d].at = "prefix" =>
             cmd[d].reading \in Runs /\ Begins(cmd[d].seen, cmd[d].reading)
      BY DEF CommandFacts, Reads, Reading
    <3> QED
      BY <1>2, <3>1 DEF Grows, Begins
  <2>4. cmd[d].at = "make" /\ cmd[d].job = "warm" => disk'[r] = disk[r]
    BY <2>1, Frozen DEF CommandFacts, Reads
  <2>5. cmd[d].at = "make" =>
          IF cmd[d].job = "warm"
          THEN IsSealed(r)' /\ cmd[d].seen = disk'[r].seal
          ELSE cmd[d].seen = Absent
    BY <2>4 DEF CommandFacts, Reads, IsSealed
  <2> QED
    BY <2>2, <2>3, <2>5 DEF CommandFacts, Reads, Grows
<1> QED
  BY <1>3, <1>4, <1>5, <1>6, <1>7 DEF CommandFacts

\* What a run inherits does not change any more.
LEMMA ParentStays ==
  ASSUME StoreInv, [Next]_vars, NEW r \in Runs, RunFacts(r), disk[r].parent # NoRun
  PROVE  /\ disk[r].parent \in Runs /\ disk'[disk[r].parent] = disk[disk[r].parent]
         /\ disk[r].made
<1>1. disk[r].parent \in Runs /\ IsSealed(disk[r].parent) /\ disk[r].made
  BY DEF RunFacts, FileTypes, Bound
<1> QED
  BY <1>1, Frozen

LEMMA ArtifactsStay ==
  ASSUME DiskTyped, NEW r \in Runs, NEW files \in SUBSET {"listing", "seal"}, Same(r, files)
  PROVE  Artifacts(disk'[r]) = Artifacts(disk[r])
<1> DEFINE art(d) == [f \in Files |-> IF f \in {"listing", "seal"} THEN Absent ELSE d[f]]
<1>1. disk[r] = [f \in Files |-> disk[r][f]] /\ disk'[r] = [f \in Files |-> disk'[r][f]]
  BY DEF DiskTyped, Same
<1>2. Artifacts(disk[r]) = art(disk[r])
  BY <1>1 DEF Artifacts, Files
<1>3. Artifacts(disk'[r]) = art(disk'[r])
  BY <1>1 DEF Artifacts, Files
<1>4. \A f \in Files : f \in {"listing", "seal"} \/ disk'[r][f] = disk[r][f]
  BY DEF Same
<1>5. art(disk'[r]) = art(disk[r])
  BY <1>4
<1> QED
  BY <1>2, <1>3, <1>5

LEMMA FileTypesKept ==
  ASSUME StoreInv, StoreFacts, NEW c \in Commands, NEW r \in Runs,
         disk'[r] = disk[r] \/ Writers(c, r) \/ Tears(c, r)
  PROVE  FileTypes(r)'
<1>0. FileTypes(r) /\ CommandFacts(c) /\ CommandInv(c)
  BY DEF StoreFacts, RunFacts, StoreInv
<1>1. CASE Makes(c, r)
  <2>1. CASE cmd[c].job = "warm"
    <3>1. cmd[c].run \in Runs \ {r}
      BY <1>0, <1>1, <2>1 DEF Makes, New, CommandFacts, LocalTypes, CommandInv, Known
    <3>2. cmd[c].seen # Absent
      BY <1>0, <1>1, <2>1 DEF Makes, CommandFacts, Reads, IsSealed
    <3>3. disk'[r].parent = cmd[c].run /\ disk'[r].snapshot # Absent
      BY <1>1, <2>1, <3>2 DEF Makes
    <3> QED
      BY <1>0, <1>1, <3>1, <3>3, StoreAssumption DEF Makes, Same, Files, FileTypes
  <2>2. CASE cmd[c].job # "warm"
    <3>1. cmd[c].seen = Absent
      BY <1>0, <1>1, <2>2 DEF Makes, CommandFacts, Reads
    <3> QED
      BY <1>0, <1>1, <2>2, <3>1 DEF Makes, Same, Files, FileTypes
  <2> QED
    BY <2>1, <2>2
<1>2. CASE OwnWrite(c, r)
  <2>1. Missing(c) \subseteq Eligible
    BY DEF Missing, Importable
  <2>2. \A f \in {"parent", "snapshot", "torn"} : disk'[r][f] = disk[r][f]
    BY <1>2 DEF OwnWrite, Worked, Unreported, Adds, Same, Files
  <2>3. disk'[r].files \in {disk[r].files, disk[r].files + 1}
    BY <1>2 DEF OwnWrite, Worked, Unreported, Adds, Same, Files
  <2>4. disk'[r].claims \in {disk[r].claims, Claims}
    BY <1>2 DEF OwnWrite, Worked, Unreported, Adds, Same, Files
  <2>5. disk'[r].copies = disk[r].copies \/ \E m \in Missing(c) : disk'[r].copies = disk[r].copies \cup {m}
    BY <1>2 DEF OwnWrite, Worked, Unreported, Adds, Same, Files
  <2>6. disk'[r].end = disk[r].end \/ disk'[r].end \in Writes
    BY <1>2 DEF OwnWrite, Worked, Unreported, Adds, Same, Files
  <2> QED
    BY <1>0, <2>1, <2>2, <2>3, <2>4, <2>5, <2>6 DEF FileTypes
<1>3. CASE Creates(c, r) \/ disk'[r] = disk[r]
  BY <1>0, <1>3 DEF Creates, Adds, Same, Files, FileTypes
<1>4. CASE Tears(c, r)
  BY <1>0, <1>4 DEF Tears, Same, Files, FileTypes
<1> QED
  BY <1>1, <1>2, <1>3, <1>4 DEF Writers

LEMMA BoundKept ==
  ASSUME StoreInv, StoreFacts, [Next]_vars, NEW c \in Commands, NEW r \in Runs,
         disk'[r] = disk[r] \/ Writers(c, r) \/ Tears(c, r)
  PROVE  Bound(r)'
<1>0. RunFacts(r) /\ CommandFacts(c) /\ CommandInv(c)
  BY DEF StoreFacts, StoreInv
<1>1. CASE Makes(c, r)
  <2>1. CASE cmd[c].job = "warm"
    <3>1. cmd[c].run \in Runs /\ IsSealed(cmd[c].run) /\ cmd[c].seen = disk[cmd[c].run].seal
      BY <1>0, <1>1, <2>1 DEF Makes, CommandFacts, Reads, CommandInv, Known
    <3>2. disk'[cmd[c].run] = disk[cmd[c].run]
      BY <3>1, Frozen
    <3> QED
      BY <1>1, <2>1, <3>1, <3>2 DEF Makes, Bound, IsSealed
  <2>2. CASE cmd[c].job # "warm"
    BY <1>1, <2>2 DEF Makes, Bound
  <2> QED
    BY <2>1, <2>2
<1>2. CASE ~Makes(c, r)
  <2>1. disk'[r].parent = disk[r].parent /\ disk'[r].snapshot = disk[r].snapshot
        /\ disk'[r].made = disk[r].made
    BY <1>2, WriterFiles DEF Writers, MadeFiles
  <2> QED
    BY <1>0, <2>1, ParentStays DEF RunFacts, Bound, IsSealed
<1> QED
  BY <1>1, <1>2

LEMMA InheritsKept ==
  ASSUME StoreInv, StoreFacts, [Next]_vars, NEW c \in Commands, NEW r \in Runs,
         disk'[r] = disk[r] \/ Writers(c, r) \/ Tears(c, r)
  PROVE  Inherits(r)'
<1>0. RunFacts(r) /\ CommandFacts(c) /\ CommandInv(c) /\ disk[r].chain \in Seq(Events)
  BY DEF StoreFacts, StoreInv, DiskTyped
<1>1. CASE Makes(c, r)
  <2>1. disk[r].parent = NoRun /\ disk[r].chain = <<>>
    BY <1>0, <1>1 DEF Makes, RunFacts, Bound, StoreInv, RunsGrow
  <2>2. disk'[r].copies = {} /\ disk'[r].chain = <<>>
    BY ZenonT(60), <1>0, <1>1, <2>1 DEF Makes, Same, Files, RunFacts, Inherits
  <2> QED
    BY <2>2 DEF Inherits, Contains
<1>2. CASE ~Makes(c, r)
  <2> DEFINE all == Inheritance(r)
  <2>0. disk'[r].parent = disk[r].parent
    BY <1>2, WriterFiles DEF Writers, MadeFiles
  <2>1. disk[r].parent # NoRun => Inheritance(r)' = all
    BY <1>0, <2>0, ParentStays DEF Inheritance
  <2>2. ASSUME NEW kind \in Events \ {"memory.imported", "campaign"},
               disk'[r].chain = Append(disk[r].chain, kind), disk'[r].copies = disk[r].copies
        PROVE  Inherits(r)'
    BY <1>0, <2>0, <2>1, <2>2, ContainsMore DEF RunFacts, Inherits
  <2>3. CASE disk'[r].chain = disk[r].chain /\ disk'[r].copies = disk[r].copies
    BY <1>0, <2>0, <2>1, <2>3 DEF RunFacts, Inherits
  <2>4. CASE /\ disk'[r].chain = Append(disk[r].chain, "campaign")
             /\ disk'[r].copies = disk[r].copies
             /\ cmd[c].at \in {"play", "working"} /\ r = cmd[c].run
    <3>1. disk[r].parent # NoRun => Contains(disk[r].chain, "memory.imported")
      BY <1>0, <2>4 DEF CommandFacts, Importing
    <3> QED
      BY <1>0, <2>0, <2>1, <2>4, <3>1, ContainsMore DEF RunFacts, Inherits, Events
  <2>5. cmd[c].at = "copying" /\ r = cmd[c].run =>
           /\ disk[r].parent # NoRun /\ Missing(c) = all \ disk[r].copies
           /\ ~Contains(disk[r].chain, "memory.imported")
    BY <1>0, StoreAssumption DEF CommandFacts, Importing, Reads, Missing, Importable, Inheritance
  <2>6. CASE /\ cmd[c].at = "copying" /\ r = cmd[c].run /\ disk'[r].chain = disk[r].chain
             /\ \E m \in Missing(c) : disk'[r].copies = disk[r].copies \cup {m}
    <3>1. disk[r].copies \subseteq all
      BY <1>0, <2>5, <2>6 DEF RunFacts, Inherits
    <3>2. disk'[r].copies \subseteq all
      BY <2>5, <2>6, <3>1
    <3> QED
      BY <1>0, <2>0, <2>1, <2>5, <2>6, <3>2 DEF RunFacts, Inherits
  <2>7. CASE /\ cmd[c].at = "copying" /\ r = cmd[c].run /\ Missing(c) = {}
             /\ disk'[r].chain = Append(disk[r].chain, "memory.imported")
             /\ disk'[r].copies = disk[r].copies
    <3>1. Contains(disk'[r].chain, "memory.imported")
      BY <1>0, <2>7, ContainsMore DEF Events
    <3>2. all \subseteq disk[r].copies
      BY <2>5, <2>7
    <3> QED
      BY <1>0, <2>0, <2>1, <2>5, <2>7, <3>1, <3>2 DEF RunFacts, Inherits
  <2>8. CASE OwnWrite(c, r)
    <3>1. \A kind \in Events : Adds(r, kind) =>
             disk'[r].chain = Append(disk[r].chain, kind) /\ disk'[r].copies = disk[r].copies
      BY DEF Adds, Same, Files
    <3>2. \A files \in SUBSET (Files \ {"copies"}) :
             Same(r, files) => disk'[r].copies = disk[r].copies
      BY DEF Same, Files
    <3>3. \A files \in SUBSET (Files \ {"chain"}) :
             Same(r, files) => disk'[r].chain = disk[r].chain
      BY DEF Same, Files
    <3> HIDE DEF all
    <3> QED
      BY <2>2, <2>3, <2>4, <2>6, <2>7, <2>8, <3>1, <3>2, <3>3
         DEF OwnWrite, Worked, Unreported, Events, Files
  <2>9. CASE Creates(c, r)
    BY <2>2, <2>9 DEF Creates, Adds, Same, Files, Events
  <2>10. CASE Tears(c, r) \/ disk'[r] = disk[r]
    BY <2>3, <2>10 DEF Tears, Same, Files
  <2> QED
    BY <1>2, <2>8, <2>9, <2>10 DEF Writers
<1> QED
  BY <1>1, <1>2

LEMMA SealKept ==
  ASSUME StoreInv, StoreFacts, [Next]_vars, NEW c \in Commands, NEW r \in Runs,
         disk'[r] = disk[r] \/ Writers(c, r) \/ Tears(c, r)
  PROVE  IsSealed(r)' => SealHolds(disk'[r])
<1>0. RunFacts(r) /\ CommandFacts(c) /\ CommandInv(c) /\ DiskTyped
  BY DEF StoreFacts, StoreInv
<1>1. CASE IsSealed(r)
  BY <1>0, <1>1, Frozen DEF RunFacts
<1>2. CASE ~IsSealed(r) /\ disk'[r].seal = disk[r].seal
  BY <1>2 DEF IsSealed
<1>3. CASE /\ cmd[c].at = "sealing" /\ r = cmd[c].run /\ Same(r, {"seal"})
           /\ disk'[r].seal = [listing |-> disk[r].listing, chain |-> disk[r].chain]
  <2>1. /\ disk[r].listing = Artifacts(disk[r]) /\ Last(disk[r].chain) = "run.sealed"
        /\ Loads(disk[r])
    BY <1>0, <1>3 DEF CommandFacts, Sealable
  <2>2. Artifacts(disk'[r]) = Artifacts(disk[r])
    BY <1>0, <1>3, ArtifactsStay
  <2>3. /\ disk'[r].listing = disk[r].listing /\ disk'[r].chain = disk[r].chain
        /\ disk'[r].end = disk[r].end
    BY <1>3 DEF Same, Files
  <2> QED
    BY <1>3, <2>1, <2>2, <2>3 DEF SealHolds, Loads
<1>4. CASE OwnWrite(c, r)
  <2>1. ASSUME NEW files, Same(r, files), "seal" \notin files PROVE disk'[r].seal = disk[r].seal
    BY <2>1 DEF Same, Files
  <2>2. \/ \E files \in {{"chain", "end"}, {"chain", "end", "files", "claims"},
                        {"files", "claims"}, {"checkpoint"}, {"files"}, {"copies"},
                        {"listing"}} : Same(r, files)
        \/ /\ cmd[c].at = "sealing" /\ r = cmd[c].run /\ Same(r, {"seal"})
           /\ disk'[r].seal = [listing |-> disk[r].listing, chain |-> disk[r].chain]
    BY <1>4 DEF OwnWrite, Worked, Unreported, Adds
  <2>3. ~IsSealed(r)
    BY <1>4 DEF OwnWrite
  <2> QED
    BY <1>2, <1>3, <2>1, <2>2, <2>3
<1>5. CASE Makes(c, r) \/ Creates(c, r) \/ Tears(c, r)
  <2>1. disk'[r].seal = disk[r].seal
    BY <1>5 DEF Makes, Creates, Tears, Adds, Same, Files
  <2> QED
    BY <1>1, <1>2, <2>1
<1> QED
  BY <1>1, <1>2, <1>4, <1>5 DEF Writers

LEMMA RunFactsKept ==
  ASSUME StoreInv, StoreFacts, [Next]_vars, NEW c \in Commands, NEW r \in Runs,
         disk'[r] = disk[r] \/ Writers(c, r) \/ Tears(c, r)
  PROVE  RunFacts(r)'
<1>1. Begins(disk[r].checkpoint, r)'
  <2>1. Begins(disk[r].checkpoint, r) /\ CommandFacts(c) /\ Grows(r)
    BY RunGrows DEF StoreFacts, RunFacts
  <2>2. \/ disk'[r].checkpoint = disk[r].checkpoint
        \/ disk'[r].checkpoint = cmd[c].seen /\ cmd[c].at = "working" /\ r = cmd[c].run
    <3>1. ASSUME NEW files, Same(r, files), "checkpoint" \notin files
          PROVE  disk'[r].checkpoint = disk[r].checkpoint
      BY <3>1 DEF Same, Files
    <3>2. CASE OwnWrite(c, r)
      <4>1. \/ \E files \in {{"chain", "end"}, {"chain", "end", "files", "claims"},
                            {"files", "claims"}, {"files"}, {"copies"}, {"listing"}, {"seal"}} :
                  Same(r, files)
            \/ disk'[r].checkpoint = cmd[c].seen /\ cmd[c].at = "working" /\ r = cmd[c].run
        BY <3>2 DEF OwnWrite, Worked, Unreported, Adds
      <4> QED
        BY <3>1, <4>1
    <3>3. CASE Makes(c, r) \/ Creates(c, r) \/ Tears(c, r)
      BY <3>1, <3>3 DEF Makes, Creates, Tears, Adds
    <3> QED
      BY <3>2, <3>3 DEF Writers
  <2> QED
    BY <2>1, <2>2 DEF Begins, Grows, CommandFacts, Running
<1> QED
  BY <1>1, FileTypesKept, BoundKept, InheritsKept, SealKept DEF RunFacts

-----------------------------------------------------------------------------
\* The facts of the command that moves.

\* A command that has ended.
LEMMA EndFacts ==
  ASSUME NEW c \in Commands, cmd'[c] = NotStarted, lease'[c].step # "owned"
  PROVE  CommandFacts(c)'
BY DEF NotStarted, CommandFacts, LocalTypes, Reads, Sealable, Importing, Running, Places, Jobs,
       Reading

LEMMA FailFacts ==
  ASSUME StoreInv, StoreFacts, NEW c \in Commands, Fail(c), UNCHANGED leaseVars,
         cmd[c].at # "discard"
  PROVE  CommandFacts(c)'
<1>0. CmdTyped /\ CommandFacts(c) /\ lease'[c] = lease[c]
  BY DEF StoreInv, StoreFacts, leaseVars
<1>1. CASE cmd[c].leased
  <2>1. Kept(c) /\ cmd'[c].at = "release"
    BY <1>0, <1>1, Goes DEF Fail
  <2> QED
    BY <1>0, <2>1 DEF Kept, CommandFacts, LocalTypes, Reads, Sealable, Importing, Running,
                      Places, Reading
<1>2. CASE ~cmd[c].leased
  <2>1. cmd'[c] = NotStarted
    BY <1>0, <1>2, Stops DEF Fail
  <2> QED
    BY <1>0, <1>2, <2>1, EndFacts DEF CommandFacts, LocalTypes
<1> QED
  BY <1>1, <1>2

\* A place at which nothing has to be known of the run.
LEMMA PlainFacts ==
  ASSUME StoreFacts, NEW c \in Commands, Kept(c), lease'[c] = lease[c],
         cmd[c].at # "discard",
         cmd'[c].at \in {"acquire", "creation", "started", "persist", "anchor", "release",
                         "locking"}
  PROVE  CommandFacts(c)'
BY DEF StoreFacts, Kept, CommandFacts, LocalTypes, Reads, Sealable, Importing, Running, Places,
       Reading

LEMMA OpenFacts ==
  ASSUME StoreInv, StoreFacts, NEW c \in Commands, Open(c)
  PROVE  CommandFacts(c)'
<1>0. /\ CmdTyped /\ CommandFacts(c) /\ lease'[c] = lease[c] /\ UNCHANGED <<leaseVars, disk>>
      /\ cmd[c].at \in {"open", "prefix", "seal"}
  BY DEF StoreInv, StoreFacts, Open, OpenManifest, CheckPrefix, CheckSeal, leaseVars
<1>1. CASE Fail(c)
  BY <1>0, <1>1, FailFacts
<1>2. ASSUME NEW place \in {"prefix", "seal", "opened"}, PeersWait(c), Kept(c),
             cmd'[c].at = place, cmd'[c].reading = cmd[c].reading,
             place = "prefix" => Begins(cmd'[c].seen, cmd[c].reading)
      PROVE  CommandFacts(c)'
  <2>1. LocalTypes(c)' /\ Sealable(c)' /\ Importing(c)' /\ Running(c)'
    BY <1>0, <1>2 DEF Kept, CommandFacts, LocalTypes, Sealable, Importing, Running, Places
  <2>2. Reads(c)'
    BY <1>0, <1>2 DEF Kept, CommandFacts, Reads, Reading, Begins
  <2> QED
    BY <2>1, <2>2 DEF CommandFacts
<1>3. CASE OpenManifest(c)
  <2>1. CASE disk[cmd[c].reading].chain # <<>> /\ Loads(disk[cmd[c].reading])
    <3> DEFINE seen == disk[cmd[c].reading].checkpoint
    <3>1. cmd' = [cmd EXCEPT ![c].at = "prefix", ![c].seen = seen] /\ cmd[c].at = "open"
      BY <1>3, <2>1 DEF OpenManifest
    <3>2. Begins(seen, cmd[c].reading)
      BY <1>0, <3>1 DEF CommandFacts, Reads, Reading, StoreFacts, RunFacts
    <3> HIDE DEF seen
    <3>3. cmd'[c].seen = seen
      BY <1>0, <3>1 DEF CmdTyped, Locals
    <3> QED
      BY <1>0, <1>2, <3>1, <3>2, <3>3, Sees
  <2> QED
    BY <1>1, <1>3, <2>1 DEF OpenManifest
<1>4. CASE CheckPrefix(c)
  <2>1. CASE cmd' = [cmd EXCEPT ![c].at = "seal", ![c].seen = Absent]
    BY <1>0, <1>2, <2>1, Sees
  <2> QED
    BY <1>1, <1>4, <2>1 DEF CheckPrefix
<1>5. CASE CheckSeal(c)
  <2>1. CASE Goto(c, "opened")
    BY <1>0, <1>2, <2>1, Goes
  <2> QED
    BY <1>1, <1>5, <2>1 DEF CheckSeal
<1> QED
  BY <1>3, <1>4, <1>5 DEF Open

LEMMA OpenedFacts ==
  ASSUME StoreInv, StoreFacts, NEW c \in Commands, Opened(c)
  PROVE  CommandFacts(c)'
<1>0. /\ CmdTyped /\ CommandFacts(c) /\ CommandInv(c) /\ lease'[c] = lease[c]
      /\ UNCHANGED <<leaseVars, disk>> /\ cmd[c].at = "opened"
  BY DEF StoreInv, StoreFacts, Opened, OpenedResume, OpenedReport, OpenedWarm, OpenedImport,
         leaseVars
<1>1. CASE Fail(c)
  BY <1>0, <1>1, FailFacts
<1>2. ASSUME NEW place \in {"acquire", "started", "release", "persist"}, Goto(c, place)
      PROVE  CommandFacts(c)'
  BY <1>0, <1>2, Goes, PlainFacts
<1>3. CASE OpenedResume(c)
  <2>1. CASE OpenParent(c) /\ HasParentToRead(c)
    <3> DEFINE parent == disk[cmd[c].run].parent
    <3>1. parent \in Runs
      BY <1>0, <2>1 DEF HasParentToRead, CommandInv, Known, StoreFacts, RunFacts, FileTypes
    <3>2. cmd' = [cmd EXCEPT ![c].at = "open", ![c].reading = parent]
      BY <2>1 DEF OpenParent
    <3> HIDE DEF parent
    <3>3. Kept(c) /\ cmd'[c].at = "open" /\ cmd'[c].reading = parent
      BY <1>0, <3>2 DEF CmdTyped, Locals, Kept
    <3>4. LocalTypes(c)' /\ Sealable(c)' /\ Importing(c)' /\ Running(c)'
      BY <1>0, <3>3 DEF Kept, CommandFacts, LocalTypes, Sealable, Importing, Running, Places
    <3>5. Reads(c)'
      BY <1>0, <3>1, <3>3 DEF Kept, CommandFacts, Reads, Reading, parent
    <3> QED
      BY <3>4, <3>5 DEF CommandFacts
  <2>2. CASE Goto(c, IF cmd[c].leased THEN "started" ELSE "acquire")
    BY <1>2, <2>2
  <2> QED
    BY <1>1, <1>3, <2>1, <2>2 DEF OpenedResume
<1>4. CASE OpenedReport(c) \/ OpenedWarm(c)
  BY <1>2, <1>4 DEF OpenedReport, OpenedWarm
<1>5. CASE OpenedImport(c)
  <2>1. CASE Goto(c, "play") /\ Contains(disk[cmd[c].run].chain, "memory.imported")
    <3>1. Kept(c) /\ cmd'[c].at = "play"
      BY <1>0, <2>1, Goes
    <3> QED
      BY <1>0, <2>1, <3>1 DEF Kept, CommandFacts, LocalTypes, Reads, Sealable, Importing,
                              Running, Places, Reading
  <2>2. CASE Goto(c, "copying") /\ ~Contains(disk[cmd[c].run].chain, "memory.imported")
    <3>1. Kept(c) /\ cmd'[c].at = "copying" /\ cmd'[c].reading = cmd[c].reading
      BY <1>0, <2>2, Goes
    <3>2. cmd[c].job = "import"
      BY <1>5 DEF OpenedImport
    <3> QED
      BY <1>0, <2>2, <3>1, <3>2 DEF Kept, CommandFacts, LocalTypes, Reads, Sealable, Importing,
                                    Running, Places, Reading
  <2> QED
    BY <1>1, <1>5, <2>1, <2>2 DEF OpenedImport
<1> QED
  BY <1>3, <1>4, <1>5 DEF Opened

LEMMA StartFacts ==
  ASSUME StoreInv, StoreFacts, NEW c \in Commands, NEW r \in Runs,
         \/ StartCold(c, r)
         \/ \E job \in {"resume", "report"} : StartOn(c, job, r)
         \/ \E child \in Runs \ {r} : StartWarm(c, r, child)
  PROVE  CommandFacts(c)'
<1>0. CmdTyped /\ CommandFacts(c) /\ cmd[c] = NotStarted /\ UNCHANGED <<leaseVars, disk>>
  BY DEF StoreInv, StoreFacts, StartCold, StartOn, StartWarm, Begin
<1>1. lease'[c].step # "owned"
  BY <1>0 DEF NotStarted, CommandFacts, LocalTypes, leaseVars
<1>2. ASSUME NEW job \in Jobs, NEW place \in {"make", "open"},
             cmd'[c].at = place, cmd'[c].job = job, cmd'[c].run = r, ~cmd'[c].leased,
             cmd'[c].leased \in BOOLEAN, cmd'[c].seen = Absent,
             job \in {"warm", "inherit"} => cmd'[c].child \in Runs \ {r},
             place = "open" => disk[r].made /\ cmd'[c].reading = r /\ job # "import",
             place = "make" => job # "warm"
      PROVE  CommandFacts(c)'
  BY <1>0, <1>1, <1>2 DEF CommandFacts, LocalTypes, Reads, Sealable, Importing, Running, Places,
                          Reading
<1>3. CASE StartCold(c, r)
  <2>1. cmd'[c] = [NotStarted EXCEPT !.at = "make", !.job = "campaign", !.run = r]
    BY <1>0, <1>3 DEF StartCold, Begin, CmdTyped
  <2> QED
    BY <1>2, <2>1 DEF NotStarted, Jobs
<1>4. ASSUME NEW job \in {"resume", "report"}, StartOn(c, job, r)
      PROVE  CommandFacts(c)'
  <2>1. cmd'[c] = [NotStarted EXCEPT !.at = "open", !.job = job, !.run = r, !.reading = r]
        /\ disk[r].made
    BY <1>0, <1>4 DEF StartOn, Begin, CmdTyped
  <2> QED
    BY <1>2, <2>1 DEF NotStarted, Jobs
<1>5. ASSUME NEW child \in Runs \ {r}, StartWarm(c, r, child)
      PROVE  CommandFacts(c)'
  <2>1. cmd'[c] = [NotStarted EXCEPT !.at = "open", !.job = "warm", !.run = r, !.reading = r,
                                     !.child = child]
        /\ disk[r].made
    BY <1>0, <1>5 DEF StartWarm, Begin, CmdTyped
  <2> QED
    BY <1>2, <2>1 DEF NotStarted, Jobs
<1> QED
  BY <1>3, <1>4, <1>5

LEMMA LeaseFacts ==
  ASSUME StoreInv, StoreFacts, NEW c \in Commands, Lease(c)
  PROVE  CommandFacts(c)'
<1>0. CmdTyped /\ CommandFacts(c) /\ CommandInv(c) /\ UNCHANGED disk
      /\ lease = [d \in Commands |-> lease[d]]
  BY DEF StoreInv, StoreFacts, LeaseInv, LeaseTypeOK, Lease, Acquire, TryLock, Release,
         DiscardLease
<1>1. CASE Acquire(c)
  <2>1. CASE Fail(c) /\ UNCHANGED leaseVars
    BY <1>1, <2>1, FailFacts DEF Acquire
  <2>2. CASE Register(c, cmd[c].run) /\ Goto(c, "locking")
    <3>1. Kept(c) /\ cmd'[c].at = "locking"
      BY <1>0, <2>2, Goes
    <3>2. lease[c] = NoLease /\ lease'[c] = At("registered", cmd[c].run)
      BY <1>0, <2>2 DEF Register
    <3>3. ~cmd[c].leased
      BY <1>0, <1>1, <3>2 DEF Acquire, CommandFacts, LocalTypes, NoLease
    <3> QED
      BY <1>0, <3>1, <3>2, <3>3 DEF Kept, At, CommandFacts, LocalTypes, Reads, Sealable,
                                    Importing, Running, Places, Reading
  <2> QED
    BY <1>1, <2>1, <2>2 DEF Acquire
<1>2. CASE TryLock(c)
  <2>1. cmd[c].at = "locking" /\ lease[c] = At("registered", cmd[c].run) /\ ~cmd[c].leased
    BY <1>0, <1>2 DEF TryLock, CommandInv, Leased, At, CmdTyped
  <2>2. CASE LockRefused(c) /\ Fail(c)
    <3>1. cmd'[c] = NotStarted
      BY <1>0, <2>1, <2>2, Stops DEF Fail
    <3>2. lease'[c] = NoLease
      BY <1>0, <2>2 DEF LockRefused
    <3> QED
      BY <3>1, <3>2, EndFacts DEF NoLease
  <2>3. CASE /\ Lock(c)
             /\ cmd' = [cmd EXCEPT ![c].at = AfterLease(cmd[c].job), ![c].leased = TRUE,
                                   ![c].reading = cmd[c].run]
    <3> DEFINE place == AfterLease(cmd[c].job)
               run == cmd[c].run
    <3>0. /\ place \in {"started", "freeze", "open"}
          /\ place = "freeze" => cmd[c].job = "warm"
      BY DEF AfterLease
    <3> HIDE DEF place, run
    <3>1. cmd'[c] = [cmd[c] EXCEPT !.at = place, !.leased = TRUE, !.reading = run]
      BY <1>0, <2>3 DEF CmdTyped, place, run
    <3>2. /\ cmd'[c].at = place /\ cmd'[c].leased = TRUE /\ cmd'[c].reading = run
          /\ cmd'[c].run = cmd[c].run /\ cmd'[c].job = cmd[c].job
          /\ cmd'[c].child = cmd[c].child
      BY <1>0, <3>1 DEF CmdTyped, Locals
    <3>3. lease'[c].step = "owned" /\ lease'[c].run = cmd[c].run
      BY <1>0, <2>1, <2>3 DEF Lock, At
    <3>4. run \in Runs /\ disk[run].made /\ cmd[c].job # "import"
      BY <1>0, <2>1 DEF CommandInv, Known, Opening, NoImport, StoreInv, RunsGrow, run
    <3>5. LocalTypes(c)'
      BY <1>0, <3>0, <3>2, <3>3 DEF CommandFacts, LocalTypes, Places
    <3>6. Reads(c)'
      BY <1>0, <3>0, <3>2, <3>4 DEF Reads, Reading, run
    <3> QED
      BY <3>0, <3>2, <3>5, <3>6 DEF CommandFacts, Sealable, Importing, Running
  <2> QED
    BY <1>2, <2>2, <2>3 DEF TryLock
<1>3. CASE Release(c)
  <2>1. Kept(c) /\ cmd'[c].at = "discard" /\ cmd[c].at = "release"
    BY <1>0, <1>3, Goes DEF Release
  <2>2. cmd[c].leased /\ lease[c] = At("owned", cmd[c].run)
    BY <1>0, <2>1 DEF CommandInv, Leased, Inside
  <2>3. lease'[c].run = cmd[c].run
    BY <1>0, <1>3, <2>2 DEF Release, Unlock, At
  <2> QED
    BY <1>0, <2>1, <2>2, <2>3 DEF Kept, CommandFacts, LocalTypes, Reads, Sealable, Importing,
                                  Running, Places, Reading
<1>4. CASE DiscardLease(c)
  <2>1. lease'[c] = NoLease
    BY <1>0, <1>4 DEF DiscardLease, Discard
  <2>2. CASE cmd[c].job = "inherit"
    <3>1. cmd'[c] = [NotStarted EXCEPT !.at = "acquire", !.job = "campaign", !.run = cmd[c].child]
      BY <1>0, <1>4, <2>2 DEF DiscardLease, CmdTyped
    <3>2. cmd'[c].at = "acquire" /\ cmd'[c].job = "campaign" /\ cmd'[c].leased = FALSE
      BY <3>1 DEF NotStarted
    <3> QED
      BY <2>1, <3>2 DEF NoLease, CommandFacts, LocalTypes, Reads, Sealable, Importing,
                        Running, Places, Jobs, Reading
  <2>3. CASE cmd[c].job # "inherit"
    <3>1. cmd'[c] = NotStarted
      BY <1>0, <1>4, <2>3 DEF DiscardLease, CmdTyped
    <3> QED
      BY <2>1, <3>1, EndFacts DEF NoLease
  <2> QED
    BY <2>2, <2>3
<1> QED
  BY <1>1, <1>2, <1>3, <1>4 DEF Lease

LEMMA SealFacts ==
  ASSUME StoreInv, StoreFacts, NEW c \in Commands, Seal(c)
  PROVE  CommandFacts(c)'
<1> DEFINE r == cmd[c].run
<1>0. /\ CmdTyped /\ DiskTyped /\ CommandFacts(c) /\ CommandInv(c) /\ lease'[c] = lease[c]
      /\ UNCHANGED leaseVars /\ cmd[c].at \in {"freeze", "listing", "sealing"}
      /\ r \in Runs /\ disk[r].chain \in Seq(Events)
  BY IsInside DEF StoreInv, StoreFacts, Seal, Freeze, WriteListing, WriteSeal, leaseVars, Inside,
         DiskTyped
<1>1. cmd[c].job = "warm" /\ cmd[c].leased
  BY <1>0 DEF CommandFacts, LocalTypes, CommandInv, Leased, Inside
<1>2. ASSUME Kept(c), cmd'[c].at = "make", cmd'[c].seen = disk'[r].seal, disk'[r].seal # Absent
      PROVE  CommandFacts(c)'
  BY <1>0, <1>1, <1>2 DEF Kept, IsSealed, CommandFacts, LocalTypes, Reads, Sealable, Importing,
                          Running, Places, Reading
<1>3. ASSUME Kept(c), cmd'[c].at \in {"listing", "sealing"},
             Loads(disk'[r]), Last(disk'[r].chain) = "run.sealed",
             cmd'[c].at = "sealing" => disk'[r].listing = Artifacts(disk'[r])
      PROVE  CommandFacts(c)'
  BY <1>0, <1>1, <1>3 DEF Kept, CommandFacts, LocalTypes, Reads, Sealable, Importing,
                          Running, Places, Reading
<1>4. CASE Freeze(c)
  <2>1. CASE Fail(c)
    BY <1>0, <2>1, FailFacts
  <2>2. CASE /\ IsSealed(r) /\ UNCHANGED disk
             /\ cmd' = [cmd EXCEPT ![c].at = "make", ![c].seen = disk[r].seal]
    <3> DEFINE seal == disk[r].seal
    <3>1. cmd' = [cmd EXCEPT ![c].at = "make", ![c].seen = seal] /\ seal # Absent
      BY <2>2 DEF IsSealed
    <3> HIDE DEF seal
    <3>2. Kept(c) /\ cmd'[c].at = "make"
      BY <1>0, <3>1, Sees
    <3>3. cmd'[c].seen = seal
      BY <1>0, <3>1 DEF CmdTyped, Locals
    <3> QED
      BY <1>2, <2>2, <3>1, <3>2, <3>3 DEF seal
  <2>3. CASE AnchorSeal(c) /\ Goto(c, "listing")
    <3>0. PICK how \in Writes :
             /\ Write(r, Appended(disk[r], "run.sealed", how))
             /\ IF Loads(Appended(disk[r], "run.sealed", how))
                THEN Goto(c, "listing") ELSE Fail(c)
      BY <2>3 DEF AnchorSeal, Endings, Writes
    <3>1. disk'[r].chain = Append(disk[r].chain, "run.sealed")
      BY <1>0, <3>0, AddsOne DEF Adds
    <3>2. Last(disk'[r].chain) = "run.sealed"
      BY <1>0, <3>1, LastOfMore DEF Events
    <3>3. Kept(c) /\ cmd'[c].at = "listing"
      BY <1>0, <2>3, Goes
    <3>4. CASE Loads(Appended(disk[r], "run.sealed", how))
      <4>1. disk'[r] = Appended(disk[r], "run.sealed", how)
        BY <1>0, <3>0 DEF DiskTyped, Write
      <4> QED
        BY <1>3, <3>2, <3>3, <3>4, <4>1
    <3>5. CASE Fail(c)
      BY <1>0, <3>5, FailFacts
    <3> QED
      BY <3>0, <3>4, <3>5
  <2>4. AnchorSeal(c) => Goto(c, "listing") \/ Fail(c)
    BY DEF AnchorSeal
  <2> QED
    BY <1>4, <2>1, <2>2, <2>3, <2>4 DEF Freeze
<1>5. CASE WriteListing(c)
  <2> DEFINE listing == Artifacts(disk[r])
  <2>1. disk' = [disk EXCEPT ![r] = [disk[r] EXCEPT !["listing"] = listing]]
    BY <1>5 DEF WriteListing, Write
  <2> HIDE DEF listing
  <2>0. DiskTyped /\ r \in Runs
    BY <1>0
  <2>2. Same(r, {"listing"}) /\ disk'[r].listing = listing
    BY ZenonT(60), <2>0, <2>1, SetsOne DEF Files
  <2>3. Artifacts(disk'[r]) = listing
    BY <1>0, <2>2, ArtifactsStay DEF listing
  <2>4. disk'[r].chain = disk[r].chain /\ disk'[r].end = disk[r].end
    BY <2>2 DEF Same, Files
  <2>5. Loads(disk[r]) /\ Last(disk[r].chain) = "run.sealed"
    BY <1>0, <1>5 DEF WriteListing, CommandFacts, Sealable
  <2>6. Kept(c) /\ cmd'[c].at = "sealing"
    BY <1>0, <1>5, Goes DEF WriteListing
  <2> QED
    BY <1>3, <2>2, <2>3, <2>4, <2>5, <2>6 DEF Loads
<1>6. CASE WriteSeal(c)
  <2> DEFINE seal == [listing |-> disk[r].listing, chain |-> disk[r].chain]
  <2>0. seal # Absent
    BY DEF Absent
  <2>1. /\ disk' = [disk EXCEPT ![r] = [disk[r] EXCEPT !["seal"] = seal]]
        /\ cmd' = [cmd EXCEPT ![c].at = "make", ![c].seen = seal]
    BY <1>6 DEF WriteSeal, Write
  <2> HIDE DEF seal
  <2>2. disk'[r].seal = seal
    <3>1. DiskTyped /\ r \in Runs
      BY <1>0
    <3>2. disk' = [disk EXCEPT ![r] = [disk[r] EXCEPT !["seal"] = seal]]
      BY <2>1
    <3> QED
      BY ZenonT(60), <3>1, <3>2, SetsOne DEF Files
  <2>3. Kept(c) /\ cmd'[c].at = "make"
    BY <1>0, <2>1, Sees
  <2>4. cmd'[c].seen = seal
    BY <1>0, <2>1 DEF CmdTyped, Locals
  <2> QED
    BY <1>2, <2>0, <2>2, <2>3, <2>4
<1> QED
  BY <1>4, <1>5, <1>6 DEF Seal

LEMMA CreateFacts ==
  ASSUME StoreInv, StoreFacts, NEW c \in Commands, Create(c)
  PROVE  CommandFacts(c)'
<1>0. /\ CmdTyped /\ CommandFacts(c) /\ CommandInv(c) /\ lease'[c] = lease[c]
      /\ UNCHANGED leaseVars /\ cmd[c].at \in {"make", "creation"}
  BY DEF StoreInv, StoreFacts, Create, MakeRun, AppendCreation, leaseVars
<1>1. CASE Fail(c)
  BY <1>0, <1>1, FailFacts
<1>2. CASE Goto(c, "creation")
  BY <1>0, <1>2, Goes, PlainFacts
<1>3. CASE AppendCreation(c)
  <2>1. /\ cmd'[c].run = cmd[c].run /\ cmd'[c].child = cmd[c].child
        /\ cmd'[c].leased = cmd[c].leased
        /\ IF cmd[c].job = "warm"
           THEN cmd'[c].at = "release" /\ cmd'[c].job = "inherit"
           ELSE cmd'[c].at = "acquire" /\ cmd'[c].job = cmd[c].job
    BY <1>0, <1>3 DEF AppendCreation, CmdTyped, Locals
  <2> QED
    BY <1>0, <2>1 DEF CommandFacts, LocalTypes, Reads, Sealable, Importing, Running, Places, Jobs,
                      Reading
<1> QED
  BY <1>1, <1>2, <1>3 DEF Create, MakeRun

LEMMA ImportFacts ==
  ASSUME StoreInv, StoreFacts, NEW c \in Commands, Import(c)
  PROVE  CommandFacts(c)'
<1> DEFINE r == cmd[c].run
<1>0. /\ CmdTyped /\ DiskTyped /\ CommandFacts(c) /\ CommandInv(c) /\ lease'[c] = lease[c]
      /\ UNCHANGED leaseVars /\ cmd[c].at = "copying"
      /\ r \in Runs /\ disk[r].chain \in Seq(Events)
  BY IsInside DEF StoreInv, StoreFacts, Import, CopyClaim, EvidenceFails, AnchorImport, leaseVars,
         Inside, DiskTyped
<1>1. CASE Fail(c)
  BY <1>0, <1>1, FailFacts
<1>2. CASE CopyClaim(c)
  <2> DEFINE copies == disk[r].copies \cup {CHOOSE x \in Missing(c) : TRUE}
  <2>1. disk' = [disk EXCEPT ![r] = [disk[r] EXCEPT !["copies"] = copies]] /\ UNCHANGED cmd
    BY <1>2 DEF CopyClaim, Write
  <2> HIDE DEF copies
  <2>2. Same(r, {"copies"})
    <3>1. DiskTyped /\ r \in Runs
      BY <1>0
    <3> QED
      BY <2>1, <3>1, SetsOne DEF Files
  <2>3. \A f \in {"chain", "made", "parent"} : disk'[r][f] = disk[r][f]
    BY <2>2 DEF Same, Files
  <2> QED
    BY <1>0, <2>1, <2>3 DEF CommandFacts, LocalTypes, Reads, Sealable, Importing, Running, Reading
<1>3. CASE /\ \E how \in Writes : Write(r, Appended(disk[r], "memory.imported", how))
           /\ Goto(c, "play")
  <2>1. Kept(c) /\ cmd'[c].at = "play"
    BY <1>0, <1>3, Goes
  <2>2. disk'[r].chain = Append(disk[r].chain, "memory.imported")
    BY <1>0, <1>3, AddsOne DEF Adds
  <2>3. Contains(disk'[r].chain, "memory.imported")
    BY <1>0, <2>2, ContainsMore DEF Events
  <2> QED
    BY <1>0, <2>1, <2>3 DEF Kept, CommandFacts, LocalTypes, Reads, Sealable, Importing, Running,
                            Places, Reading
<1>4. CASE AnchorImport(c)
  BY <1>0, <1>1, <1>3, <1>4, EventAppended DEF AnchorImport, Goto
<1> QED
  BY <1>1, <1>2, <1>4 DEF Import, EvidenceFails

LEMMA CampaignFacts ==
  ASSUME StoreInv, StoreFacts, NEW c \in Commands, Campaign(c)
  PROVE  CommandFacts(c)'
<1> DEFINE r == cmd[c].run
           Now(s) == s \in Seq(Events) /\ IsPrefix(s, disk'[r].chain)
<1>0. /\ CmdTyped /\ DiskTyped /\ CommandFacts(c) /\ CommandInv(c) /\ lease'[c] = lease[c]
      /\ UNCHANGED leaseVars /\ cmd[c].at \in {"started", "play", "working", "persist", "anchor"}
      /\ r \in Runs /\ disk[r].chain \in Seq(Events)
  <2>1. cmd[c].at \in {"started", "play", "working", "persist", "anchor"} /\ UNCHANGED leaseVars
    BY DEF Campaign, ReviseLimits, Started, Play, Work, ReadHead, WriteCheckpoint, PersistReport,
           AnchorReport
  <2> QED
    BY <2>1, IsInside DEF StoreInv, StoreFacts, leaseVars, Inside, DiskTyped
<1>1. CASE Fail(c)
  BY <1>0, <1>1, FailFacts
<1>2. ASSUME NEW place \in {"anchor", "release"}, Goto(c, place)
      PROVE  CommandFacts(c)'
  BY <1>0, <1>2, Goes, PlainFacts
<1>3. CASE ReviseLimits(c)
  <2>1. cmd[c].at = "started"
    BY <1>3 DEF ReviseLimits
  <2>2. CASE cmd' = [cmd EXCEPT ![c] = cmd[c]]
    <3>1. UNCHANGED cmd
      BY <1>0, <2>2 DEF CmdTyped
    <3> QED
      BY <1>0, <2>1, <3>1, PlainFacts DEF Kept
  <2> QED
    BY <1>0, <1>1, <1>3, <2>2, EventAppended DEF ReviseLimits
<1>4. CASE Started(c)
  <2> DEFINE parent == disk[r].parent
  <2>1. CASE parent = NoRun /\ Goto(c, "play")
    <3>1. Kept(c) /\ cmd'[c].at = "play" /\ UNCHANGED disk
      BY <1>0, <1>4, <2>1, Goes DEF Started
    <3> QED
      BY <1>0, <2>1, <3>1 DEF Kept, CommandFacts, LocalTypes, Reads, Sealable, Importing, Running,
                              Places, Reading
  <2>2. CASE /\ parent # NoRun
             /\ cmd' = [cmd EXCEPT ![c].at = "open", ![c].job = "import", ![c].reading = parent]
    <3>1. parent \in Runs /\ disk[r].made /\ UNCHANGED disk
      BY <1>0, <1>4, <2>2 DEF Started, StoreFacts, RunFacts, FileTypes, Bound
    <3> HIDE DEF parent
    <3>2. /\ cmd'[c].at = "open" /\ cmd'[c].job = "import" /\ cmd'[c].reading = parent
          /\ cmd'[c].run = cmd[c].run /\ cmd'[c].leased = cmd[c].leased
      BY <1>0, <2>2 DEF CmdTyped, Locals
    <3>3. LocalTypes(c)' /\ Sealable(c)' /\ Importing(c)' /\ Running(c)'
      BY <1>0, <3>2 DEF CommandFacts, LocalTypes, Sealable, Importing, Running, Places, Jobs
    <3>4. Reads(c)'
      BY <1>0, <3>1, <3>2 DEF Reads, Reading, parent
    <3> QED
      BY <3>3, <3>4 DEF CommandFacts
  <2>3. CASE IsSealed(r) \/ (cmd[c].job = "resume" /\ disk[r].torn)
    BY <1>1, <1>4, <2>3 DEF Started
  <2>4. CASE ~(IsSealed(r) \/ (cmd[c].job = "resume" /\ disk[r].torn))
    BY <1>4, <2>1, <2>2, <2>4 DEF Started
  <2> QED
    BY <2>3, <2>4
<1>5. ASSUME NEW s, cmd'[c].at = "working", Kept(c), cmd'[c].seen = s, Now(s),
             disk[r].parent # NoRun => Contains(disk'[r].chain, "memory.imported"),
             disk'[r].parent = disk[r].parent
      PROVE  CommandFacts(c)'
  BY <1>0, <1>5 DEF Kept, CommandFacts, LocalTypes, Reads, Sealable, Importing, Running, Begins,
                    Places, Reading
<1>6. <<>> \in Seq(Events) /\ \A t \in Seq(Events) : IsPrefix(<<>>, t)
  BY DEF IsPrefix
<1>7. cmd[c].at \in {"play", "working"} /\ disk[r].parent # NoRun =>
         Contains(disk[r].chain, "memory.imported")
  BY <1>0 DEF CommandFacts, Importing
<1>8. CASE Play(c)
  <2> SUFFICES ASSUME ~Fail(c) PROVE CommandFacts(c)'
    BY <1>1
  <2>1. /\ cmd[c].at = "play"
        /\ \E how \in Writes : Write(r, Appended(disk[r], "campaign", how))
        /\ cmd' = [cmd EXCEPT ![c] = [cmd[c] EXCEPT !.at = "working", !.seen = Absent]]
    BY <1>0, <1>8, EventAppended DEF Play
  <2>2. Kept(c) /\ cmd'[c].at = "working" /\ cmd'[c].seen = <<>>
    BY <1>0, <2>1 DEF CmdTyped, Locals, Kept, Absent
  <2>3. disk'[r].chain = Append(disk[r].chain, "campaign") /\ disk'[r].parent = disk[r].parent
    BY <1>0, <2>1, AddsOne DEF Adds, Same, Files
  <2>4. disk[r].parent # NoRun => Contains(disk'[r].chain, "memory.imported")
    BY <1>0, <1>7, <2>1, <2>3, ContainsMore DEF Events
  <2>5. Append(disk[r].chain, "campaign") \in Seq(Events)
    BY <1>0 DEF Events
  <2>6. Now(<<>>)
    BY <1>6, <2>3, <2>5
  <2> QED
    BY <1>5, <2>2, <2>3, <2>4, <2>6
<1>9. CASE Work(c)
  <2> SUFFICES ASSUME ~Fail(c) PROVE CommandFacts(c)'
    BY <1>1
  <2>1. cmd[c].at = "working" /\ UNCHANGED cmd /\ Worked(r)
    BY <1>0, <1>9, WorkWrites DEF Work
  <2>2. disk'[r].chain = Append(disk[r].chain, "campaign") /\ disk'[r].parent = disk[r].parent
    BY <2>1 DEF Worked, Same, Files
  <2>3. disk[r].parent # NoRun => Contains(disk'[r].chain, "memory.imported")
    BY <1>0, <1>7, <2>1, <2>2, ContainsMore DEF Events
  <2>4. Begins(cmd[c].seen, r)
    BY <1>0, <2>1 DEF CommandFacts, Running
  <2>5. "campaign" \in Events
    BY DEF Events
  <2>6. Now(cmd[c].seen)
    BY <1>0, <2>2, <2>4, <2>5, ChainGrows DEF Begins
  <2> QED
    BY <1>5, <2>1, <2>2, <2>3, <2>6 DEF Kept
<1>10. CASE ReadHead(c)
  <2> DEFINE head == disk[r].chain
  <2> SUFFICES ASSUME ~Fail(c) PROVE CommandFacts(c)'
    BY <1>1
  <2>1. cmd[c].at = "working" /\ UNCHANGED disk /\ cmd' = [cmd EXCEPT ![c].seen = head]
    BY <1>10 DEF ReadHead
  <2>2. Now(head)
    BY <1>0, <2>1, ChainIsPrefix
  <2> HIDE DEF head
  <2>3. Kept(c) /\ cmd'[c].at = "working" /\ cmd'[c].seen = head
    BY <1>0, <2>1 DEF CmdTyped, Locals, Kept
  <2> QED
    BY <1>5, <1>7, <2>1, <2>2, <2>3
<1>11. CASE WriteCheckpoint(c)
  <2>1. cmd[c].at = "working" /\ cmd' = [cmd EXCEPT ![c].seen = Absent]
    BY <1>11 DEF WriteCheckpoint
  <2>2. disk'[r].chain = disk[r].chain /\ disk'[r].parent = disk[r].parent
    <3> DEFINE seen == cmd[c].seen
    <3>1. disk' = [disk EXCEPT ![r] = [disk[r] EXCEPT !["checkpoint"] = seen]]
      BY <1>11 DEF WriteCheckpoint, Write
    <3> HIDE DEF seen
    <3>2. DiskTyped /\ r \in Runs
      BY <1>0
    <3>3. Same(r, {"checkpoint"})
      BY <3>1, <3>2, SetsOne DEF Files
    <3> QED
      BY <3>3 DEF Same, Files
  <2>3. Kept(c) /\ cmd'[c].at = "working" /\ cmd'[c].seen = <<>>
    BY <1>0, <2>1 DEF CmdTyped, Locals, Kept, Absent
  <2>4. Now(<<>>)
    BY <1>0, <1>6, <2>2
  <2> QED
    BY <1>5, <1>7, <2>1, <2>2, <2>3, <2>4
<1>12. CASE PersistReport(c)
  BY <1>2, <1>12 DEF PersistReport
<1>13. CASE AnchorReport(c)
  BY <1>0, <1>1, <1>2, <1>13, EventAppended DEF AnchorReport, Goto
<1> QED
  BY <1>3, <1>4, <1>8, <1>9, <1>10, <1>11, <1>12, <1>13 DEF Campaign

-----------------------------------------------------------------------------
\* The facts hold initially and stay.

LEMMA CrashFacts ==
  ASSUME StoreInv, StoreFacts, NEW p \in Commands, Crash(p)
  PROVE  StoreFacts'
<1>0. DiskTyped /\ CmdTyped
  BY DEF StoreInv
<1>1. ASSUME NEW c \in Commands
      PROVE  \/ c \in Dead(p) /\ cmd'[c] = NotStarted /\ lease'[c] = NoLease
             \/ cmd'[c] = cmd[c] /\ lease'[c] = lease[c]
  BY DEF Crash, ProcessDies
<1>2. PICK torn \in BOOLEAN :
        disk' = [r \in Runs |-> IF Interrupted(p, r)
                                THEN [disk[r] EXCEPT !.torn = @ \/ torn] ELSE disk[r]]
  BY DEF Crash
<1>3. ASSUME NEW r \in Runs
      PROVE  disk'[r] = disk[r] \/ \E c \in Commands : Tears(c, r)
  <2>1. CASE Interrupted(p, r)
    <3>1. PICK c \in Dead(p) : cmd[c].at = "working" /\ cmd[c].run = r
      BY <2>1 DEF Interrupted
    <3>2. c \in Commands /\ cmd'[c] = NotStarted
      BY <1>1, <3>1 DEF Dead, Crash
    <3>3. cmd[c].leased /\ ~IsSealed(r)
      BY <3>1, <3>2 DEF StoreInv, CommandInv, Leased, Unsealed, Inside, Writing
    <3>4. disk[r].torn \in BOOLEAN
      BY DEF StoreFacts, RunFacts, FileTypes
    <3> DEFINE now == disk[r].torn \/ torn
    <3>5. now \in BOOLEAN
      OBVIOUS
    <3>6. disk'[r] = [disk[r] EXCEPT !.torn = now]
      BY <1>2, <2>1
    <3> HIDE DEF now
    <3>7. Same(r, {"torn"}) /\ disk'[r].torn = now
      BY <1>0, <3>6 DEF DiskTyped, Files, Same
    <3> QED
      BY <3>1, <3>2, <3>3, <3>5, <3>7 DEF Tears
  <2>2. CASE ~Interrupted(p, r)
    BY <1>2, <2>2
  <2> QED
    BY <2>1, <2>2
<1>4. [Next]_vars
  BY DEF Next
<1>5. ASSUME NEW r \in Runs
      PROVE  RunFacts(r)'
  BY <1>3, <1>4, RunFactsKept
<1>6. ASSUME NEW d \in Commands
      PROVE  CommandFacts(d)'
  <2>1. CASE cmd'[d] = NotStarted /\ lease'[d] = NoLease
    BY <2>1, EndFacts DEF NoLease
  <2>2. CASE cmd'[d] = cmd[d] /\ lease'[d] = lease[d] /\ cmd[d] # NotStarted
    <3>1. CommandFacts(d)
      BY DEF StoreFacts
    <3>2. ASSUME NEW r \in Runs
          PROVE  disk'[r] = disk[r] \/ \E c \in Commands \ {d} : Tears(c, r)
      BY <1>3, <2>2 DEF Tears
    <3> QED
      BY <1>4, <2>2, <3>1, <3>2, PeerFacts
  <2>3. CASE cmd'[d] = cmd[d] /\ lease'[d] = lease[d] /\ cmd[d] = NotStarted
    <3>1. LocalTypes(d) /\ ~cmd[d].leased
      BY <2>3 DEF StoreFacts, CommandFacts, NotStarted
    <3>2. lease'[d].step # "owned"
      BY <2>3, <3>1 DEF LocalTypes
    <3> QED
      BY <2>3, <3>2, EndFacts
  <2> QED
    BY <1>1, <2>1, <2>2, <2>3
<1> QED
  BY <1>5, <1>6 DEF StoreFacts, Crash

LEMMA MoveFacts ==
  ASSUME StoreInv, StoreFacts, [Next]_vars, NEW c \in Commands, Moves(c), CommandFacts(c)',
         started' \in 0..MaxStarts
  PROVE  StoreFacts'
<1>1. \A r \in Runs : RunFacts(r)'
  BY RunFactsKept DEF Moves
<1>2. ASSUME NEW d \in Commands \ {c}
      PROVE  CommandFacts(d)'
  <2>1. CommandFacts(d) /\ cmd'[d] = cmd[d] /\ lease'[d] = lease[d]
    BY DEF StoreFacts, Moves
  <2>2. \A r \in Runs : \/ disk'[r] = disk[r]
                        \/ \E e \in Commands \ {d} : Writers(e, r) \/ Tears(e, r)
    BY <1>2 DEF Moves
  <2> QED
    BY <2>1, <2>2, PeerFacts
<1> QED
  BY <1>1, <1>2 DEF StoreFacts

LEMMA FactsNext ==
  ASSUME StoreInv, StoreFacts, [Next]_vars
  PROVE  StoreFacts'
<1>1. CASE UNCHANGED vars
  <2>1. /\ UNCHANGED <<disk, cmd, started, lease>>
        /\ \A d \in Commands : cmd'[d] = cmd[d] /\ lease'[d] = lease[d]
        /\ \A r \in Runs : disk'[r] = disk[r]
    BY <1>1 DEF vars, leaseVars
  <2>2. \A d \in Commands : CommandFacts(d)'
    BY <2>1, PeerFacts DEF StoreFacts
  <2>3. \A r \in Runs : RunFacts(r)'
    BY <2>1 DEF StoreFacts, RunFacts, FileTypes, Bound, Inherits, Inheritance, Begins, IsSealed
  <2> QED
    BY <2>1, <2>2, <2>3 DEF StoreFacts
<1>2. ASSUME NEW p \in Commands, Crash(p) PROVE StoreFacts'
  BY <1>2, CrashFacts
<1>3. ASSUME NEW c \in Commands,
             Open(c) \/ Opened(c) \/ Lease(c) \/ Seal(c) \/ Create(c) \/ Import(c) \/ Campaign(c)
      PROVE  StoreFacts'
  <2>1. Moves(c)
    BY <1>3, StepMoves
  <2>2. CommandFacts(c)'
    BY <1>3, OpenFacts, OpenedFacts, LeaseFacts, SealFacts, CreateFacts, ImportFacts, CampaignFacts
  <2>3. UNCHANGED started
    BY <1>3 DEF Open, OpenManifest, CheckPrefix, CheckSeal, Opened, OpenedResume, OpenedReport,
       OpenedWarm, OpenedImport, Lease, Acquire, TryLock, Release, DiscardLease, Seal, Freeze,
       WriteListing, WriteSeal, Create, MakeRun, AppendCreation, Import, CopyClaim,
       EvidenceFails, AnchorImport, Campaign, ReviseLimits, Started, Play, Work, ReadHead,
       WriteCheckpoint, PersistReport, AnchorReport
  <2> QED
    BY <2>1, <2>2, <2>3, MoveFacts DEF StoreFacts
<1>4. ASSUME NEW c \in Commands, NEW r \in Runs,
             \/ StartCold(c, r)
             \/ \E job \in {"resume", "report"} : StartOn(c, job, r)
             \/ \E child \in Runs \ {r} : StartWarm(c, r, child)
      PROVE  StoreFacts'
  <2>1. \E command : Begin(c, command)
    BY <1>4 DEF StartCold, StartOn, StartWarm
  <2>2. Moves(c) /\ CommandFacts(c)'
    BY <1>4, <2>1, StepMoves, StartFacts
  <2>3. started' \in 0..MaxStarts
    BY <2>1, StoreAssumption DEF Begin, StoreFacts
  <2> QED
    BY <2>2, <2>3, MoveFacts
<1> QED
  BY <1>1, <1>2, <1>3, <1>4 DEF Next

LEMMA FactsInit ==
  ASSUME Init
  PROVE  StoreFacts
<1>1. started \in 0..MaxStarts
  BY StoreAssumption DEF Init
<1>2. ASSUME NEW r \in Runs
      PROVE  RunFacts(r)
  <2>1. disk[r] = NoFiles
    BY DEF Init
  <2>2. FileTypes(r) /\ Bound(r)
    BY <2>1 DEF NoFiles, FileTypes, Bound, Writes
  <2>3. Inherits(r)
    BY <2>1 DEF NoFiles, Inherits
  <2>4. Begins(disk[r].checkpoint, r)
    <3>1. disk[r].checkpoint = <<>> /\ disk[r].chain = <<>> /\ <<>> \in Seq(Events)
      BY <2>1 DEF NoFiles, Absent
    <3> QED
      BY <3>1, ChainIsPrefix DEF Begins
  <2>5. ~IsSealed(r)
    BY <2>1 DEF NoFiles, IsSealed
  <2> QED
    BY <2>2, <2>3, <2>4, <2>5 DEF RunFacts
<1>3. ASSUME NEW c \in Commands
      PROVE  CommandFacts(c)
  <2>1. cmd[c] = NotStarted /\ lease[c] = NoLease
    BY DEF Init, LeaseInit
  <2> QED
    BY <2>1 DEF NotStarted, NoLease, CommandFacts, LocalTypes, Reads, Sealable, Importing,
                Running, Places, Jobs, Reading
<1> QED
  BY <1>1, <1>2, <1>3 DEF StoreFacts

LEMMA StoreInductive == Spec => [](StoreInv /\ StoreFacts)
<1>1. Init => StoreInv /\ StoreFacts
  BY StoreInitInv, FactsInit
<1>2. StoreInv /\ StoreFacts /\ [Next]_vars => StoreInv' /\ StoreFacts'
  BY StoreNextInv, FactsNext
<1> QED
  BY <1>1, <1>2, PTL DEF Spec

\* The files of every run and the locals of every command keep their types.
THEOREM StoreTypes == Spec => []RunStoreTypeOK
<1>1. StoreInv /\ StoreFacts => RunStoreTypeOK
  BY DEF StoreInv, LeaseInv, DiskTyped, StoreFacts, RunFacts, FileTypes, CommandFacts, LocalTypes,
         RunStoreTypeOK
<1> QED
  BY <1>1, StoreInductive, PTL

\* runtime/results.py, ResultsManager.open: however reads, writes and crashes interleave,
\* opening a run reports tampering nobody did only if an append to events.jsonl was cut, and
\* never of a parent under its seal.
THEOREM NoAlarmIsFalse == Spec => []NoFalseAlarm
<1>1. ASSUME StoreInv, StoreFacts, NEW c \in Commands
      PROVE  /\ cmd[c].at = "prefix" /\ Loads(disk[cmd[c].reading]) => CheckpointHolds(c)
             /\ cmd[c].at = "seal" => SealHolds(disk[cmd[c].reading])
             /\ cmd[c].at \in {"opened", "copying"} /\ cmd[c].reading # cmd[c].run =>
                   ParentUnchanged(c) /\ SealHolds(disk[cmd[c].reading])
  <2>1. CommandFacts(c) /\ CommandInv(c)
    BY <1>1 DEF StoreFacts, StoreInv
  <2>2. cmd[c].at \in Reading \cup {"copying"} => cmd[c].run \in Runs /\ cmd[c].reading \in Runs
    BY <2>1 DEF CommandInv, Known, CommandFacts, Reads, Reading
  <2>3. cmd[c].at = "prefix" /\ Loads(disk[cmd[c].reading]) => CheckpointHolds(c)
    BY <2>1 DEF CommandFacts, Reads, Begins, CheckpointHolds
  <2>4. cmd[c].at = "seal" => SealHolds(disk[cmd[c].reading])
    BY <1>1, <2>2 DEF StoreFacts, RunFacts, IsSealed, SealHolds, Reading
  <2>5. cmd[c].at \in {"opened", "copying"} /\ cmd[c].reading # cmd[c].run =>
           /\ disk[cmd[c].run].parent = cmd[c].reading /\ cmd[c].reading # NoRun
           /\ RunFacts(cmd[c].run) /\ RunFacts(cmd[c].reading)
    BY <1>1, <2>1, <2>2, StoreAssumption DEF StoreFacts, CommandFacts, Reads, Reading
  <2> QED
    BY <2>3, <2>4, <2>5 DEF RunFacts, Bound, ParentUnchanged
<1>2. StoreInv /\ StoreFacts => NoFalseAlarm
  BY <1>1 DEF NoFalseAlarm
<1> QED
  BY <1>2, StoreInductive, PTL

\* create_warm and assert_parent_unchanged: every child is bound to the seal its parent
\* still has, and that seal to everything in the parent.
THEOREM ParentsStayBound == Spec => []ChildrenMatchParent
<1>1. ASSUME StoreInv, StoreFacts, NEW r \in Runs, disk[r].parent # NoRun
      PROVE  LET d == disk[disk[r].parent] IN
             d.seal # Absent /\ d.seal = disk[r].snapshot /\ SealHolds(d)
  <2>1. RunFacts(r) /\ disk[r].parent \in Runs
    BY <1>1 DEF StoreFacts, RunFacts, FileTypes
  <2>2. RunFacts(disk[r].parent)
    BY <1>1, <2>1 DEF StoreFacts
  <2> QED
    BY <1>1, <2>1, <2>2 DEF RunFacts, Bound, IsSealed
<1>2. StoreInv /\ StoreFacts => ChildrenMatchParent
  BY <1>1 DEF ChildrenMatchParent
<1> QED
  BY <1>2, StoreInductive, PTL

\* import_warm_memory: a warm child plays only with all the knowledge it may inherit and no
\* other, although the import is cut short and repeated.
THEOREM WarmChildrenKnow == Spec => []WarmStart
<1>1. StoreInv /\ StoreFacts => WarmStart
  BY DEF StoreFacts, RunFacts, Inherits, Inheritance, WarmStart
<1> QED
  BY <1>1, StoreInductive, PTL
=============================================================================
