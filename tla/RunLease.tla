------------------------------ MODULE RunLease ------------------------------
(***************************************************************************)
(* runtime/lease.py: non-blocking ownership of a run directory.            *)
(*                                                                         *)
(* A lease is taken in two places: the registry of the process, under      *)
(* _PROCESS_GUARD, and an flock on <run>/.run.lock.  Between the two, and  *)
(* between giving them back, other threads and other processes run.  The   *)
(* kernel drops the flock of a process that dies, and its registry with    *)
(* it.                                                                     *)
(***************************************************************************)
EXTENDS Integers, FiniteSets

CONSTANTS
    Commands,   \* threads of control that want runs
    Runs,       \* run directories
    NoCommand   \* nobody holds the flock

ASSUME LeaseAssumption == NoCommand \notin Commands

VARIABLES
    process,    \* process[c]: the process of c, named after one of its commands
    registry,   \* _PROCESS_LEASES of every process: pairs <<process, run>>
    flock,      \* flock[r]: the descriptor that holds the lock
    lease       \* lease[c]: how far the RunLease object of c has got

leaseVars == <<process, registry, flock, lease>>

LeaseSteps == {"none", "registered", "owned", "unlocked"}

NoLease == [step |-> "none"]
At(step, r) == [step |-> step, run |-> r]

LeaseInit ==
    /\ process \in {[c \in Commands |-> c]} \cup {[c \in Commands |-> d] : d \in Commands}
    /\ registry = {}
    /\ flock = [r \in Runs |-> NoCommand]
    /\ lease = [c \in Commands |-> NoLease]

Entry(c, r) == <<process[c], r>>

-----------------------------------------------------------------------------
\* A second thread of the process fails at once.
Registered(c, r) == Entry(c, r) \in registry

Register(c, r) ==
    /\ lease[c] = NoLease
    /\ ~Registered(c, r)
    /\ registry' = registry \cup {Entry(c, r)}
    /\ lease' = [lease EXCEPT ![c] = At("registered", r)]
    /\ UNCHANGED <<process, flock>>

\* Mutant of Lock: a shared lock (LOCK_SH) is asked for.
LockShared(c) ==
    /\ lease[c].step = "registered"
    /\ flock' = [flock EXCEPT ![lease[c].run] = c]
    /\ lease' = [lease EXCEPT ![c].step = "owned"]
    /\ UNCHANGED <<process, registry>>

\* LOCK_EX | LOCK_NB succeeds.
Lock(c) ==
    /\ lease[c].step = "registered"
    /\ flock[lease[c].run] = NoCommand
    /\ flock' = [flock EXCEPT ![lease[c].run] = c]
    /\ lease' = [lease EXCEPT ![c].step = "owned"]
    /\ UNCHANGED <<process, registry>>

\* It would have to wait: the descriptor is closed and the entry taken back.
LockRefused(c) ==
    /\ lease[c].step = "registered"
    /\ flock[lease[c].run] # NoCommand
    /\ registry' = registry \ {Entry(c, lease[c].run)}
    /\ lease' = [lease EXCEPT ![c] = NoLease]
    /\ UNCHANGED <<process, flock>>

\* release: the lock first, the registry last, so a peer of the process that sees the
\* entry gone finds the lock free.
Unlock(c) ==
    /\ lease[c].step = "owned"
    /\ flock' = [flock EXCEPT ![lease[c].run] = NoCommand]
    /\ lease' = [lease EXCEPT ![c].step = "unlocked"]
    /\ UNCHANGED <<process, registry>>

Discard(c) ==
    /\ lease[c].step = "unlocked"
    /\ registry' = registry \ {Entry(c, lease[c].run)}
    /\ lease' = [lease EXCEPT ![c] = NoLease]
    /\ UNCHANGED <<process, flock>>

\* A process and all its threads end without running any handler.
Dead(p) == {c \in Commands : process[c] = p}

ProcessDies(p) ==
    /\ registry' = {entry \in registry : entry[1] # p}
    /\ flock' = [r \in Runs |-> IF flock[r] \in Dead(p) THEN NoCommand ELSE flock[r]]
    /\ lease' = [c \in Commands |-> IF c \in Dead(p) THEN NoLease ELSE lease[c]]
    /\ UNCHANGED process

LeaseNext ==
    \/ \E c \in Commands, r \in Runs : Register(c, r)
    \/ \E c \in Commands : Lock(c) \/ LockRefused(c) \/ Unlock(c) \/ Discard(c)
    \/ \E p \in Commands : ProcessDies(p)

LeaseSpec == LeaseInit /\ [][LeaseNext]_leaseVars

-----------------------------------------------------------------------------
Owns(c, r) == lease[c] = At("owned", r)

LeaseTypeOK ==
    /\ process \in [Commands -> Commands]
    /\ registry \subseteq Commands \X Runs
    /\ flock \in [Runs -> Commands \cup {NoCommand}]
    /\ lease \in [Commands -> {NoLease} \cup
                              [step : LeaseSteps \ {"none"}, run : Runs]]

\* No two commands are ever inside the same run, whether they are threads of one
\* process or processes, and whatever died in between.
OneOwner ==
    \A c, d \in Commands, r \in Runs : Owns(c, r) /\ Owns(d, r) => c = d

\* A failed or interrupted acquisition never poisons a run for the rest of the process:
\* an entry of the registry belongs to a command that is still on its way in or out.
RegistryIsLive ==
    \A entry \in registry :
        \E c \in Commands : /\ process[c] = entry[1]
                            /\ lease[c] # NoLease
                            /\ lease[c].run = entry[2]
=============================================================================
