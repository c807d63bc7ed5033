------------------------------ MODULE CloudSync ------------------------------
(***************************************************************************)
(* How audit events get to the cloud (internal/audit, cmd/cloud).  Every run *)
(* of pmg leaves its events in a log on disk, the WAL, and on its way out may *)
(* fork a detached child that drains it; `pmg cloud sync' drains it on        *)
(* request.  The processes share the WAL, a file lock around every sync, and  *)
(* a file with the time of the last attempt, from which each of them reads    *)
(* whether the cooldown is over.  Any of them may be killed at any time.      *)
(***************************************************************************)
EXTENDS Naturals, FiniteSets

CONSTANTS
  Runs,        \* processes that run a package manager, or another command of pmg
  Children,    \* processes of `pmg cloud sync-background'
  Manual,      \* the process of `pmg cloud sync'
  Nobody,
  Events,      \* audit events
  Capacity,    \* of the WAL
  MaxFaults    \* bound: kills, broken connections, failed forks and writes

Parents == Runs \cup {Manual}
Procs   == Runs \cup Children \cup {Manual}
Syncers == Children \cup {Manual}

ASSUME CloudSyncAssumption ==
  /\ Nobody \notin Procs /\ Manual \notin Runs \cup Children
  /\ Runs \cap Children = {}
  /\ Capacity \in Nat /\ MaxFaults \in Nat

VARIABLES
  pc,          \* where each process is
  lock,        \* who holds the sync lock
  attempt,     \* the file of the last attempt: none, empty, recent, old
  wal,         \* the events on disk
  sending,     \* of each process that syncs: the event the cloud has not acknowledged
  copies,      \* how many copies of each event the cloud has got
  fresh,       \* the events that have not happened yet
  reachable,   \* the cloud answers, and there are credentials for it
  updater,     \* the run that a self-update waits for
  tries,       \* history: attempts of children in the present cooldown
  faults       \* history

storeVars == <<wal, sending, copies, fresh>>
vars == <<pc, lock, attempt, storeVars, reachable, updater, tries, faults>>

Phases == {"idle", "running", "leaving", "locking", "checking", "opening", "syncing",
           "failed", "synced", "heartbeat", "updating", "unlocking", "exiting"}

TypeOK ==
  /\ pc \in [Procs -> Phases]
  /\ lock \in Syncers \cup {Nobody}
  /\ attempt \in {"none", "empty", "recent", "old"}
  /\ wal \subseteq Events /\ fresh \subseteq Events
  /\ sending \in [Syncers -> SUBSET Events]
  /\ copies \in [Events -> Nat]
  /\ reachable \in BOOLEAN
  /\ updater \in Runs \cup {Nobody}
  /\ tries \in Nat /\ faults \in Nat

Init ==
  /\ pc = [p \in Procs |-> "idle"]
  /\ lock = Nobody /\ updater = Nobody
  /\ attempt = "none"
  /\ wal = {} /\ fresh = Events
  /\ sending = [p \in Syncers |-> {}]
  /\ copies = [e \in Events |-> 0]
  /\ reachable \in BOOLEAN
  /\ tries = 0 /\ faults = 0

Goto(p, from, to) == pc[p] = from /\ pc' = [pc EXCEPT ![p] = to]

Fault == faults < MaxFaults /\ faults' = faults + 1

-----------------------------------------------------------------------------
(* A run of pmg                                                             *)

StartRun(r) ==
  /\ r # updater
  /\ Goto(r, "idle", "running")
  /\ UNCHANGED <<lock, attempt, storeVars, reachable, updater, tries, faults>>

\* cloudSink.Handle: an event that finds the WAL full is dropped.
Emit(r) ==
  /\ pc[r] = "running"
  /\ \E e \in fresh :
       /\ fresh' = fresh \ {e}
       /\ wal' = IF Cardinality(wal) < Capacity THEN wal \cup {e} ELSE wal
  /\ UNCHANGED <<pc, lock, attempt, sending, copies, reachable, updater, tries, faults>>

Leave(r) ==
  /\ Goto(r, "running", "leaving")
  /\ UNCHANGED <<lock, attempt, storeVars, reachable, updater, tries, faults>>

\* Fault: a file that cannot be read counts as an attempt just made.
CooldownReadStrictly == attempt = "old"

\* SyncCooldownElapsed: a file that is missing or cannot be parsed is infinitely old.
CooldownElapsed == attempt # "recent"

\* MaybeSpawnBackgroundSync, which holds no lock.  A child that ends forks no other:
\* MarkBackgroundSyncChild.
Spawn(r) ==
  /\ pc[r] = "leaving" /\ CooldownElapsed
  /\ \E c \in Children :
       /\ pc[c] = "idle"
       /\ pc' = [pc EXCEPT ![r] = "idle", ![c] = "locking"]
  /\ UNCHANGED <<lock, attempt, storeVars, reachable, updater, tries, faults>>

SpawnFails(r) ==
  /\ Goto(r, "leaving", "idle")
  /\ CooldownElapsed
  /\ Fault
  /\ UNCHANGED <<lock, attempt, storeVars, reachable, updater, tries>>

SpawnNot(r) ==
  /\ Goto(r, "leaving", "idle")
  /\ ~CooldownElapsed
  /\ UNCHANGED <<lock, attempt, storeVars, reachable, updater, tries, faults>>

-----------------------------------------------------------------------------
(* The lock                                                                 *)

\* Fault: the lock is only taken if nobody has it.
TryLockIgnored(c) ==
  /\ Goto(c, "locking", "checking")
  /\ lock' = IF lock = Nobody THEN c ELSE lock
  /\ UNCHANGED <<attempt, storeVars, reachable, updater, tries, faults>>

TryLock(c) ==
  /\ \/ /\ lock = Nobody
        /\ Goto(c, "locking", "checking")
        /\ lock' = c
     \/ /\ lock # Nobody
        /\ Goto(c, "locking", "idle")
        /\ UNCHANGED lock
  /\ UNCHANGED <<attempt, storeVars, reachable, updater, tries, faults>>

\* Fault: the parent's look at the cooldown is enough.
RecheckSkipped(c) ==
  /\ Goto(c, "checking", "opening")
  /\ tries' = tries + 1
  /\ UNCHANGED <<lock, attempt, storeVars, reachable, updater, faults>>

\* The parent looked at the cooldown without the lock: the child looks again.
Recheck(c) ==
  /\ \/ /\ CooldownElapsed
        /\ Goto(c, "checking", "opening")
        /\ tries' = tries + 1
     \/ /\ ~CooldownElapsed
        /\ Goto(c, "checking", "exiting")
        /\ UNCHANGED tries
  /\ UNCHANGED <<lock, attempt, storeVars, reachable, updater, faults>>

\* The user's own sync waits for the lock, and heeds no cooldown.
StartManual ==
  /\ Goto(Manual, "idle", "locking")
  /\ UNCHANGED <<lock, attempt, storeVars, reachable, updater, tries, faults>>

LockManual ==
  /\ lock = Nobody
  /\ Goto(Manual, "locking", "opening")
  /\ lock' = Manual
  /\ UNCHANGED <<attempt, storeVars, reachable, updater, tries, faults>>

\* TryLockContext gives up after manualSyncLockTimeout.
GiveUp ==
  /\ lock # Nobody
  /\ Goto(Manual, "locking", "idle")
  /\ UNCHANGED <<lock, attempt, storeVars, reachable, updater, tries, faults>>

-----------------------------------------------------------------------------
(* A sync                                                                   *)

Open(p) ==
  /\ reachable
  /\ Goto(p, "opening", "syncing")
  /\ UNCHANGED <<lock, attempt, storeVars, reachable, updater, tries, faults>>

\* NewSyncClientBundle fails: a child records the attempt, the user's own sync
\* ends at once.
OpenFails(p) ==
  /\ ~reachable
  /\ Goto(p, "opening", IF p = Manual THEN "exiting" ELSE "failed")
  /\ UNCHANGED <<lock, attempt, storeVars, reachable, updater, tries, faults>>

\* The cloud gets an event ...
Deliver(p) ==
  /\ pc[p] = "syncing" /\ reachable
  /\ sending[p] = {}
  /\ \E e \in wal :
       /\ sending' = [sending EXCEPT ![p] = {e}]
       /\ copies' = [copies EXCEPT ![e] = @ + 1]
  /\ UNCHANGED <<pc, lock, attempt, wal, fresh, reachable, updater, tries, faults>>

\* ... and what it acknowledges leaves the WAL.
Acknowledge(p) ==
  /\ pc[p] = "syncing"
  /\ sending[p] # {}
  /\ wal' = wal \ sending[p]
  /\ sending' = [sending EXCEPT ![p] = {}]
  /\ UNCHANGED <<pc, lock, attempt, copies, fresh, reachable, updater, tries, faults>>

\* The connection breaks before the acknowledgement: the chain of transports sends
\* the event again by its fallback, or the sync fails.
Break(p) ==
  /\ pc[p] = "syncing" /\ sending[p] # {}
  /\ Fault
  /\ sending' = [sending EXCEPT ![p] = {}]
  /\ pc' \in {pc, [pc EXCEPT ![p] = "failed"]}
  /\ UNCHANGED <<lock, attempt, wal, copies, fresh, reachable, updater, tries>>

\* An error, or the end of AutoSync.Timeout.
SyncFails(p) ==
  /\ ~reachable
  /\ Goto(p, "syncing", "failed")
  /\ sending[p] = {}
  /\ UNCHANGED <<lock, attempt, storeVars, reachable, updater, tries, faults>>

SyncEnds(p) ==
  /\ Goto(p, "syncing", "synced")
  /\ wal = {} /\ sending[p] = {}
  /\ UNCHANGED <<lock, attempt, storeVars, reachable, updater, tries, faults>>

-----------------------------------------------------------------------------
(* recordLastSyncAttempt, and what follows                                  *)

\* A child that has synced sends a heartbeat, with the lock in its hands; the user's
\* own sync leaves by main if it has succeeded, by ErrorExit if not.
AfterRecord(p, outcome) ==
  IF outcome = "failed" THEN "exiting" ELSE IF p = Manual THEN "unlocking" ELSE "heartbeat"

\* os.WriteFile truncates the file first.
TruncateRecord(p) ==
  /\ pc[p] \in {"failed", "synced"}
  /\ attempt # "empty" /\ attempt' = "empty"
  /\ UNCHANGED <<pc, lock, storeVars, reachable, updater, tries, faults>>

Record(p) ==
  /\ attempt = "empty" /\ attempt' = "recent"
  /\ \E outcome \in {"failed", "synced"} : Goto(p, outcome, AfterRecord(p, outcome))
  /\ UNCHANGED <<lock, storeVars, reachable, updater, tries, faults>>

RecordFails(p) ==
  /\ \E outcome \in {"failed", "synced"} : Goto(p, outcome, AfterRecord(p, outcome))
  /\ Fault
  /\ UNCHANGED <<lock, attempt, storeVars, reachable, updater, tries>>

\* The answer to the heartbeat asks for nothing, or there is none.
Heartbeat(c) ==
  /\ Goto(c, "heartbeat", "exiting")
  /\ UNCHANGED <<lock, attempt, storeVars, reachable, updater, tries, faults>>

\* It asks for an update: the new binary runs `pmg setup install', which is a run of
\* pmg like another and looks at the cooldown when it ends.
SelfUpdate(c) ==
  /\ pc[c] = "heartbeat" /\ reachable
  /\ updater = Nobody
  /\ \E r \in Runs :
       /\ pc[r] = "idle"
       /\ pc' = [pc EXCEPT ![c] = "updating", ![r] = "leaving"]
       /\ updater' = r
  /\ UNCHANGED <<lock, attempt, storeVars, reachable, tries, faults>>

UpdateEnds(c) ==
  /\ Goto(c, "updating", "exiting")
  /\ pc[updater] = "idle"
  /\ updater' = Nobody
  /\ UNCHANGED <<lock, attempt, storeVars, reachable, tries, faults>>

\* Unlock, or the end of the process.
Released(p) == IF lock = p THEN Nobody ELSE lock

Unlock(p) ==
  /\ Goto(p, "unlocking", "leaving") \/ Goto(p, "exiting", "idle")
  /\ lock' = Released(p)
  /\ UNCHANGED <<attempt, storeVars, reachable, updater, tries, faults>>

-----------------------------------------------------------------------------
(* The environment                                                          *)

Kill(p) ==
  /\ pc[p] # "idle"
  /\ Fault
  /\ pc' = [pc EXCEPT ![p] = "idle"]
  /\ lock' = Released(p)
  /\ sending' = IF p \in Syncers THEN [sending EXCEPT ![p] = {}] ELSE sending
  /\ updater' = IF pc[p] = "updating" THEN Nobody ELSE updater
  /\ UNCHANGED <<attempt, wal, copies, fresh, reachable, tries>>

\* MinInterval passes.
Elapse ==
  /\ attempt = "recent" /\ attempt' = "old"
  /\ tries' = 0
  /\ UNCHANGED <<pc, lock, storeVars, reachable, updater, faults>>

TurnCloud ==
  /\ reachable' = ~reachable
  /\ UNCHANGED <<pc, lock, attempt, storeVars, updater, tries, faults>>

-----------------------------------------------------------------------------
Depart(r) == Spawn(r) \/ SpawnFails(r) \/ SpawnNot(r)

Draw(c) == TryLock(c) \/ Recheck(c) \/ Heartbeat(c) \/ SelfUpdate(c) \/ UpdateEnds(c)

Sync(p) ==
  \/ Open(p) \/ OpenFails(p)
  \/ Deliver(p) \/ Acknowledge(p) \/ Break(p) \/ SyncFails(p) \/ SyncEnds(p)
  \/ TruncateRecord(p) \/ Record(p) \/ RecordFails(p) \/ Unlock(p)

User == StartManual \/ \E r \in Runs : StartRun(r) \/ Emit(r)

Next ==
  \/ User
  \/ \E r \in Runs : Leave(r)
  \/ \E r \in Parents : Depart(r)
  \/ \E c \in Children : Draw(c)
  \/ LockManual \/ GiveUp
  \/ \E p \in Syncers : Sync(p)
  \/ \E p \in Procs : Kill(p)
  \/ Elapse \/ TurnCloud

Spec == Init /\ [][Next]_vars

\* Every process is scheduled, and every wait of a process that syncs has a time
\* limit; time passes.  A package manager need not end, nor the user come back, nor
\* the cloud answer.  Strong fairness of Depart makes up for the few Children: a fork
\* need not wait for one of them to be idle.
FairSpec ==
  /\ Spec
  /\ \A r \in Parents : SF_vars(Depart(r))
  /\ \A c \in Children : WF_vars(Draw(c) \/ Sync(c))
  /\ WF_vars(LockManual \/ GiveUp \/ Sync(Manual))
  /\ WF_vars(Elapse)

-----------------------------------------------------------------------------
(* Properties                                                               *)

\* Two processes never drain the WAL at once: the cloud gets a second copy of an
\* event only where a process was killed or a connection broke over the first.
CopiesAreAccounted == \A e \in Events : copies[e] <= 1 + faults

\* "A failing cloud endpoint does not trigger an attempt on every PMG invocation":
\* however many runs end at once, within one cooldown the children make one attempt,
\* and another only for one whose record was lost.
AttemptsAreSpaced == tries <= 1 + faults

\* A sync ends, and lets the next one begin, also when the cloud never answers.
LockIsReleased == \A p \in Syncers : lock = p ~> lock # p

\* From some time on the cloud can be reached, and pmg goes on being used.
Usable == <>[]reachable /\ []<>(\E r \in Parents : pc[r] = "leaving")

\* No failure stops the syncs for good: what is on disk leaves it, if the cloud can
\* be reached in the end and pmg is used.
EventsReachCloud == Usable => \A e \in Events : e \in wal ~> e \notin wal

\* A sync that ends by whatever means lets the next one in, and the next one gets on
\* with the events it left.
SyncMakesProgress == LockIsReleased /\ EventsReachCloud
=============================================================================
