--------------------------- MODULE CloudSyncProofs ---------------------------
(***************************************************************************)
(* The cloud sync, for any number of runs, children and events, any capacity *)
(* of the WAL and any number of faults.  The invariant says what the lock     *)
(* gives its holder, and what the cooldown file knows of the attempts made.   *)
(***************************************************************************)
EXTENDS CloudSync, TLAPS

\* From TryLock to Unlock a process that syncs holds the lock, and only while it
\* syncs is an event of its on the way to the cloud.
Holding == {"checking", "opening", "syncing", "failed", "synced", "heartbeat", "updating",
            "unlocking", "exiting"}

Held ==
  /\ \A p \in Syncers : pc[p] \in Holding => lock = p
  /\ \A p \in Syncers : sending[p] # {} => pc[p] = "syncing"

\* An event that is on disk and not on its way has been copied for faults only.
Counted ==
  \A e \in Events :
    /\ copies[e] <= 1 + faults
    /\ e \in fresh => copies[e] = 0 /\ e \notin wal
    /\ e \in wal /\ (\A p \in Syncers : e \notin sending[p]) => copies[e] <= faults

\* A child that has begun an attempt, or anybody about to record one.
Trying(p) == pc[p] \in {"failed", "synced"} \/ (p # Manual /\ pc[p] \in {"opening", "syncing"})

\* While the file tells of no recent attempt, and none is being made, those of the
\* present cooldown were lost to faults.
Spaced ==
  /\ tries <= 1 + faults
  /\ attempt # "recent" /\ (\A p \in Syncers : ~Trying(p)) => tries <= faults

CloudInv == TypeOK /\ Held /\ Counted /\ Spaced

LEMMA InitCloud == Init => CloudInv
BY CloudSyncAssumption DEF Init, CloudInv, TypeOK, Phases, Held, Holding, Counted, Spaced, Trying,
   Procs, Syncers, Parents

\* Every step keeps the types.
LEMMA TypeStep ==
  ASSUME TypeOK, [Next]_vars
  PROVE  TypeOK'
<1> USE CloudSyncAssumption DEF TypeOK, Phases, Goto, Fault, storeVars, Procs, Syncers, Parents
<1>1. ASSUME NEW r \in Runs, StartRun(r) PROVE TypeOK'
  BY <1>1 DEF StartRun
<1>2. ASSUME NEW r \in Runs, Emit(r) PROVE TypeOK'
  BY <1>2 DEF Emit
<1>3. ASSUME NEW r \in Runs, Leave(r) PROVE TypeOK'
  BY <1>3 DEF Leave
<1>4. ASSUME NEW r \in Parents, Spawn(r) PROVE TypeOK'
  BY <1>4 DEF Spawn
<1>5. ASSUME NEW r \in Parents, SpawnFails(r) PROVE TypeOK'
  BY <1>5 DEF SpawnFails
<1>6. ASSUME NEW r \in Parents, SpawnNot(r) PROVE TypeOK'
  BY <1>6 DEF SpawnNot
<1>7. ASSUME NEW c \in Children, TryLock(c) PROVE TypeOK'
  BY <1>7 DEF TryLock
<1>8. ASSUME NEW c \in Children, Recheck(c) PROVE TypeOK'
  BY <1>8 DEF Recheck, CooldownElapsed
<1>9. ASSUME NEW c \in Children, Heartbeat(c) PROVE TypeOK'
  BY <1>9 DEF Heartbeat
<1>10. ASSUME NEW c \in Children, SelfUpdate(c) PROVE TypeOK'
  BY <1>10 DEF SelfUpdate
<1>11. ASSUME NEW c \in Children, UpdateEnds(c) PROVE TypeOK'
  BY <1>11 DEF UpdateEnds
<1>12. CASE StartManual
  BY <1>12 DEF StartManual
<1>13. CASE LockManual
  BY <1>13 DEF LockManual
<1>14. CASE GiveUp
  BY <1>14 DEF GiveUp
<1>15. ASSUME NEW p \in Syncers, Open(p) PROVE TypeOK'
  BY <1>15 DEF Open
<1>16. ASSUME NEW p \in Syncers, OpenFails(p) PROVE TypeOK'
  BY <1>16 DEF OpenFails
<1>17. ASSUME NEW p \in Syncers, Deliver(p) PROVE TypeOK'
  BY <1>17 DEF Deliver
<1>18. ASSUME NEW p \in Syncers, Acknowledge(p) PROVE TypeOK'
  BY <1>18 DEF Acknowledge
<1>19. ASSUME NEW p \in Syncers, Break(p) PROVE TypeOK'
  BY <1>19 DEF Break
<1>20. ASSUME NEW p \in Syncers, SyncFails(p) PROVE TypeOK'
  BY <1>20 DEF SyncFails
<1>21. ASSUME NEW p \in Syncers, SyncEnds(p) PROVE TypeOK'
  BY <1>21 DEF SyncEnds
<1>22. ASSUME NEW p \in Syncers, TruncateRecord(p) PROVE TypeOK'
  BY <1>22 DEF TruncateRecord
<1>23. ASSUME NEW p \in Syncers, Record(p) PROVE TypeOK'
  BY <1>23 DEF Record, AfterRecord
<1>24. ASSUME NEW p \in Syncers, RecordFails(p) PROVE TypeOK'
  BY <1>24 DEF RecordFails, AfterRecord
<1>25. ASSUME NEW p \in Syncers, Unlock(p) PROVE TypeOK'
  BY <1>25 DEF Unlock, Released
<1>26. ASSUME NEW p \in Procs, Kill(p) PROVE TypeOK'
  BY <1>26 DEF Kill, Released
<1>27. CASE Elapse
  BY <1>27 DEF Elapse
<1>28. CASE TurnCloud
  BY <1>28 DEF TurnCloud
<1>29. CASE UNCHANGED vars
  BY <1>29 DEF vars
<1> QED
  BY <1>1, <1>2, <1>3, <1>4, <1>5, <1>6, <1>7, <1>8, <1>9, <1>10, <1>11, <1>12, <1>13, <1>14, <1>15, <1>16, <1>17, <1>18, <1>19, <1>20, <1>21, <1>22, <1>23, <1>24, <1>25, <1>26, <1>27, <1>28, <1>29 DEF Next, User, Depart, Draw, Sync

\* Every step keeps what the lock gives its holder.
LEMMA HeldStep ==
  ASSUME TypeOK, Held, [Next]_vars
  PROVE  Held'
<1> USE CloudSyncAssumption DEF TypeOK, Phases, Held, Holding, Goto, Fault, storeVars, Procs, Syncers, Parents
<1>1. ASSUME NEW r \in Runs, StartRun(r) PROVE Held'
  BY <1>1 DEF StartRun
<1>2. ASSUME NEW r \in Runs, Emit(r) PROVE Held'
  BY <1>2 DEF Emit
<1>3. ASSUME NEW r \in Runs, Leave(r) PROVE Held'
  BY <1>3 DEF Leave
<1>4. ASSUME NEW r \in Parents, Spawn(r) PROVE Held'
  BY <1>4 DEF Spawn
<1>5. ASSUME NEW r \in Parents, SpawnFails(r) PROVE Held'
  BY <1>5 DEF SpawnFails
<1>6. ASSUME NEW r \in Parents, SpawnNot(r) PROVE Held'
  BY <1>6 DEF SpawnNot
<1>7. ASSUME NEW c \in Children, TryLock(c) PROVE Held'
  BY <1>7 DEF TryLock
<1>8. ASSUME NEW c \in Children, Recheck(c) PROVE Held'
  BY <1>8 DEF Recheck, CooldownElapsed
<1>9. ASSUME NEW c \in Children, Heartbeat(c) PROVE Held'
  BY <1>9 DEF Heartbeat
<1>10. ASSUME NEW c \in Children, SelfUpdate(c) PROVE Held'
  BY <1>10 DEF SelfUpdate
<1>11. ASSUME NEW c \in Children, UpdateEnds(c) PROVE Held'
  BY <1>11 DEF UpdateEnds
<1>12. CASE StartManual
  BY <1>12 DEF StartManual
<1>13. CASE LockManual
  BY <1>13 DEF LockManual
<1>14. CASE GiveUp
  BY <1>14 DEF GiveUp
<1>15. ASSUME NEW p \in Syncers, Open(p) PROVE Held'
  BY <1>15 DEF Open
<1>16. ASSUME NEW p \in Syncers, OpenFails(p) PROVE Held'
  BY <1>16 DEF OpenFails
<1>17. ASSUME NEW p \in Syncers, Deliver(p) PROVE Held'
  BY <1>17 DEF Deliver
<1>18. ASSUME NEW p \in Syncers, Acknowledge(p) PROVE Held'
  BY <1>18 DEF Acknowledge
<1>19. ASSUME NEW p \in Syncers, Break(p) PROVE Held'
  BY <1>19 DEF Break
<1>20. ASSUME NEW p \in Syncers, SyncFails(p) PROVE Held'
  BY <1>20 DEF SyncFails
<1>21. ASSUME NEW p \in Syncers, SyncEnds(p) PROVE Held'
  BY <1>21 DEF SyncEnds
<1>22. ASSUME NEW p \in Syncers, TruncateRecord(p) PROVE Held'
  BY <1>22 DEF TruncateRecord
<1>23. ASSUME NEW p \in Syncers, Record(p) PROVE Held'
  BY <1>23 DEF Record, AfterRecord
<1>24. ASSUME NEW p \in Syncers, RecordFails(p) PROVE Held'
  BY <1>24 DEF RecordFails, AfterRecord
<1>25. ASSUME NEW p \in Syncers, Unlock(p) PROVE Held'
  BY <1>25 DEF Unlock, Released
<1>26. ASSUME NEW p \in Procs, Kill(p) PROVE Held'
  BY <1>26 DEF Kill, Released
<1>27. CASE Elapse
  BY <1>27 DEF Elapse
<1>28. CASE TurnCloud
  BY <1>28 DEF TurnCloud
<1>29. CASE UNCHANGED vars
  BY <1>29 DEF vars
<1> QED
  BY <1>1, <1>2, <1>3, <1>4, <1>5, <1>6, <1>7, <1>8, <1>9, <1>10, <1>11, <1>12, <1>13, <1>14, <1>15, <1>16, <1>17, <1>18, <1>19, <1>20, <1>21, <1>22, <1>23, <1>24, <1>25, <1>26, <1>27, <1>28, <1>29 DEF Next, User, Depart, Draw, Sync

\* Every step keeps the account of the copies.
LEMMA CountedStep ==
  ASSUME TypeOK, Held, Counted, [Next]_vars
  PROVE  Counted'
<1> USE CloudSyncAssumption DEF TypeOK, Held, Holding, Counted, Goto, Fault, storeVars, Procs, Syncers, Parents
<1>1. ASSUME NEW r \in Runs, StartRun(r) PROVE Counted'
  BY <1>1 DEF StartRun
<1>2. ASSUME NEW r \in Runs, Emit(r) PROVE Counted'
  BY <1>2 DEF Emit
<1>3. ASSUME NEW r \in Runs, Leave(r) PROVE Counted'
  BY <1>3 DEF Leave
<1>4. ASSUME NEW r \in Parents, Spawn(r) PROVE Counted'
  BY <1>4 DEF Spawn
<1>5. ASSUME NEW r \in Parents, SpawnFails(r) PROVE Counted'
  BY <1>5 DEF SpawnFails
<1>6. ASSUME NEW r \in Parents, SpawnNot(r) PROVE Counted'
  BY <1>6 DEF SpawnNot
<1>7. ASSUME NEW c \in Children, TryLock(c) PROVE Counted'
  BY <1>7 DEF TryLock
<1>8. ASSUME NEW c \in Children, Recheck(c) PROVE Counted'
  BY <1>8 DEF Recheck, CooldownElapsed
<1>9. ASSUME NEW c \in Children, Heartbeat(c) PROVE Counted'
  BY <1>9 DEF Heartbeat
<1>10. ASSUME NEW c \in Children, SelfUpdate(c) PROVE Counted'
  BY <1>10 DEF SelfUpdate
<1>11. ASSUME NEW c \in Children, UpdateEnds(c) PROVE Counted'
  BY <1>11 DEF UpdateEnds
<1>12. CASE StartManual
  BY <1>12 DEF StartManual
<1>13. CASE LockManual
  BY <1>13 DEF LockManual
<1>14. CASE GiveUp
  BY <1>14 DEF GiveUp
<1>15. ASSUME NEW p \in Syncers, Open(p) PROVE Counted'
  BY <1>15 DEF Open
<1>16. ASSUME NEW p \in Syncers, OpenFails(p) PROVE Counted'
  BY <1>16 DEF OpenFails
<1>17. ASSUME NEW p \in Syncers, Deliver(p) PROVE Counted'
  <2>1. PICK e \in wal : /\ sending' = [sending EXCEPT ![p] = {e}]
                        /\ copies' = [copies EXCEPT ![e] = @ + 1]
    BY <1>17 DEF Deliver
  <2>2. \A q \in Syncers : e \notin sending[q]
    <3>1. \A q \in Syncers : sending[q] # {} => lock = q
      OBVIOUS
    <3>2. lock = p /\ sending[p] = {}
      BY <1>17 DEF Deliver
    <3> QED
      BY <3>1, <3>2
  <2>3. copies[e] <= faults
    BY <2>1, <2>2
  <2>4. \A d \in Events \ {e} : copies'[d] = copies[d] /\ \A q \in Syncers : d \in sending[q] => d \in sending'[q]
    <3>1. sending[p] = {}
      BY <1>17 DEF Deliver
    <3> QED
      BY <2>1, <3>1
  <2> QED
    BY <1>17, <2>1, <2>3, <2>4 DEF Deliver
<1>18. ASSUME NEW p \in Syncers, Acknowledge(p) PROVE Counted'
  BY <1>18 DEF Acknowledge
<1>19. ASSUME NEW p \in Syncers, Break(p) PROVE Counted'
  BY <1>19 DEF Break
<1>20. ASSUME NEW p \in Syncers, SyncFails(p) PROVE Counted'
  BY <1>20 DEF SyncFails
<1>21. ASSUME NEW p \in Syncers, SyncEnds(p) PROVE Counted'
  BY <1>21 DEF SyncEnds
<1>22. ASSUME NEW p \in Syncers, TruncateRecord(p) PROVE Counted'
  BY <1>22 DEF TruncateRecord
<1>23. ASSUME NEW p \in Syncers, Record(p) PROVE Counted'
  BY <1>23 DEF Record, AfterRecord
<1>24. ASSUME NEW p \in Syncers, RecordFails(p) PROVE Counted'
  BY <1>24 DEF RecordFails, AfterRecord
<1>25. ASSUME NEW p \in Syncers, Unlock(p) PROVE Counted'
  BY <1>25 DEF Unlock, Released
<1>26. ASSUME NEW p \in Procs, Kill(p) PROVE Counted'
  BY <1>26 DEF Kill, Released
<1>27. CASE Elapse
  BY <1>27 DEF Elapse
<1>28. CASE TurnCloud
  BY <1>28 DEF TurnCloud
<1>29. CASE UNCHANGED vars
  BY <1>29 DEF vars
<1> QED
  BY <1>1, <1>2, <1>3, <1>4, <1>5, <1>6, <1>7, <1>8, <1>9, <1>10, <1>11, <1>12, <1>13, <1>14, <1>15, <1>16, <1>17, <1>18, <1>19, <1>20, <1>21, <1>22, <1>23, <1>24, <1>25, <1>26, <1>27, <1>28, <1>29 DEF Next, User, Depart, Draw, Sync

\* Every step keeps the account of the attempts.
LEMMA SpacedStep ==
  ASSUME TypeOK, Held, Spaced, [Next]_vars
  PROVE  Spaced'
<1> USE CloudSyncAssumption DEF TypeOK, Held, Holding, Spaced, Trying, Goto, Fault, storeVars, Procs, Syncers, Parents
<1>1. ASSUME NEW r \in Runs, StartRun(r) PROVE Spaced'
  BY <1>1 DEF StartRun
<1>2. ASSUME NEW r \in Runs, Emit(r) PROVE Spaced'
  BY <1>2 DEF Emit
<1>3. ASSUME NEW r \in Runs, Leave(r) PROVE Spaced'
  BY <1>3 DEF Leave
<1>4. ASSUME NEW r \in Parents, Spawn(r) PROVE Spaced'
  BY <1>4 DEF Spawn
<1>5. ASSUME NEW r \in Parents, SpawnFails(r) PROVE Spaced'
  BY <1>5 DEF SpawnFails
<1>6. ASSUME NEW r \in Parents, SpawnNot(r) PROVE Spaced'
  BY <1>6 DEF SpawnNot
<1>7. ASSUME NEW c \in Children, TryLock(c) PROVE Spaced'
  BY <1>7 DEF TryLock
<1>8. ASSUME NEW c \in Children, Recheck(c) PROVE Spaced'
  BY <1>8 DEF Recheck, CooldownElapsed
<1>9. ASSUME NEW c \in Children, Heartbeat(c) PROVE Spaced'
  BY <1>9 DEF Heartbeat
<1>10. ASSUME NEW c \in Children, SelfUpdate(c) PROVE Spaced'
  BY <1>10 DEF SelfUpdate
<1>11. ASSUME NEW c \in Children, UpdateEnds(c) PROVE Spaced'
  BY <1>11 DEF UpdateEnds
<1>12. CASE StartManual
  BY <1>12 DEF StartManual
<1>13. CASE LockManual
  BY <1>13 DEF LockManual
<1>14. CASE GiveUp
  BY <1>14 DEF GiveUp
<1>15. ASSUME NEW p \in Syncers, Open(p) PROVE Spaced'
  BY <1>15 DEF Open
<1>16. ASSUME NEW p \in Syncers, OpenFails(p) PROVE Spaced'
  BY <1>16 DEF OpenFails
<1>17. ASSUME NEW p \in Syncers, Deliver(p) PROVE Spaced'
  BY <1>17 DEF Deliver
<1>18. ASSUME NEW p \in Syncers, Acknowledge(p) PROVE Spaced'
  BY <1>18 DEF Acknowledge
<1>19. ASSUME NEW p \in Syncers, Break(p) PROVE Spaced'
  BY <1>19 DEF Break
<1>20. ASSUME NEW p \in Syncers, SyncFails(p) PROVE Spaced'
  BY <1>20 DEF SyncFails
<1>21. ASSUME NEW p \in Syncers, SyncEnds(p) PROVE Spaced'
  BY <1>21 DEF SyncEnds
<1>22. ASSUME NEW p \in Syncers, TruncateRecord(p) PROVE Spaced'
  BY <1>22 DEF TruncateRecord
<1>23. ASSUME NEW p \in Syncers, Record(p) PROVE Spaced'
  BY <1>23 DEF Record, AfterRecord
<1>24. ASSUME NEW p \in Syncers, RecordFails(p) PROVE Spaced'
  BY <1>24 DEF RecordFails, AfterRecord
<1>25. ASSUME NEW p \in Syncers, Unlock(p) PROVE Spaced'
  BY <1>25 DEF Unlock, Released
<1>26. ASSUME NEW p \in Procs, Kill(p) PROVE Spaced'
  BY <1>26 DEF Kill, Released
<1>27. CASE Elapse
  BY <1>27 DEF Elapse
<1>28. CASE TurnCloud
  BY <1>28 DEF TurnCloud
<1>29. CASE UNCHANGED vars
  BY <1>29 DEF vars
<1> QED
  BY <1>1, <1>2, <1>3, <1>4, <1>5, <1>6, <1>7, <1>8, <1>9, <1>10, <1>11, <1>12, <1>13, <1>14, <1>15, <1>16, <1>17, <1>18, <1>19, <1>20, <1>21, <1>22, <1>23, <1>24, <1>25, <1>26, <1>27, <1>28, <1>29 DEF Next, User, Depart, Draw, Sync

LEMMA InvCloud == Spec => []CloudInv
<1>1. CloudInv /\ [Next]_vars => CloudInv'
  BY TypeStep, HeldStep, CountedStep, SpacedStep DEF CloudInv
<1> QED
  BY InitCloud, <1>1, PTL DEF Spec

\* Type correctness of the cloud sync.
THEOREM CloudTypes == Spec => []TypeOK
<1>1. CloudInv => TypeOK
  BY DEF CloudInv
<1> QED
  BY InvCloud, <1>1, PTL

\* The lock of sync_background.go and sync.go, and the acknowledgement before an event
\* leaves the WAL: the cloud gets no copy that no fault accounts for.
THEOREM CopiesAccounted == Spec => []CopiesAreAccounted
<1>1. CloudInv => CopiesAreAccounted
  BY DEF CloudInv, Counted, CopiesAreAccounted
<1> QED
  BY InvCloud, <1>1, PTL

\* The second look at the cooldown, under the lock (sync_background.go:53-59): however
\* many children the runs fork, one of them makes an attempt.
THEOREM AttemptsSpaced == Spec => []AttemptsAreSpaced
<1>1. CloudInv => AttemptsAreSpaced
  BY DEF CloudInv, Spaced, AttemptsAreSpaced
<1> QED
  BY InvCloud, <1>1, PTL
=============================================================================
