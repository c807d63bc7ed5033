-------------------------- MODULE PackageStepsProofs --------------------------
(***************************************************************************)
(* Proofs about the steps on the way of a package to its verdict: the command  *)
(* line that names it, the graph of its dependencies, the registry's answer    *)
(* and its cooldown, the feed that knows it, and the composite analyzer that   *)
(* judges it.  The five share no state (see MCPackageSteps); each is proved    *)
(* about on its own.                                                        *)
(***************************************************************************)
EXTENDS CompositeAnalysis, AikidoFeed, DependencyResolver, RegistryRequest, CommandLine,
        SequenceTheorems, FiniteSetTheorems, WellFoundedInduction, NaturalsInduction, TLAPS

-----------------------------------------------------------------------------
(***************************************************************************)
(* The verdict of the composite analyzer, for every set of analyzers, every *)
(* capacity of the channel and every order of arrival.  The invariant says   *)
(* what the loop's locals know of the results received so far.              *)
(***************************************************************************)

Received == {a \in Analyzers : phase[a] = "received"}

\* What is an error, and what is marked degraded.
Unchecked(item) == Partial(item) \/ item = NotFound

\* While the loop runs its locals sum up exactly the results it has received.
Folded ==
  returned = None =>
    /\ \A a \in Received : ~Malware(Answer(a))
    /\ firstBlock # None <=> \E a \in Received : Blocks(Answer(a))
    /\ firstBlock # None => firstBlock.action = "block"
    /\ degraded <=> \E a \in Received : Unchecked(Answer(a))
    /\ allow # None => allow.action # "block"

CompositeInv ==
  /\ phase \in [Analyzers -> {"running", "sent", "received"}]
  /\ degraded \in BOOLEAN
  /\ Folded
  /\ BlockIsOrderFree
  /\ MalwareOutranksPolicy

LEMMA SameWorld ==
  ASSUME UNCHANGED world
  PROVE  /\ \A a \in Analyzers : Answer(a)' = Answer(a)
         /\ SomeBlocks' = SomeBlocks
         /\ SomeMalware' = SomeMalware
         /\ SomePartial' = SomePartial /\ SomeUnknown' = SomeUnknown
         /\ (world.paranoid)' = world.paranoid
BY DEF Answer, MalysisResult, SomeBlocks, SomeMalware, SomePartial, SomeUnknown

LEMMA InitComposite == AnalysisInit => CompositeInv
BY DEF AnalysisInit, CompositeInv, Folded, Received, BlockIsOrderFree, MalwareOutranksPolicy, None, Result

\* One more result: what the locals must say after it, by what it is.
LEMMA ReceiveFolds ==
  ASSUME CompositeInv, NEW a \in Analyzers, Receive(a), returned' = None,
         ~Malware(Answer(a)), degraded' \in BOOLEAN,
         firstBlock' # None <=> firstBlock # None \/ Blocks(Answer(a)),
         firstBlock' # None => firstBlock'.action = "block",
         degraded' <=> degraded \/ Unchecked(Answer(a)),
         allow' # None => allow'.action # "block"
  PROVE  CompositeInv'
<1>1. Received' = Received \cup {a}
  BY DEF CompositeInv, Receive, Received
<1>2. UNCHANGED world
  BY DEF Receive
<1>3. \A b \in Analyzers : Answer(b)' = Answer(b)
  BY <1>2, SameWorld
<1>4. Folded'
  <2>1. \A b \in Received' : ~Malware(Answer(b)')
    BY <1>1, <1>3 DEF CompositeInv, Folded, Receive, Received
  <2>2. firstBlock' # None <=> \E b \in Received' : Blocks(Answer(b)')
    BY <1>1, <1>3 DEF CompositeInv, Folded, Receive, Received
  <2>3. degraded' <=> \E b \in Received' : Unchecked(Answer(b)')
    BY <1>1, <1>3 DEF CompositeInv, Folded, Receive, Received
  <2> QED
    BY <2>1, <2>2, <2>3 DEF Folded, Malware, Blocks, None, Result
<1>5. phase' \in [Analyzers -> {"running", "sent", "received"}]
  BY DEF CompositeInv, Receive
<1> QED
  BY <1>4, <1>5 DEF CompositeInv, BlockIsOrderFree, MalwareOutranksPolicy, None, Result

LEMMA StepComposite == CompositeInv /\ [AnalysisNext]_analysisVars => CompositeInv'
<1> SUFFICES ASSUME CompositeInv, [AnalysisNext]_analysisVars PROVE CompositeInv'
  OBVIOUS
<1> USE DEF analysisVars, localVars
<1>1. ASSUME NEW a \in Analyzers, Send(a) PROVE CompositeInv'
  <2>1. Received' = Received /\ phase' \in [Analyzers -> {"running", "sent", "received"}]
    BY <1>1 DEF Send, CompositeInv, Received
  <2>2. UNCHANGED <<world, localVars, returned>>
    BY <1>1 DEF Send
  <2> QED
    BY <2>1, <2>2, SameWorld DEF CompositeInv, Folded, Received, BlockIsOrderFree,
      MalwareOutranksPolicy, Malware, Blocks, None, Result
<1>2. ASSUME NEW a \in Analyzers, ReceiveError(a) PROVE CompositeInv'
  <2>1. ~Blocks(Answer(a)) /\ ~Malware(Answer(a)) /\ Unchecked(Answer(a))
    BY <1>2 DEF ReceiveError, Malware, Blocks, Partial, Unchecked, IsError, Failed, NotFound, Result
  <2>2. Receive(a) /\ returned' = None /\ degraded' = TRUE /\ UNCHANGED <<allow, firstBlock>>
    BY <1>2 DEF ReceiveError, Receive
  <2> QED
    BY <2>1, <2>2, ReceiveFolds DEF CompositeInv, Folded, Receive
<1>3. ASSUME NEW a \in Analyzers, ReceiveMalware(a) PROVE CompositeInv'
  BY <1>3, SameWorld DEF ReceiveMalware, Receive, CompositeInv, Folded, BlockIsOrderFree,
     MalwareOutranksPolicy, SomeBlocks, SomeMalware, Malware, Blocks, None, Result
<1>4. ASSUME NEW a \in Analyzers, ReceiveBlock(a) PROVE CompositeInv'
  <2>1. ~Malware(Answer(a)) /\ Blocks(Answer(a)) /\ ~Unchecked(Answer(a)) /\ Answer(a) # None
    BY <1>4 DEF ReceiveBlock, Malware, Blocks, Partial, Unchecked, Failed, NotFound, None, Result
  <2>2. /\ Receive(a) /\ returned' = None /\ UNCHANGED <<allow, degraded>>
        /\ firstBlock' = IF firstBlock = None THEN Answer(a) ELSE firstBlock
    BY <1>4 DEF ReceiveBlock, Receive
  <2>3. returned = None /\ Answer(a).action = "block"
    BY <1>4, <2>1 DEF ReceiveBlock, Receive, Blocks
  <2> QED
    BY <2>1, <2>2, <2>3, ReceiveFolds DEF CompositeInv, Folded
<1>5. ASSUME NEW a \in Analyzers, ReceiveOther(a) PROVE CompositeInv'
  BY <1>5, ReceiveFolds DEF ReceiveOther, Receive, CompositeInv, Folded, Malware, Blocks,
     Partial, Unchecked, IsError, Failed, NotFound, None, Result
<1>6. CASE Return
  BY <1>6, SameWorld DEF Return, CompositeInv, Folded, Received, BlockIsOrderFree,
     MalwareOutranksPolicy, SomeBlocks, SomeMalware, SomePartial, SomeUnknown,
     Unchecked, Malware, Allow, None, Result
<1>7. CASE UNCHANGED analysisVars
  BY <1>7, SameWorld DEF CompositeInv, Folded, Received, BlockIsOrderFree,
     MalwareOutranksPolicy, Malware, Blocks, None, Result
<1> QED
  BY <1>1, <1>2, <1>3, <1>4, <1>5, <1>6, <1>7 DEF AnalysisNext, Loop

THEOREM CompositeInvariance == AnalysisSpec => []CompositeInv
BY InitComposite, StepComposite, PTL DEF AnalysisSpec

\* Whether the composite blocks does not depend on the order of arrival, nor on an
\* early return, whatever analyzers are configured.
THEOREM BlockOrderFree == AnalysisSpec => []BlockIsOrderFree
BY CompositeInvariance, PTL DEF CompositeInv

\* Malware is reported as malware also when the policy's block arrives first.
THEOREM MalwareFirst == AnalysisSpec => []MalwareOutranksPolicy
BY CompositeInvariance, PTL DEF CompositeInv

\* Whether composite.go blocks, and whether it says malware, is settled by what the
\* analyzers answer and not by the order in which they do, for any set of analyzers; no
\* more than that is, for the order decides between an Allow and a Confirm.
THEOREM VerdictRight == AnalysisSpec => []VerdictIsRight
<1>1. BlockIsOrderFree /\ MalwareOutranksPolicy => VerdictIsRight
  BY DEF VerdictIsRight
<1> QED
  BY <1>1, BlockOrderFree, MalwareFirst, PTL
-----------------------------------------------------------------------------
(***************************************************************************)
(* Proofs about AikidoFeed, for any number of analyses, of background        *)
(* goroutines, of editions of the feed and of restarts of the process.       *)
(*                                                                         *)
(* That only one goroutine loads follows from two mechanisms that know       *)
(* nothing of each other, the once and the compare-and-swap.  What keeps     *)
(* them apart is the snapshot: the once loads only while there is none, a    *)
(* refresher exists only when there is one, and a process never loses its    *)
(* snapshot.  FeedInv says so of each kind of goroutine.                     *)
(***************************************************************************)

\* The goroutine in once.Do, which it shares with nobody; it loads into nothing.
CallerOf(c) ==
  /\ pc[c] \in Loading \cup {"leaving"} => once = "running"
  /\ pc[c] \in Loading => snapshot.ed = 0
  /\ pc[c] = "reread" => once = "done"
  /\ pc[c] = "stale" => snapshot.ed # 0 /\ got[c] # 0
  /\ pc[c] = "answered" /\ got[c] = 0 => once = "done" /\ snapshot.ed = 0

OnceHolds ==
  /\ \A c \in Callers : CallerOf(c)
  /\ \A c, d \in Callers :
       pc[c] \in Loading \cup {"leaving"} /\ pc[d] \in Loading \cup {"leaving"} => c = d
  /\ once = "new" => snapshot.ed = 0

\* The flag is set while a refresher runs, and only one does, over a snapshot.
RefreshHolds ==
  /\ \A r \in Refreshers : /\ pc[r] \in Loading \cup {"idle", "leaving"}
                           /\ pc[r] # "idle" => refreshing /\ snapshot.ed # 0
  /\ \A r, s \in Refreshers : pc[r] # "idle" /\ pc[s] # "idle" => r = s

\* No edition is of the future, and none is empty that is about to be published.
EditionsHold ==
  /\ \A l \in Loaders : pc[l] \in {"saving", "writing", "publishing"} => got[l] \in 1..upstream
  /\ disk <= upstream
  /\ snapshot.ed <= upstream
  /\ FetchNeverRegresses

FeedInv == TypeOK /\ OnceHolds /\ RefreshHolds /\ EditionsHold

LEMMA NoSnapshotType == NoSnapshot \in [ed : EditionOrNone, fresh : BOOLEAN]
<1>1. 0 \in EditionOrNone
  BY FeedAssumption DEF EditionOrNone
<1> QED
  BY <1>1, Zenon DEF NoSnapshot

LEMMA FeedInit == Init => FeedInv
<1> SUFFICES ASSUME Init PROVE FeedInv
  OBVIOUS
<1> USE FeedAssumption DEF Init, Loaders
<1>1. TypeOK
  <2>1. snapshot \in [ed : EditionOrNone, fresh : BOOLEAN]
    BY NoSnapshotType
  <2>2. pc \in [Loaders -> Phases]
    BY DEF Phases
  <2>3. got \in [Loaders -> EditionOrNone]
    BY DEF EditionOrNone
  <2>4. upstream \in 1..Editions /\ disk \in EditionOrNone /\ restarts \in 0..Restarts
    BY DEF EditionOrNone
  <2>5. refreshing \in BOOLEAN /\ once \in {"new", "running", "done"}
    OBVIOUS
  <2> QED
    BY <2>1, <2>2, <2>3, <2>4, <2>5, Zenon DEF TypeOK
<1>2. OnceHolds /\ RefreshHolds
  BY DEF OnceHolds, CallerOf, RefreshHolds, Loading, NoSnapshot
<1>3. EditionsHold
  BY DEF EditionsHold, FetchNeverRegresses, NoSnapshot
<1> QED
  BY <1>1, <1>2, <1>3 DEF FeedInv

LEMMA FeedTypeStep == FeedInv /\ [Next]_vars => TypeOK'
<1> SUFFICES ASSUME FeedInv, [Next]_vars PROVE TypeOK'
  OBVIOUS
<1> USE FeedAssumption DEF Loaders, Goto, Hold, Loading, goVars, memVars, TypeOK, EditionOrNone, Phases
<1>0. TypeOK /\ OnceHolds /\ RefreshHolds /\ EditionsHold
  BY DEF FeedInv
<1>1. ASSUME NEW c \in Callers, LookFresh(c) PROVE TypeOK'
  BY <1>0, <1>1 DEF LookFresh
<1>2. ASSUME NEW c \in Callers, LookStale(c) PROVE TypeOK'
  BY <1>0, <1>2 DEF LookStale
<1>3. ASSUME NEW c \in Callers, LookNone(c) PROVE TypeOK'
  BY <1>0, <1>3 DEF LookNone
<1>4. ASSUME NEW c \in Callers, EnterOnce(c) PROVE TypeOK'
  BY <1>0, <1>4 DEF EnterOnce
<1>5. ASSUME NEW c \in Callers, PassOnce(c) PROVE TypeOK'
  BY <1>0, <1>5 DEF PassOnce
<1>6. ASSUME NEW c \in Callers, LeaveOnce(c) PROVE TypeOK'
  BY <1>0, <1>6 DEF LeaveOnce
<1>7. ASSUME NEW c \in Callers, Reread(c) PROVE TypeOK'
  BY <1>0, <1>7 DEF Reread
<1>8. ASSUME NEW c \in Callers, StartRefresh(c) PROVE TypeOK'
  BY <1>0, <1>8 DEF StartRefresh
<1>9. ASSUME NEW c \in Callers, RefreshRuns(c) PROVE TypeOK'
  BY <1>0, <1>9 DEF RefreshRuns
<1>10. ASSUME NEW c \in Callers, NextCall(c) PROVE TypeOK'
  BY <1>0, <1>10 DEF NextCall
<1>11. ASSUME NEW r \in Refreshers, EndRefresh(r) PROVE TypeOK'
  <2>1. got' \in [Loaders -> EditionOrNone] /\ pc' \in [Loaders -> Phases]
    BY <1>0, <1>11 DEF EndRefresh
  <2>2. refreshing' \in BOOLEAN /\ UNCHANGED <<snapshot, once, upstream, disk, restarts>>
    BY <1>11 DEF EndRefresh
  <2> QED
    BY <1>0, <2>1, <2>2 DEF TypeOK
<1>12. ASSUME NEW l \in Loaders, Fetched(l) PROVE TypeOK'
  BY <1>0, <1>12 DEF Fetched
<1>13. ASSUME NEW l \in Loaders, FetchFailed(l) PROVE TypeOK'
  BY <1>0, <1>13 DEF FetchFailed
<1>14. ASSUME NEW l \in Loaders, ReadDisk(l) PROVE TypeOK'
  BY <1>0, <1>14 DEF ReadDisk
<1>15. ASSUME NEW l \in Loaders, NoDisk(l) PROVE TypeOK'
  BY <1>0, <1>15 DEF NoDisk
<1>16. ASSUME NEW l \in Loaders, Truncate(l) PROVE TypeOK'
  BY <1>0, <1>16 DEF Truncate
<1>17. ASSUME NEW l \in Loaders, SaveFailed(l) PROVE TypeOK'
  BY <1>0, <1>17 DEF SaveFailed
<1>18. ASSUME NEW l \in Loaders, Write(l) PROVE TypeOK'
  BY <1>0, <1>18 DEF Write
<1>19. ASSUME NEW l \in Loaders, Publish(l) PROVE TypeOK'
  BY <1>0, <1>19 DEF Publish
<1>20. ASSUME RunCommand PROVE TypeOK'
  BY <1>0, <1>20 DEF RunCommand
<1>21. ASSUME EndCommand PROVE TypeOK'
  BY <1>0, <1>21 DEF EndCommand
<1>22. ASSUME Expire PROVE TypeOK'
  BY <1>0, <1>22 DEF Expire
<1>23. ASSUME NewEdition PROVE TypeOK'
  BY <1>0, <1>23 DEF NewEdition
<1>24. ASSUME Restart PROVE TypeOK'
  <2>1. snapshot' \in [ed : EditionOrNone, fresh : BOOLEAN]
    BY <1>24, NoSnapshotType DEF Restart
  <2>2. pc' \in [Loaders -> Phases] /\ got' \in [Loaders -> EditionOrNone]
    BY <1>0, <1>24 DEF Restart
  <2>3. upstream' \in 1..Editions /\ disk' \in EditionOrNone /\ restarts' \in 0..Restarts
    BY <1>0, <1>24 DEF Restart
  <2>4. refreshing' \in BOOLEAN /\ once' \in {"new", "running", "done"}
    BY <1>24 DEF Restart
  <2> QED
    BY <2>1, <2>2, <2>3, <2>4, Zenon DEF TypeOK
<1>25. CASE UNCHANGED vars
  BY <1>0, <1>25 DEF vars
<1> QED
  BY <1>1, <1>2, <1>3, <1>4, <1>5, <1>6, <1>7, <1>8, <1>9, <1>10, <1>11, <1>12, <1>13, <1>14, <1>15, <1>16, <1>17, <1>18, <1>19, <1>20, <1>21, <1>22, <1>23, <1>24, <1>25 DEF Next, Progress, Call, Load

\* Through a step of the once, of a refresher or of a load the once stays in one hand.
LEMMA OnceStep == FeedInv /\ [Next]_vars => OnceHolds'
<1> SUFFICES ASSUME FeedInv, [Next]_vars PROVE OnceHolds'
  OBVIOUS
<1> USE FeedAssumption DEF Loaders, Goto, Hold, Loading, goVars, memVars, OnceHolds, CallerOf, RefreshHolds, EditionsHold, TypeOK, EditionOrNone, NoSnapshot
<1>0. TypeOK /\ OnceHolds /\ RefreshHolds /\ EditionsHold
  BY DEF FeedInv
<1>1. ASSUME NEW c \in Callers, LookFresh(c) PROVE OnceHolds'
  BY <1>0, <1>1 DEF LookFresh
<1>2. ASSUME NEW c \in Callers, LookStale(c) PROVE OnceHolds'
  BY <1>0, <1>2 DEF LookStale
<1>3. ASSUME NEW c \in Callers, LookNone(c) PROVE OnceHolds'
  BY <1>0, <1>3 DEF LookNone
<1>4. ASSUME NEW c \in Callers, EnterOnce(c) PROVE OnceHolds'
  BY <1>0, <1>4 DEF EnterOnce
<1>5. ASSUME NEW c \in Callers, PassOnce(c) PROVE OnceHolds'
  BY <1>0, <1>5 DEF PassOnce
<1>6. ASSUME NEW c \in Callers, LeaveOnce(c) PROVE OnceHolds'
  BY <1>0, <1>6 DEF LeaveOnce
<1>7. ASSUME NEW c \in Callers, Reread(c) PROVE OnceHolds'
  BY <1>0, <1>7 DEF Reread
<1>8. ASSUME NEW c \in Callers, StartRefresh(c) PROVE OnceHolds'
  BY <1>0, <1>8 DEF StartRefresh
<1>9. ASSUME NEW c \in Callers, RefreshRuns(c) PROVE OnceHolds'
  BY <1>0, <1>9 DEF RefreshRuns
<1>10. ASSUME NEW c \in Callers, NextCall(c) PROVE OnceHolds'
  BY <1>0, <1>10 DEF NextCall
<1>11. ASSUME NEW r \in Refreshers, EndRefresh(r) PROVE OnceHolds'
  BY <1>0, <1>11 DEF EndRefresh
<1>12. ASSUME NEW l \in Loaders, Fetched(l) PROVE OnceHolds'
  BY <1>0, <1>12 DEF Fetched
<1>13. ASSUME NEW l \in Loaders, FetchFailed(l) PROVE OnceHolds'
  BY <1>0, <1>13 DEF FetchFailed
<1>14. ASSUME NEW l \in Loaders, ReadDisk(l) PROVE OnceHolds'
  BY <1>0, <1>14 DEF ReadDisk
<1>15. ASSUME NEW l \in Loaders, NoDisk(l) PROVE OnceHolds'
  BY <1>0, <1>15 DEF NoDisk
<1>16. ASSUME NEW l \in Loaders, Truncate(l) PROVE OnceHolds'
  BY <1>0, <1>16 DEF Truncate
<1>17. ASSUME NEW l \in Loaders, SaveFailed(l) PROVE OnceHolds'
  BY <1>0, <1>17 DEF SaveFailed
<1>18. ASSUME NEW l \in Loaders, Write(l) PROVE OnceHolds'
  BY <1>0, <1>18 DEF Write
<1>19. ASSUME NEW l \in Loaders, Publish(l) PROVE OnceHolds'
  BY <1>0, <1>19 DEF Publish
<1>20. ASSUME RunCommand PROVE OnceHolds'
  BY <1>0, <1>20 DEF RunCommand
<1>21. ASSUME EndCommand PROVE OnceHolds'
  BY <1>0, <1>21 DEF EndCommand
<1>22. ASSUME Expire PROVE OnceHolds'
  BY <1>0, <1>22 DEF Expire
<1>23. ASSUME NewEdition PROVE OnceHolds'
  BY <1>0, <1>23 DEF NewEdition
<1>24. ASSUME Restart PROVE OnceHolds'
  BY <1>0, <1>24 DEF Restart
<1>25. CASE UNCHANGED vars
  BY <1>0, <1>25 DEF vars
<1> QED
  BY <1>1, <1>2, <1>3, <1>4, <1>5, <1>6, <1>7, <1>8, <1>9, <1>10, <1>11, <1>12, <1>13, <1>14, <1>15, <1>16, <1>17, <1>18, <1>19, <1>20, <1>21, <1>22, <1>23, <1>24, <1>25 DEF Next, Progress, Call, Load

LEMMA RefreshStep == FeedInv /\ [Next]_vars => RefreshHolds'
<1> SUFFICES ASSUME FeedInv, [Next]_vars PROVE RefreshHolds'
  OBVIOUS
<1> USE FeedAssumption DEF Loaders, Goto, Hold, Loading, goVars, memVars, OnceHolds, CallerOf, RefreshHolds, EditionsHold, TypeOK, EditionOrNone, NoSnapshot
<1>0. TypeOK /\ OnceHolds /\ RefreshHolds /\ EditionsHold
  BY DEF FeedInv
<1>1. ASSUME NEW c \in Callers, LookFresh(c) PROVE RefreshHolds'
  BY <1>0, <1>1 DEF LookFresh
<1>2. ASSUME NEW c \in Callers, LookStale(c) PROVE RefreshHolds'
  BY <1>0, <1>2 DEF LookStale
<1>3. ASSUME NEW c \in Callers, LookNone(c) PROVE RefreshHolds'
  BY <1>0, <1>3 DEF LookNone
<1>4. ASSUME NEW c \in Callers, EnterOnce(c) PROVE RefreshHolds'
  BY <1>0, <1>4 DEF EnterOnce
<1>5. ASSUME NEW c \in Callers, PassOnce(c) PROVE RefreshHolds'
  BY <1>0, <1>5 DEF PassOnce
<1>6. ASSUME NEW c \in Callers, LeaveOnce(c) PROVE RefreshHolds'
  BY <1>0, <1>6 DEF LeaveOnce
<1>7. ASSUME NEW c \in Callers, Reread(c) PROVE RefreshHolds'
  BY <1>0, <1>7 DEF Reread
<1>8. ASSUME NEW c \in Callers, StartRefresh(c) PROVE RefreshHolds'
  BY <1>0, <1>8 DEF StartRefresh
<1>9. ASSUME NEW c \in Callers, RefreshRuns(c) PROVE RefreshHolds'
  BY <1>0, <1>9 DEF RefreshRuns
<1>10. ASSUME NEW c \in Callers, NextCall(c) PROVE RefreshHolds'
  BY <1>0, <1>10 DEF NextCall
<1>11. ASSUME NEW r \in Refreshers, EndRefresh(r) PROVE RefreshHolds'
  BY <1>0, <1>11 DEF EndRefresh
<1>12. ASSUME NEW l \in Loaders, Fetched(l) PROVE RefreshHolds'
  BY <1>0, <1>12 DEF Fetched
<1>13. ASSUME NEW l \in Loaders, FetchFailed(l) PROVE RefreshHolds'
  BY <1>0, <1>13 DEF FetchFailed
<1>14. ASSUME NEW l \in Loaders, ReadDisk(l) PROVE RefreshHolds'
  BY <1>0, <1>14 DEF ReadDisk
<1>15. ASSUME NEW l \in Loaders, NoDisk(l) PROVE RefreshHolds'
  BY <1>0, <1>15 DEF NoDisk
<1>16. ASSUME NEW l \in Loaders, Truncate(l) PROVE RefreshHolds'
  BY <1>0, <1>16 DEF Truncate
<1>17. ASSUME NEW l \in Loaders, SaveFailed(l) PROVE RefreshHolds'
  BY <1>0, <1>17 DEF SaveFailed
<1>18. ASSUME NEW l \in Loaders, Write(l) PROVE RefreshHolds'
  BY <1>0, <1>18 DEF Write
<1>19. ASSUME NEW l \in Loaders, Publish(l) PROVE RefreshHolds'
  BY <1>0, <1>19 DEF Publish
<1>20. ASSUME RunCommand PROVE RefreshHolds'
  BY <1>0, <1>20 DEF RunCommand
<1>21. ASSUME EndCommand PROVE RefreshHolds'
  BY <1>0, <1>21 DEF EndCommand
<1>22. ASSUME Expire PROVE RefreshHolds'
  BY <1>0, <1>22 DEF Expire
<1>23. ASSUME NewEdition PROVE RefreshHolds'
  BY <1>0, <1>23 DEF NewEdition
<1>24. ASSUME Restart PROVE RefreshHolds'
  BY <1>0, <1>24 DEF Restart
<1>25. CASE UNCHANGED vars
  BY <1>0, <1>25 DEF vars
<1> QED
  BY <1>1, <1>2, <1>3, <1>4, <1>5, <1>6, <1>7, <1>8, <1>9, <1>10, <1>11, <1>12, <1>13, <1>14, <1>15, <1>16, <1>17, <1>18, <1>19, <1>20, <1>21, <1>22, <1>23, <1>24, <1>25 DEF Next, Progress, Call, Load

LEMMA EditionsStep == FeedInv /\ [Next]_vars => EditionsHold'
<1> SUFFICES ASSUME FeedInv, [Next]_vars PROVE EditionsHold'
  OBVIOUS
<1> USE FeedAssumption DEF Loaders, Goto, Hold, Loading, goVars, memVars, OnceHolds, CallerOf, RefreshHolds, EditionsHold, FetchNeverRegresses, TypeOK, EditionOrNone, NoSnapshot
<1>0. TypeOK /\ OnceHolds /\ RefreshHolds /\ EditionsHold
  BY DEF FeedInv
<1>1. ASSUME NEW c \in Callers, LookFresh(c) PROVE EditionsHold'
  BY <1>0, <1>1 DEF LookFresh
<1>2. ASSUME NEW c \in Callers, LookStale(c) PROVE EditionsHold'
  BY <1>0, <1>2 DEF LookStale
<1>3. ASSUME NEW c \in Callers, LookNone(c) PROVE EditionsHold'
  BY <1>0, <1>3 DEF LookNone
<1>4. ASSUME NEW c \in Callers, EnterOnce(c) PROVE EditionsHold'
  BY <1>0, <1>4 DEF EnterOnce
<1>5. ASSUME NEW c \in Callers, PassOnce(c) PROVE EditionsHold'
  BY <1>0, <1>5 DEF PassOnce
<1>6. ASSUME NEW c \in Callers, LeaveOnce(c) PROVE EditionsHold'
  BY <1>0, <1>6 DEF LeaveOnce
<1>7. ASSUME NEW c \in Callers, Reread(c) PROVE EditionsHold'
  BY <1>0, <1>7 DEF Reread
<1>8. ASSUME NEW c \in Callers, StartRefresh(c) PROVE EditionsHold'
  BY <1>0, <1>8 DEF StartRefresh
<1>9. ASSUME NEW c \in Callers, RefreshRuns(c) PROVE EditionsHold'
  BY <1>0, <1>9 DEF RefreshRuns
<1>10. ASSUME NEW c \in Callers, NextCall(c) PROVE EditionsHold'
  BY <1>0, <1>10 DEF NextCall
<1>11. ASSUME NEW r \in Refreshers, EndRefresh(r) PROVE EditionsHold'
  BY <1>0, <1>11 DEF EndRefresh
<1>12. ASSUME NEW l \in Loaders, Fetched(l) PROVE EditionsHold'
  BY <1>0, <1>12 DEF Fetched
<1>13. ASSUME NEW l \in Loaders, FetchFailed(l) PROVE EditionsHold'
  BY <1>0, <1>13 DEF FetchFailed
<1>14. ASSUME NEW l \in Loaders, ReadDisk(l) PROVE EditionsHold'
  BY <1>0, <1>14 DEF ReadDisk
<1>15. ASSUME NEW l \in Loaders, NoDisk(l) PROVE EditionsHold'
  BY <1>0, <1>15 DEF NoDisk
<1>16. ASSUME NEW l \in Loaders, Truncate(l) PROVE EditionsHold'
  BY <1>0, <1>16 DEF Truncate
<1>17. ASSUME NEW l \in Loaders, SaveFailed(l) PROVE EditionsHold'
  BY <1>0, <1>17 DEF SaveFailed
<1>18. ASSUME NEW l \in Loaders, Write(l) PROVE EditionsHold'
  BY <1>0, <1>18 DEF Write
<1>19. ASSUME NEW l \in Loaders, Publish(l) PROVE EditionsHold'
  BY <1>0, <1>19 DEF Publish
<1>20. ASSUME RunCommand PROVE EditionsHold'
  BY <1>0, <1>20 DEF RunCommand
<1>21. ASSUME EndCommand PROVE EditionsHold'
  BY <1>0, <1>21 DEF EndCommand
<1>22. ASSUME Expire PROVE EditionsHold'
  BY <1>0, <1>22 DEF Expire
<1>23. ASSUME NewEdition PROVE EditionsHold'
  BY <1>0, <1>23 DEF NewEdition
<1>24. ASSUME Restart PROVE EditionsHold'
  BY <1>0, <1>24 DEF Restart
<1>25. CASE UNCHANGED vars
  BY <1>0, <1>25 DEF vars
<1> QED
  BY <1>1, <1>2, <1>3, <1>4, <1>5, <1>6, <1>7, <1>8, <1>9, <1>10, <1>11, <1>12, <1>13, <1>14, <1>15, <1>16, <1>17, <1>18, <1>19, <1>20, <1>21, <1>22, <1>23, <1>24, <1>25 DEF Next, Progress, Call, Load

THEOREM FeedInvariance == Spec => []FeedInv
<1> QED
  BY FeedInit, FeedTypeStep, OnceStep, RefreshStep, EditionsStep, PTL DEF FeedInv, Spec

\* The feed of a process is well formed, for every number of its goroutines.
THEOREM FeedTypeCorrect == Spec => []TypeOK
<1>1. FeedInv => TypeOK
  BY DEF FeedInv
<1> QED
  BY <1>1, FeedInvariance, PTL

\* A single goroutine of the process loads the feed at any time, whichever of the
\* once and the compare-and-swap let it in.
THEOREM SingleFlight == Spec => []OneLoadAtATime
<1>1. FeedInv => OneLoadAtATime
  BY DEF FeedInv, OneLoadAtATime, OnceHolds, CallerOf, RefreshHolds, Loading
<1> QED
  BY <1>1, FeedInvariance, PTL

\* Where one analysis was told that there is no feed, none reads one.
THEOREM DegradedIsFinal == Spec => []DegradedMeansUnloaded
<1>1. FeedInv => DegradedMeansUnloaded
  BY DEF FeedInv, DegradedMeansUnloaded, OnceHolds, CallerOf
<1> QED
  BY <1>1, FeedInvariance, PTL

\* What is fetched is never older than what it replaces.
THEOREM FetchIsForward == Spec => []FetchNeverRegresses
<1>1. FeedInv => FetchNeverRegresses
  BY DEF FeedInv, EditionsHold
<1> QED
  BY <1>1, FeedInvariance, PTL

\* No step but the end of the process takes the snapshot away.
LEMMA KeepStep == FeedInv /\ [Next]_vars => (snapshot.ed # 0 => snapshot'.ed # 0 \/ restarts' # restarts)
<1> SUFFICES ASSUME FeedInv, [Next]_vars PROVE (snapshot.ed # 0 => snapshot'.ed # 0 \/ restarts' # restarts)
  OBVIOUS
<1> USE FeedAssumption DEF Loaders, Goto, Hold, Loading, goVars, memVars, EditionsHold, TypeOK, EditionOrNone, NoSnapshot
<1>0. TypeOK /\ OnceHolds /\ RefreshHolds /\ EditionsHold
  BY DEF FeedInv
<1>1. ASSUME NEW c \in Callers, LookFresh(c) PROVE (snapshot.ed # 0 => snapshot'.ed # 0 \/ restarts' # restarts)
  BY <1>0, <1>1 DEF LookFresh
<1>2. ASSUME NEW c \in Callers, LookStale(c) PROVE (snapshot.ed # 0 => snapshot'.ed # 0 \/ restarts' # restarts)
  BY <1>0, <1>2 DEF LookStale
<1>3. ASSUME NEW c \in Callers, LookNone(c) PROVE (snapshot.ed # 0 => snapshot'.ed # 0 \/ restarts' # restarts)
  BY <1>0, <1>3 DEF LookNone
<1>4. ASSUME NEW c \in Callers, EnterOnce(c) PROVE (snapshot.ed # 0 => snapshot'.ed # 0 \/ restarts' # restarts)
  BY <1>0, <1>4 DEF EnterOnce
<1>5. ASSUME NEW c \in Callers, PassOnce(c) PROVE (snapshot.ed # 0 => snapshot'.ed # 0 \/ restarts' # restarts)
  BY <1>0, <1>5 DEF PassOnce
<1>6. ASSUME NEW c \in Callers, LeaveOnce(c) PROVE (snapshot.ed # 0 => snapshot'.ed # 0 \/ restarts' # restarts)
  BY <1>0, <1>6 DEF LeaveOnce
<1>7. ASSUME NEW c \in Callers, Reread(c) PROVE (snapshot.ed # 0 => snapshot'.ed # 0 \/ restarts' # restarts)
  BY <1>0, <1>7 DEF Reread
<1>8. ASSUME NEW c \in Callers, StartRefresh(c) PROVE (snapshot.ed # 0 => snapshot'.ed # 0 \/ restarts' # restarts)
  BY <1>0, <1>8 DEF StartRefresh
<1>9. ASSUME NEW c \in Callers, RefreshRuns(c) PROVE (snapshot.ed # 0 => snapshot'.ed # 0 \/ restarts' # restarts)
  BY <1>0, <1>9 DEF RefreshRuns
<1>10. ASSUME NEW c \in Callers, NextCall(c) PROVE (snapshot.ed # 0 => snapshot'.ed # 0 \/ restarts' # restarts)
  BY <1>0, <1>10 DEF NextCall
<1>11. ASSUME NEW r \in Refreshers, EndRefresh(r) PROVE (snapshot.ed # 0 => snapshot'.ed # 0 \/ restarts' # restarts)
  BY <1>0, <1>11 DEF EndRefresh
<1>12. ASSUME NEW l \in Loaders, Fetched(l) PROVE (snapshot.ed # 0 => snapshot'.ed # 0 \/ restarts' # restarts)
  BY <1>0, <1>12 DEF Fetched
<1>13. ASSUME NEW l \in Loaders, FetchFailed(l) PROVE (snapshot.ed # 0 => snapshot'.ed # 0 \/ restarts' # restarts)
  BY <1>0, <1>13 DEF FetchFailed
<1>14. ASSUME NEW l \in Loaders, ReadDisk(l) PROVE (snapshot.ed # 0 => snapshot'.ed # 0 \/ restarts' # restarts)
  BY <1>0, <1>14 DEF ReadDisk
<1>15. ASSUME NEW l \in Loaders, NoDisk(l) PROVE (snapshot.ed # 0 => snapshot'.ed # 0 \/ restarts' # restarts)
  BY <1>0, <1>15 DEF NoDisk
<1>16. ASSUME NEW l \in Loaders, Truncate(l) PROVE (snapshot.ed # 0 => snapshot'.ed # 0 \/ restarts' # restarts)
  BY <1>0, <1>16 DEF Truncate
<1>17. ASSUME NEW l \in Loaders, SaveFailed(l) PROVE (snapshot.ed # 0 => snapshot'.ed # 0 \/ restarts' # restarts)
  BY <1>0, <1>17 DEF SaveFailed
<1>18. ASSUME NEW l \in Loaders, Write(l) PROVE (snapshot.ed # 0 => snapshot'.ed # 0 \/ restarts' # restarts)
  BY <1>0, <1>18 DEF Write
<1>19. ASSUME NEW l \in Loaders, Publish(l) PROVE (snapshot.ed # 0 => snapshot'.ed # 0 \/ restarts' # restarts)
  BY <1>0, <1>19 DEF Publish
<1>20. ASSUME RunCommand PROVE (snapshot.ed # 0 => snapshot'.ed # 0 \/ restarts' # restarts)
  BY <1>0, <1>20 DEF RunCommand
<1>21. ASSUME EndCommand PROVE (snapshot.ed # 0 => snapshot'.ed # 0 \/ restarts' # restarts)
  BY <1>0, <1>21 DEF EndCommand
<1>22. ASSUME Expire PROVE (snapshot.ed # 0 => snapshot'.ed # 0 \/ restarts' # restarts)
  BY <1>0, <1>22 DEF Expire
<1>23. ASSUME NewEdition PROVE (snapshot.ed # 0 => snapshot'.ed # 0 \/ restarts' # restarts)
  BY <1>0, <1>23 DEF NewEdition
<1>24. ASSUME Restart PROVE (snapshot.ed # 0 => snapshot'.ed # 0 \/ restarts' # restarts)
  BY <1>0, <1>24 DEF Restart
<1>25. CASE UNCHANGED vars
  BY <1>0, <1>25 DEF vars
<1> QED
  BY <1>1, <1>2, <1>3, <1>4, <1>5, <1>6, <1>7, <1>8, <1>9, <1>10, <1>11, <1>12, <1>13, <1>14, <1>15, <1>16, <1>17, <1>18, <1>19, <1>20, <1>21, <1>22, <1>23, <1>24, <1>25 DEF Next, Progress, Call, Load

\* A process that has the feed keeps it.
THEOREM FeedIsKept == Spec => LoadedStaysLoaded
<1>1. FeedInv /\ [Next]_vars => [snapshot.ed # 0 => snapshot'.ed # 0 \/ restarts' # restarts]_vars
  BY KeepStep
<1> QED
  BY <1>1, FeedInvariance, PTL DEF Spec, LoadedStaysLoaded

\* One load at a time, and one answer to whether there is a feed, for any number of
\* analyses and background refreshes (analyzer/aikido_intel.go).
THEOREM LoadsSound == Spec => []LoadsAreSound
<1>1. OneLoadAtATime /\ DegradedMeansUnloaded => LoadsAreSound
  BY DEF LoadsAreSound
<1> QED
  BY <1>1, SingleFlight, DegradedIsFinal, PTL

-----------------------------------------------------------------------------
(***************************************************************************)
(* The resolver, for any graphs, depth and concurrency.  The calls made are a *)
(* tree: every path from the root to a call consists of calls, and those      *)
(* above a call that has not ended are waiting for it.                        *)
(***************************************************************************)

PathUpTo(c, i) == SubSeq(c, 1, i)

TreeHolds ==
  \A c \in Calls :
    /\ Len(c) - 1 <= MaxDepth
    /\ PathUpTo(c, 1) = Top
    /\ \A i \in 1..Len(c)-1 :
         /\ PathUpTo(c, i) \in Calls
         /\ PathUpTo(c, i+1) \in Children(PathUpTo(c, i))

JoinersWait ==
  \A c \in Calls : at[c] \notin Ended =>
    \A i \in 1..Len(c)-1 : at[PathUpTo(c, i)] = "joining"

\* A failure makes its way up, or has arrived.
FailuresRise ==
  \A c \in Calls :
    /\ at[c] = "gaveUp" => ~failFast
    /\ at[c] = "failed" =>
         /\ failFast
         /\ \A i \in 1..Len(c)-1 : at[PathUpTo(c, i)] \in {"joining", "failed"}

\* The calls that have marked their package, and look or have looked into it.
Looked == CallPhases \ {"waiting", "entered", "skipped"}

MarksHold ==
  /\ VisitedOnce
  /\ \A c \in Calls : at[c] \in Looked \cup {"skipped"} => Package(c) \in visited
  /\ \A p \in visited : \E c \in Calls : Package(c) = p /\ at[c] \in Looked

\* What has been found has been looked into, or is being, or is a leaf of the search.
ResultHolds ==
  /\ \A c \in Calls : at[c] \in {"joining", "resolved"} => deps[Package(c)] \subseteq result
  /\ \A p \in result :
       \/ \E c \in Calls : Package(c) = p
       \/ \E c \in Calls : Depth(c) = MaxDepth /\ at[c] \in Looked

ResolverInv == WalkTypeOK /\ TreeHolds /\ JoinersWait /\ FailuresRise /\ MarksHold /\ ResultHolds

-----------------------------------------------------------------------------
(* Paths                                                                    *)

\* The part of a path up to one of its elements.
LEMMA PathProperties ==
  ASSUME NEW c \in Seq(Packages), NEW i \in 1..Len(c)
  PROVE  /\ PathUpTo(c, i) \in Seq(Packages)
         /\ Len(PathUpTo(c, i)) = i
         /\ \A j \in 1..i : PathUpTo(c, i)[j] = c[j]
         /\ PathUpTo(c, Len(c)) = c
BY SubSeqProperties, SubSeqFull DEF PathUpTo

\* A child's path goes over its parent's.
LEMMA ChildPath ==
  ASSUME NEW c \in Seq(Packages), c # <<>>, NEW p \in Packages, NEW i \in 1..Len(c)
  PROVE  /\ Append(c, p) \in Seq(Packages) \ {<<>>}
         /\ Len(Append(c, p)) = Len(c) + 1
         /\ Package(Append(c, p)) = p
         /\ PathUpTo(Append(c, p), i) = PathUpTo(c, i)
<1> DEFINE d == Append(c, p)
<1>1. d \in Seq(Packages) /\ d # <<>> /\ Len(d) = Len(c) + 1 /\ d[Len(c)+1] = p
      /\ \A j \in 1..Len(c) : d[j] = c[j]
  BY AppendProperties
<1>2. i \in 1..Len(d)
  BY <1>1
<1>3. PathUpTo(d, i) = PathUpTo(c, i)
  <2>1. /\ PathUpTo(d, i) \in Seq(Packages) /\ Len(PathUpTo(d, i)) = i
        /\ \A j \in 1..i : PathUpTo(d, i)[j] = d[j]
    BY <1>1, <1>2, PathProperties
  <2>2. /\ PathUpTo(c, i) \in Seq(Packages) /\ Len(PathUpTo(c, i)) = i
        /\ \A j \in 1..i : PathUpTo(c, i)[j] = c[j]
    BY PathProperties
  <2>3. \A j \in 1..i : PathUpTo(d, i)[j] = PathUpTo(c, i)[j]
    BY <1>1, <2>1, <2>2
  <2> QED
    BY <2>1, <2>2, <2>3, SeqEqual
<1> QED
  BY <1>1, <1>3 DEF Package

-----------------------------------------------------------------------------
(* A call that moves, and starts no other                                   *)

\* What Move changes.
LEMMA GotoChanges ==
  ASSUME WalkTypeOK, NEW c, NEW from, NEW to \in CallPhases, Move(c, from, to)
  PROVE  /\ c \in Calls /\ at[c] = from
         /\ Calls' = Calls
         /\ at' \in [Calls -> CallPhases]
         /\ at'[c] = to
         /\ \A d \in Calls : d # c => at'[d] = at[d]
BY DEF WalkTypeOK, Move, Calls

\* A call that was not waiting for others, and does not begin to, has none below it.
LEMMA MoveKeepsTree ==
  ASSUME WalkTypeOK, TreeHolds, JoinersWait, UNCHANGED deps, UNCHANGED failFast,
         NEW c \in Calls, NEW from \in CallPhases \ ({"joining"} \cup Ended),
         NEW to \in CallPhases, Move(c, from, to)
  PROVE  TreeHolds' /\ JoinersWait'
<1>1. Calls' = Calls /\ at[c] = from /\ at'[c] = to /\ \A d \in Calls : d # c => at'[d] = at[d]
  BY GotoChanges
<1>2. TreeHolds'
  BY <1>1 DEF TreeHolds, Top, Children, Package
<1>3. ASSUME NEW d \in Calls, at'[d] \notin Ended, NEW i \in 1..Len(d)-1
      PROVE  at'[PathUpTo(d, i)] = "joining"
  <2>1. at[d] \notin Ended
    BY <1>1, <1>3
  <2>2. at[PathUpTo(d, i)] = "joining" /\ PathUpTo(d, i) \in Calls
    BY <2>1, <1>3 DEF JoinersWait, TreeHolds
  <2> QED
    BY <2>2, <1>1
<1>4. JoinersWait'
  BY <1>1, <1>3 DEF JoinersWait
<1> QED
  BY <1>2, <1>4

-----------------------------------------------------------------------------
(* A call that starts others                                                *)

\* What FetchAndSpawn changes.
LEMMA SpawnChanges ==
  ASSUME WalkTypeOK, NEW c, FetchAndSpawn(c)
  PROVE  /\ c \in Calls /\ at[c] = "fetching" /\ at'[c] = "joining"
         /\ Calls' = Calls \cup Children(c)
         /\ \A d \in Calls : d # c => at'[d] = at[d]
         /\ \A d \in Children(c) : d \notin Calls => at'[d] = "waiting"
         /\ deps[Package(c)] \subseteq Packages
         /\ c \in Seq(Packages) \ {<<>>}
<1>1. /\ c \in Calls /\ at[c] = "fetching"
      /\ at' = [d \in Calls \cup Children(c) |->
                  IF d = c THEN "joining" ELSE IF d \in Calls THEN at[d] ELSE "waiting"]
  BY DEF FetchAndSpawn
<1>2. c \in Seq(Packages) \ {<<>>} /\ deps \in [Packages -> SUBSET Packages]
  BY <1>1, ResolverAssumption DEF WalkTypeOK
<1>3. Package(c) \in Packages
  BY <1>2 DEF Package
<1>4. Calls' = Calls \cup Children(c)
  BY <1>1 DEF Calls
<1> QED
  BY <1>1, <1>2, <1>3, <1>4

\* The new calls are below their parent, which waits for them.
LEMMA SpawnKeepsTree ==
  ASSUME WalkTypeOK, TreeHolds, JoinersWait, NEW c, FetchAndSpawn(c)
  PROVE  TreeHolds' /\ JoinersWait'
<1>1. deps' = deps /\ Len(c) - 1 < MaxDepth
  BY DEF FetchAndSpawn, Descends, Depth
<1>2. \A d : Children(d)' = Children(d)
  BY <1>1 DEF Children, Package
<1>3. c \in Calls /\ c \in Seq(Packages) \ {<<>>} /\ at[c] = "fetching" /\ at'[c] = "joining"
  BY SpawnChanges
<1>4. Calls' = Calls \cup Children(c) /\ \A d \in Calls : d # c => at'[d] = at[d]
  BY SpawnChanges
<1>5. ASSUME NEW d \in Children(c)
      PROVE  /\ Len(d) - 1 = Len(c)
             /\ Len(c) \in 1..Len(c)
             /\ PathUpTo(d, Len(c)) = c /\ PathUpTo(d, Len(c)+1) = d
             /\ \A i \in 1..Len(c) : PathUpTo(d, i) = PathUpTo(c, i)
  <2>1. PICK p \in deps[Package(c)] : d = Append(c, p)
    BY DEF Children
  <2>2. p \in Packages
    BY SpawnChanges
  <2>3. Len(c) \in Nat \ {0}
    BY <1>3, EmptySeq
  <2>4. d \in Seq(Packages) /\ Len(d) = Len(c) + 1
        /\ \A i \in 1..Len(c) : PathUpTo(d, i) = PathUpTo(c, i)
    BY <1>3, <2>1, <2>2, <2>3, ChildPath
  <2>5. PathUpTo(d, Len(d)) = d /\ PathUpTo(c, Len(c)) = c
    BY <1>3, <2>3, <2>4, PathProperties
  <2> QED
    BY <2>3, <2>4, <2>5
<1>6. TreeHolds'
  <2>1. ASSUME NEW d \in Calls
        PROVE  /\ Len(d) - 1 <= MaxDepth
               /\ PathUpTo(d, 1) = Top
               /\ \A i \in 1..Len(d)-1 : PathUpTo(d, i) \in Calls /\ PathUpTo(d, i+1) \in Children(PathUpTo(d, i))
    BY DEF TreeHolds
  <2>2. ASSUME NEW d \in Children(c)
        PROVE  /\ Len(d) - 1 <= MaxDepth
               /\ PathUpTo(d, 1) = Top
               /\ \A i \in 1..Len(d)-1 : PathUpTo(d, i) \in Calls /\ PathUpTo(d, i+1) \in Children(PathUpTo(d, i))
    <3>1. Len(d) - 1 <= MaxDepth /\ PathUpTo(d, 1) = Top
      BY <1>1, <1>3, <1>5, <2>1, ResolverAssumption
    <3>2. ASSUME NEW i \in 1..Len(d)-1
          PROVE  PathUpTo(d, i) \in Calls /\ PathUpTo(d, i+1) \in Children(PathUpTo(d, i))
      <4>1. CASE i = Len(c)
        BY <4>1, <1>3, <1>5
      <4>2. CASE i # Len(c)
        <5>1. Len(c) \in Nat
          BY <1>3, LenProperties
        <5>2. i \in 1..Len(c)-1 /\ i \in 1..Len(c) /\ i+1 \in 1..Len(c)
          BY <4>2, <5>1, <1>5
        <5>3. PathUpTo(d, i) = PathUpTo(c, i) /\ PathUpTo(d, i+1) = PathUpTo(c, i+1)
          BY <5>2, <1>5
        <5> QED
          BY <5>2, <5>3, <2>1, <1>3
      <4> QED
        BY <4>1, <4>2
    <3> QED
      BY <3>1, <3>2
  <2> QED
    BY <1>2, <1>4, <2>1, <2>2 DEF TreeHolds, Top
<1>7. ASSUME NEW d \in Calls', at'[d] \notin Ended, NEW i \in 1..Len(d)-1
      PROVE  at'[PathUpTo(d, i)] = "joining"
  <2>1. CASE d \in Calls
    <3>1. at[d] \notin Ended
      BY <1>3, <1>4, <1>7, <2>1 DEF Ended
    <3>2. at[PathUpTo(d, i)] = "joining" /\ PathUpTo(d, i) \in Calls
      BY <2>1, <3>1, <1>7 DEF JoinersWait, TreeHolds
    <3> QED
      BY <3>2, <1>3, <1>4
  <2>2. CASE d \in Children(c)
    <3>1. CASE i = Len(c)
      BY <3>1, <2>2, <1>3, <1>5
    <3>2. CASE i # Len(c)
      <4>1. Len(c) \in Nat
        BY <1>3, LenProperties
      <4>2. i \in 1..Len(c)-1 /\ i \in 1..Len(c)
        BY <2>2, <3>2, <4>1, <1>5
      <4>3. PathUpTo(d, i) = PathUpTo(c, i)
        BY <2>2, <4>2, <1>5
      <4>4. at[PathUpTo(c, i)] = "joining" /\ PathUpTo(c, i) \in Calls
        BY <4>2, <1>3 DEF JoinersWait, TreeHolds, Ended
      <4> QED
        BY <4>3, <4>4, <1>3, <1>4
    <3> QED
      BY <3>1, <3>2
  <2> QED
    BY <2>1, <2>2, <1>4
<1>8. JoinersWait'
  BY <1>7 DEF JoinersWait
<1> QED
  BY <1>6, <1>8

-----------------------------------------------------------------------------
(* A call that waits for the others                                         *)

\* The children of a call that stops waiting have ended, and with them all below it.
LEMMA BelowJoined ==
  ASSUME WalkTypeOK, TreeHolds, JoinersWait, NEW c \in Calls, Joined(c),
         NEW d \in Calls, NEW i \in 1..Len(d)-1, PathUpTo(d, i) = c
  PROVE  /\ at[d] \in Ended
         /\ PathUpTo(d, i+1) \in Children(c) /\ at[PathUpTo(d, i+1)] \in Ended
         /\ PathUpTo(d, i+1) = d \/ i+1 \in 1..Len(d)-1
<1>1. PathUpTo(d, i+1) \in Children(c)
  BY DEF TreeHolds
<1>2. at[PathUpTo(d, i+1)] \in Ended
  BY <1>1 DEF Joined
<1>3. d \in Seq(Packages) \ {<<>>} /\ Len(d) \in Nat \ {0}
  BY EmptySeq DEF WalkTypeOK
<1>4. PathUpTo(d, i+1) = d \/ i+1 \in 1..Len(d)-1
  BY <1>3, PathProperties
<1>5. at[d] \in Ended
  BY <1>2, <1>4 DEF JoinersWait, Ended
<1> QED
  BY <1>1, <1>2, <1>4, <1>5

\* Join keeps the tree.
LEMMA JoinKeepsTree ==
  ASSUME WalkTypeOK, TreeHolds, JoinersWait, NEW c \in Calls, Join(c)
  PROVE  TreeHolds' /\ JoinersWait'
<1>1. PICK to \in {"resolved", "failed", "gaveUp"} : Move(c, "joining", to)
  BY DEF Join, Giving
<1>2. Calls' = Calls /\ at[c] = "joining" /\ at'[c] = to /\ \A d \in Calls : d # c => at'[d] = at[d]
  BY <1>1, GotoChanges DEF CallPhases, Ended
<1>3. deps' = deps /\ Joined(c)
  BY DEF Join
<1>4. TreeHolds'
  BY <1>2, <1>3 DEF TreeHolds, Top, Children, Package
<1>5. ASSUME NEW d \in Calls, at'[d] \notin Ended, NEW i \in 1..Len(d)-1
      PROVE  at'[PathUpTo(d, i)] = "joining"
  <2>1. at[d] \notin Ended
    BY <1>2, <1>5 DEF Ended
  <2>2. at[PathUpTo(d, i)] = "joining" /\ PathUpTo(d, i) \in Calls
    BY <2>1, <1>5 DEF JoinersWait, TreeHolds
  <2>3. PathUpTo(d, i) # c
    BY <2>1, <1>3, <1>5, BelowJoined
  <2> QED
    BY <2>2, <2>3, <1>2
<1>6. JoinersWait'
  BY <1>2, <1>5 DEF JoinersWait
<1> QED
  BY <1>4, <1>6

\* Every step keeps the tree.
LEMMA TreeStep ==
  ASSUME WalkTypeOK, TreeHolds, JoinersWait, [WalkNext]_walkVars
  PROVE  TreeHolds' /\ JoinersWait'
<1> USE DEF CallPhases, Running, Ended
<1>1. ASSUME NEW c \in Calls, Acquire(c) PROVE TreeHolds' /\ JoinersWait'
  <2>1. Move(c, "waiting", "entered") /\ UNCHANGED deps /\ UNCHANGED failFast
    BY <1>1 DEF Acquire
  <2> QED
    BY <2>1, MoveKeepsTree
<1>2. ASSUME NEW c \in Calls, Visit(c) PROVE TreeHolds' /\ JoinersWait'
  <2>1. Move(c, "entered", "fetching") /\ UNCHANGED deps /\ UNCHANGED failFast
    BY <1>2 DEF Visit
  <2> QED
    BY <2>1, MoveKeepsTree
<1>3. ASSUME NEW c \in Calls, Skip(c) PROVE TreeHolds' /\ JoinersWait'
  <2>1. Move(c, "entered", "skipped") /\ UNCHANGED deps /\ UNCHANGED failFast
    BY <1>3 DEF Skip
  <2> QED
    BY <2>1, MoveKeepsTree
<1>4. ASSUME NEW c \in Calls, FetchFails(c) PROVE TreeHolds' /\ JoinersWait'
  <2>1. PICK to \in {"failed", "gaveUp"} : Move(c, "fetching", to)
    BY <1>4 DEF FetchFails, Giving
  <2>2. UNCHANGED deps /\ UNCHANGED failFast
    BY <1>4 DEF FetchFails
  <2> QED
    BY <2>1, <2>2, MoveKeepsTree
<1>5. ASSUME NEW c \in Calls, Fetch(c) PROVE TreeHolds' /\ JoinersWait'
  <2>1. Move(c, "fetching", "resolved") /\ UNCHANGED deps /\ UNCHANGED failFast
    BY <1>5 DEF Fetch
  <2> QED
    BY <2>1, MoveKeepsTree
<1>6. ASSUME NEW c \in Calls, FetchAndSpawn(c) PROVE TreeHolds' /\ JoinersWait'
  BY <1>6, SpawnKeepsTree
<1>7. ASSUME NEW c \in Calls, Join(c) PROVE TreeHolds' /\ JoinersWait'
  BY <1>7, JoinKeepsTree
<1>8. CASE UNCHANGED walkVars
  BY <1>8 DEF walkVars, TreeHolds, JoinersWait, Calls, Top, Children, Package
<1> QED
  BY <1>1, <1>2, <1>3, <1>4, <1>5, <1>6, <1>7, <1>8 DEF WalkNext, CallStep

-----------------------------------------------------------------------------
(* Types                                                                    *)

\* A move keeps what is known of the types of the calls.
LEMMA MoveKeepsTypes ==
  ASSUME WalkTypeOK, NEW c, NEW from, NEW to \in CallPhases, Move(c, from, to),
         UNCHANGED deps, UNCHANGED failFast, visited' \subseteq Packages, result' \subseteq Packages
  PROVE  WalkTypeOK'
BY GotoChanges DEF WalkTypeOK, Top

\* Every step keeps the types.
LEMMA ResolverTypeStep ==
  ASSUME WalkTypeOK, [WalkNext]_walkVars
  PROVE  WalkTypeOK'
<1> USE DEF CallPhases, Running, Ended
<1>1. ASSUME NEW c \in Calls
      PROVE  c \in Seq(Packages) \ {<<>>} /\ Package(c) \in Packages /\ deps[Package(c)] \subseteq Packages
  <2>1. c \in Seq(Packages) \ {<<>>} /\ deps \in [Packages -> SUBSET Packages]
    BY ResolverAssumption DEF WalkTypeOK
  <2>2. Package(c) \in Packages
    BY <2>1 DEF Package
  <2> QED
    BY <2>1, <2>2
<1>2. ASSUME NEW c \in Calls, Acquire(c) PROVE WalkTypeOK'
  BY <1>2, MoveKeepsTypes DEF Acquire, WalkTypeOK
<1>3. ASSUME NEW c \in Calls, Visit(c) PROVE WalkTypeOK'
  BY <1>1, <1>3, MoveKeepsTypes DEF Visit, WalkTypeOK
<1>4. ASSUME NEW c \in Calls, Skip(c) PROVE WalkTypeOK'
  BY <1>4, MoveKeepsTypes DEF Skip, WalkTypeOK
<1>5. ASSUME NEW c \in Calls, FetchFails(c) PROVE WalkTypeOK'
  BY <1>5, MoveKeepsTypes DEF FetchFails, Giving, WalkTypeOK
<1>6. ASSUME NEW c \in Calls, Fetch(c) PROVE WalkTypeOK'
  BY <1>1, <1>6, MoveKeepsTypes DEF Fetch, WalkTypeOK
<1>7. ASSUME NEW c \in Calls, FetchAndSpawn(c) PROVE WalkTypeOK'
  <2>1. \A p \in deps[Package(c)] : Append(c, p) \in Seq(Packages) \ {<<>>}
    BY <1>1, AppendProperties
  <2>2. Children(c) \subseteq Seq(Packages) \ {<<>>}
    BY <2>1 DEF Children
  <2>3. at' = [d \in Calls \cup Children(c) |->
                IF d = c THEN "joining" ELSE IF d \in Calls THEN at[d] ELSE "waiting"]
    BY <1>7 DEF FetchAndSpawn
  <2>4. Calls' = Calls \cup Children(c)
    BY <2>3 DEF Calls
  <2>5. at' \in [Calls' -> CallPhases]
    BY <2>3, <2>4 DEF WalkTypeOK
  <2>6. result' \subseteq Packages
    BY <1>1, <1>7 DEF FetchAndSpawn, WalkTypeOK
  <2>7. Calls' \subseteq Seq(Packages) \ {<<>>} /\ Top \in Calls'
    BY <2>2, <2>4 DEF WalkTypeOK
  <2> QED
    BY <1>7, <2>5, <2>6, <2>7 DEF FetchAndSpawn, WalkTypeOK, Top
<1>8. ASSUME NEW c \in Calls, Join(c) PROVE WalkTypeOK'
  BY <1>8, MoveKeepsTypes DEF Join, Giving, WalkTypeOK
<1>9. CASE UNCHANGED walkVars
  BY <1>9 DEF walkVars, WalkTypeOK, Calls, Top
<1> QED
  BY <1>2, <1>3, <1>4, <1>5, <1>6, <1>7, <1>8, <1>9 DEF WalkNext, CallStep

-----------------------------------------------------------------------------
(* Failures                                                                 *)

\* Moves between phases that are no failures, of calls that none waits below.
LEMMA MoveKeepsFailures ==
  ASSUME WalkTypeOK, TreeHolds, FailuresRise, UNCHANGED failFast,
         NEW c \in Calls, NEW from \in {"waiting", "entered", "fetching"},
         NEW to \in CallPhases \ {"failed", "gaveUp"}, Move(c, from, to)
  PROVE  FailuresRise'
<1>1. Calls' = Calls /\ at[c] = from /\ at'[c] = to /\ \A d \in Calls : d # c => at'[d] = at[d]
  BY GotoChanges
<1> QED
  BY <1>1 DEF FailuresRise, TreeHolds

\* A lost request: those that wait above it are still waiting.
LEMMA FetchFailsKeepsFailures ==
  ASSUME WalkTypeOK, TreeHolds, JoinersWait, FailuresRise, NEW c \in Calls, FetchFails(c)
  PROVE  FailuresRise'
<1>1. Move(c, "fetching", Giving(failFast)) /\ failFast' = failFast /\ failFast \in BOOLEAN
  BY DEF FetchFails, WalkTypeOK
<1>2. /\ Calls' = Calls /\ at[c] = "fetching" /\ at'[c] = Giving(failFast)
      /\ \A d \in Calls : d # c => at'[d] = at[d]
  BY <1>1, GotoChanges DEF Giving, CallPhases, Ended
<1>3. \A i \in 1..Len(c)-1 : PathUpTo(c, i) \in Calls /\ at[PathUpTo(c, i)] = "joining"
  BY <1>2 DEF TreeHolds, JoinersWait, Ended
<1>4. \A i \in 1..Len(c)-1 : at'[PathUpTo(c, i)] = "joining"
  BY <1>2, <1>3
<1>5. ASSUME NEW d \in Calls, d # c
      PROVE  /\ at'[d] = "gaveUp" => ~failFast
             /\ at'[d] = "failed" => failFast /\ \A i \in 1..Len(d)-1 : at'[PathUpTo(d, i)] \in {"joining", "failed"}
  BY <1>2, <1>5 DEF FailuresRise, TreeHolds
<1>6. /\ at'[c] = "gaveUp" => ~failFast
      /\ at'[c] = "failed" => failFast
  BY <1>1, <1>2 DEF Giving
<1> QED
  BY <1>1, <1>2, <1>4, <1>5, <1>6 DEF FailuresRise

\* A call that starts others was not above a failure.
LEMMA SpawnKeepsFailures ==
  ASSUME WalkTypeOK, TreeHolds, FailuresRise, NEW c, FetchAndSpawn(c)
  PROVE  FailuresRise'
<1>1. /\ c \in Calls /\ at[c] = "fetching" /\ at'[c] = "joining"
      /\ Calls' = Calls \cup Children(c)
      /\ \A d \in Calls : d # c => at'[d] = at[d]
      /\ \A d \in Children(c) : d \notin Calls => at'[d] = "waiting"
  BY SpawnChanges
<1>2. failFast' = failFast
  BY DEF FetchAndSpawn
<1> QED
  BY <1>1, <1>2 DEF FailuresRise, TreeHolds

\* A call returns its children's failure, or has none below it.
LEMMA JoinKeepsFailures ==
  ASSUME WalkTypeOK, TreeHolds, JoinersWait, FailuresRise, NEW c \in Calls, Join(c)
  PROVE  FailuresRise'
<1>1. PICK to \in {"resolved", "failed", "gaveUp"} :
        /\ Move(c, "joining", to)
        /\ to = "resolved" => \A d \in Children(c) : at[d] # "failed"
        /\ to # "resolved" => to = Giving(failFast)
  BY DEF Join, Giving
<1>2. Calls' = Calls /\ at[c] = "joining" /\ at'[c] = to /\ \A d \in Calls : d # c => at'[d] = at[d]
  BY <1>1, GotoChanges DEF CallPhases, Ended
<1>3. failFast' = failFast /\ failFast \in BOOLEAN /\ Joined(c)
  BY DEF Join, WalkTypeOK
<1>4. /\ to = "gaveUp" => ~failFast
      /\ to = "failed" => failFast
  BY <1>1, <1>3 DEF Giving
<1>5. ASSUME NEW d \in Calls, at'[d] = "gaveUp" PROVE ~failFast
  BY <1>2, <1>4, <1>5 DEF FailuresRise
<1>6. ASSUME NEW d \in Calls, at'[d] = "failed" PROVE failFast
  BY <1>2, <1>4, <1>6 DEF FailuresRise
<1>7. ASSUME NEW d \in Calls, at'[d] = "failed", NEW i \in 1..Len(d)-1
      PROVE  at'[PathUpTo(d, i)] \in {"joining", "failed"}
  <2>1. PathUpTo(d, i) \in Calls /\ at[PathUpTo(d, i)] \in {"joining", "failed"}
    <3>1. CASE d = c
      BY <3>1, <1>2, <1>7 DEF TreeHolds, JoinersWait, Ended
    <3>2. CASE d # c
      BY <3>2, <1>2, <1>7 DEF TreeHolds, FailuresRise
    <3> QED
      BY <3>1, <3>2
  <2>2. CASE PathUpTo(d, i) # c
    BY <2>1, <2>2, <1>2
  <2>3. CASE PathUpTo(d, i) = c
    <3>1. d # c
      <4>1. d \in Seq(Packages) /\ i \in 1..Len(d) /\ i # Len(d)
        BY LenProperties DEF WalkTypeOK
      <4> QED
        BY <4>1, <2>3, PathProperties
    <3>2. at[d] = "failed"
      BY <3>1, <1>2, <1>7
    <3>3. /\ PathUpTo(d, i+1) \in Children(c) /\ at[PathUpTo(d, i+1)] \in Ended
          /\ PathUpTo(d, i+1) = d \/ i+1 \in 1..Len(d)-1
      BY <2>3, <1>3, BelowJoined
    <3>4. at[PathUpTo(d, i+1)] = "failed"
      BY <3>2, <3>3 DEF FailuresRise, Ended
    <3>5. to # "resolved"
      BY <3>3, <3>4, <1>1
    <3> QED
      BY <3>5, <2>3, <1>1, <1>2, <1>6, <1>7, <1>3 DEF Giving
  <2> QED
    BY <2>2, <2>3
<1> QED
  BY <1>2, <1>3, <1>5, <1>6, <1>7 DEF FailuresRise

\* Every step keeps what is known of the failures.
LEMMA FailureStep ==
  ASSUME WalkTypeOK, TreeHolds, JoinersWait, FailuresRise, [WalkNext]_walkVars
  PROVE  FailuresRise'
<1> USE DEF CallPhases, Running, Ended
<1>1. ASSUME NEW c \in Calls, Acquire(c) PROVE FailuresRise'
  BY <1>1, MoveKeepsFailures DEF Acquire
<1>2. ASSUME NEW c \in Calls, Visit(c) PROVE FailuresRise'
  BY <1>2, MoveKeepsFailures DEF Visit
<1>3. ASSUME NEW c \in Calls, Skip(c) PROVE FailuresRise'
  BY <1>3, MoveKeepsFailures DEF Skip
<1>4. ASSUME NEW c \in Calls, FetchFails(c) PROVE FailuresRise'
  BY <1>4, FetchFailsKeepsFailures
<1>5. ASSUME NEW c \in Calls, Fetch(c) PROVE FailuresRise'
  BY <1>5, MoveKeepsFailures DEF Fetch
<1>6. ASSUME NEW c \in Calls, FetchAndSpawn(c) PROVE FailuresRise'
  BY <1>6, SpawnKeepsFailures
<1>7. ASSUME NEW c \in Calls, Join(c) PROVE FailuresRise'
  BY <1>7, JoinKeepsFailures
<1>8. CASE UNCHANGED walkVars
  BY <1>8 DEF walkVars, FailuresRise, Calls
<1> QED
  BY <1>1, <1>2, <1>3, <1>4, <1>5, <1>6, <1>7, <1>8 DEF WalkNext, CallStep

-----------------------------------------------------------------------------
(* The marks                                                                *)

\* A call that has marked its package, or none, moves on with the marks as they are.
LEMMA MoveKeepsMarks ==
  ASSUME WalkTypeOK, MarksHold, UNCHANGED visited,
         NEW c \in Calls, NEW from \in CallPhases, NEW to \in CallPhases, Move(c, from, to),
         from \in Looked <=> to \in Looked,
         to = "skipped" => Package(c) \in visited
  PROVE  MarksHold'
<1>1. Calls' = Calls /\ at[c] = from /\ at'[c] = to /\ \A d \in Calls : d # c => at'[d] = at[d]
  BY GotoChanges
<1>2. \A d \in Calls : at'[d] \in Looked <=> at[d] \in Looked
  BY <1>1
<1>3. VisitedOnce'
  BY <1>1, <1>2 DEF MarksHold, VisitedOnce, Looked, Package
<1>4. \A d \in Calls : at'[d] \in Looked \cup {"skipped"} => Package(d) \in visited
  BY <1>1, <1>2 DEF MarksHold
<1>5. \A p \in visited : \E d \in Calls : Package(d) = p /\ at'[d] \in Looked
  BY <1>2 DEF MarksHold
<1> QED
  BY <1>1, <1>3, <1>4, <1>5 DEF MarksHold, Package

\* The mark is tested and set at once: no other call has the same package's.
LEMMA VisitKeepsMarks ==
  ASSUME WalkTypeOK, MarksHold, NEW c \in Calls, Visit(c)
  PROVE  MarksHold'
<1> USE DEF CallPhases, Running, Ended
<1>1. Move(c, "entered", "fetching") /\ Package(c) \notin visited /\ visited' = visited \cup {Package(c)}
  BY DEF Visit
<1>2. Calls' = Calls /\ at[c] = "entered" /\ at'[c] = "fetching" /\ \A d \in Calls : d # c => at'[d] = at[d]
  BY <1>1, GotoChanges
<1>3. \A d \in Calls : at'[d] \in Looked => d = c \/ (at[d] \in Looked /\ Package(d) # Package(c))
  BY <1>1, <1>2 DEF MarksHold
<1>4. VisitedOnce'
  BY <1>2, <1>3 DEF MarksHold, VisitedOnce, Looked, Package
<1>5. \A d \in Calls : at'[d] \in Looked \cup {"skipped"} => Package(d) \in visited'
  BY <1>1, <1>2 DEF MarksHold
<1>6. ASSUME NEW p \in visited' PROVE \E d \in Calls : Package(d) = p /\ at'[d] \in Looked
  <2>1. CASE p = Package(c)
    BY <2>1, <1>2 DEF Looked
  <2>2. CASE p \in visited
    BY <2>2, <1>2 DEF MarksHold, Looked
  <2> QED
    BY <2>1, <2>2, <1>1
<1> QED
  BY <1>2, <1>4, <1>5, <1>6 DEF MarksHold, Package

\* New calls have marked nothing.
LEMMA SpawnKeepsMarks ==
  ASSUME WalkTypeOK, MarksHold, NEW c, FetchAndSpawn(c)
  PROVE  MarksHold'
<1> USE DEF CallPhases, Running, Ended
<1>1. /\ c \in Calls /\ at[c] = "fetching" /\ at'[c] = "joining"
      /\ Calls' = Calls \cup Children(c)
      /\ \A d \in Calls : d # c => at'[d] = at[d]
      /\ \A d \in Children(c) : d \notin Calls => at'[d] = "waiting"
  BY SpawnChanges
<1>2. visited' = visited
  BY DEF FetchAndSpawn
<1>3. \A d \in Calls' : at'[d] \in Looked \cup {"skipped"} =>
        d \in Calls /\ at[d] \in Looked \cup {"skipped"} /\ (at'[d] \in Looked <=> at[d] \in Looked)
  BY <1>1 DEF Looked
<1>4. VisitedOnce'
  BY <1>3 DEF MarksHold, VisitedOnce, Looked, Package
<1>5. \A d \in Calls' : at'[d] \in Looked \cup {"skipped"} => Package(d) \in visited
  BY <1>3 DEF MarksHold
<1>6. \A d \in Calls : at[d] \in Looked => at'[d] \in Looked
  BY <1>1 DEF Looked
<1>7. \A p \in visited : \E d \in Calls' : Package(d) = p /\ at'[d] \in Looked
  BY <1>1, <1>6 DEF MarksHold
<1> QED
  BY <1>2, <1>4, <1>5, <1>7 DEF MarksHold, Package

\* Every step keeps the marks.
LEMMA MarkStep ==
  ASSUME WalkTypeOK, MarksHold, [WalkNext]_walkVars
  PROVE  MarksHold'
<1> USE DEF CallPhases, Running, Ended, Looked
<1>1. ASSUME NEW c \in Calls, Acquire(c) PROVE MarksHold'
  BY <1>1, MoveKeepsMarks DEF Acquire
<1>2. ASSUME NEW c \in Calls, Visit(c) PROVE MarksHold'
  BY <1>2, VisitKeepsMarks
<1>3. ASSUME NEW c \in Calls, Skip(c) PROVE MarksHold'
  BY <1>3, MoveKeepsMarks DEF Skip
<1>4. ASSUME NEW c \in Calls, FetchFails(c) PROVE MarksHold'
  BY <1>4, MoveKeepsMarks DEF FetchFails, Giving
<1>5. ASSUME NEW c \in Calls, Fetch(c) PROVE MarksHold'
  BY <1>5, MoveKeepsMarks DEF Fetch
<1>6. ASSUME NEW c \in Calls, FetchAndSpawn(c) PROVE MarksHold'
  BY <1>6, SpawnKeepsMarks
<1>7. ASSUME NEW c \in Calls, Join(c) PROVE MarksHold'
  BY <1>7, MoveKeepsMarks DEF Join, Giving
<1>8. CASE UNCHANGED walkVars
  BY <1>8 DEF walkVars, MarksHold, VisitedOnce, Calls, Package
<1> QED
  BY <1>1, <1>2, <1>3, <1>4, <1>5, <1>6, <1>7, <1>8 DEF WalkNext, CallStep

-----------------------------------------------------------------------------
(* The result                                                               *)

\* A call that finds nothing new moves on.
LEMMA MoveKeepsResult ==
  ASSUME WalkTypeOK, ResultHolds, UNCHANGED deps, UNCHANGED result,
         NEW c \in Calls, NEW from \in CallPhases, NEW to \in CallPhases, Move(c, from, to),
         from \in Looked => to \in Looked,
         to \in {"joining", "resolved"} => from \in {"joining", "resolved"}
  PROVE  ResultHolds'
<1>1. Calls' = Calls /\ at[c] = from /\ at'[c] = to /\ \A d \in Calls : d # c => at'[d] = at[d]
  BY GotoChanges
<1> QED
  BY <1>1 DEF ResultHolds, Package, Depth

\* The dependencies of a package that is not looked into further: there are none, or
\* the depth is at its limit.
LEMMA FetchKeepsResult ==
  ASSUME WalkTypeOK, TreeHolds, ResultHolds, NEW c \in Calls, Fetch(c)
  PROVE  ResultHolds'
<1> USE DEF CallPhases, Running, Ended
<1>1. /\ Move(c, "fetching", "resolved") /\ deps' = deps
      /\ result' = result \cup deps[Package(c)]
      /\ ~Descends(c)
  BY DEF Fetch
<1>2. Calls' = Calls /\ at'[c] = "resolved" /\ at[c] = "fetching" /\ \A d \in Calls : d # c => at'[d] = at[d]
  BY <1>1, GotoChanges
<1>3. deps[Package(c)] # {} => Depth(c) = MaxDepth
  <2>1. Depth(c) \in Int /\ Depth(c) <= MaxDepth
    BY LenProperties DEF TreeHolds, Depth, WalkTypeOK
  <2> QED
    BY <1>1, <2>1, ResolverAssumption DEF Descends
<1>4. \A d \in Calls : at'[d] \in {"joining", "resolved"} => deps[Package(d)] \subseteq result'
  BY <1>1, <1>2 DEF ResultHolds
<1>5. ASSUME NEW p \in result'
      PROVE  (\E d \in Calls : Package(d) = p) \/ \E d \in Calls : Depth(d) = MaxDepth /\ at'[d] \in Looked
  <2>1. CASE p \in deps[Package(c)]
    BY <2>1, <1>2, <1>3 DEF Looked
  <2>2. CASE p \in result
    BY <2>2, <1>2 DEF ResultHolds, Looked
  <2> QED
    BY <2>1, <2>2, <1>1
<1> QED
  BY <1>1, <1>2, <1>4, <1>5 DEF ResultHolds, Package, Depth

\* The dependencies of a package that is: each of them gets a call.
LEMMA SpawnKeepsResult ==
  ASSUME WalkTypeOK, ResultHolds, NEW c, FetchAndSpawn(c)
  PROVE  ResultHolds'
<1> USE DEF CallPhases, Running, Ended
<1>1. /\ c \in Calls /\ at[c] = "fetching" /\ at'[c] = "joining"
      /\ Calls' = Calls \cup Children(c)
      /\ \A d \in Calls : d # c => at'[d] = at[d]
      /\ \A d \in Children(c) : d \notin Calls => at'[d] = "waiting"
      /\ deps[Package(c)] \subseteq Packages
      /\ c \in Seq(Packages) \ {<<>>}
  BY SpawnChanges
<1>2. deps' = deps /\ result' = result \cup deps[Package(c)]
  BY DEF FetchAndSpawn
<1>3. \A d \in Calls' : at'[d] \in {"joining", "resolved"} => deps[Package(d)] \subseteq result'
  BY <1>1, <1>2 DEF ResultHolds
<1>4. ASSUME NEW p \in result'
      PROVE  (\E d \in Calls' : Package(d) = p) \/ \E d \in Calls' : Depth(d) = MaxDepth /\ at'[d] \in Looked
  <2>1. CASE p \in deps[Package(c)]
    <3>1. Append(c, p) \in Children(c)
      BY <2>1 DEF Children
    <3>2. Package(Append(c, p)) = p
      <4>1. Len(Append(c, p)) = Len(c) + 1 /\ Append(c, p)[Len(c)+1] = p
        BY <1>1, <2>1, AppendProperties
      <4> QED
        BY <4>1 DEF Package
    <3> QED
      BY <3>1, <3>2, <1>1
  <2>2. CASE p \in result
    BY <2>2, <1>1 DEF ResultHolds, Looked
  <2> QED
    BY <2>1, <2>2, <1>2
<1> QED
  BY <1>2, <1>3, <1>4 DEF ResultHolds, Package, Depth

\* Every step keeps what is known of the result.
LEMMA ResultStep ==
  ASSUME WalkTypeOK, TreeHolds, ResultHolds, [WalkNext]_walkVars
  PROVE  ResultHolds'
<1> USE DEF CallPhases, Running, Ended, Looked
<1>1. ASSUME NEW c \in Calls, Acquire(c) PROVE ResultHolds'
  BY <1>1, MoveKeepsResult DEF Acquire
<1>2. ASSUME NEW c \in Calls, Visit(c) PROVE ResultHolds'
  BY <1>2, MoveKeepsResult DEF Visit
<1>3. ASSUME NEW c \in Calls, Skip(c) PROVE ResultHolds'
  BY <1>3, MoveKeepsResult DEF Skip
<1>4. ASSUME NEW c \in Calls, FetchFails(c) PROVE ResultHolds'
  BY <1>4, MoveKeepsResult DEF FetchFails, Giving
<1>5. ASSUME NEW c \in Calls, Fetch(c) PROVE ResultHolds'
  BY <1>5, FetchKeepsResult
<1>6. ASSUME NEW c \in Calls, FetchAndSpawn(c) PROVE ResultHolds'
  BY <1>6, SpawnKeepsResult
<1>7. ASSUME NEW c \in Calls, Join(c) PROVE ResultHolds'
  BY <1>7, MoveKeepsResult DEF Join, Giving
<1>8. CASE UNCHANGED walkVars
  BY <1>8 DEF walkVars, ResultHolds, Calls, Package, Depth
<1> QED
  BY <1>1, <1>2, <1>3, <1>4, <1>5, <1>6, <1>7, <1>8 DEF WalkNext, CallStep

-----------------------------------------------------------------------------
(* The theorems                                                             *)

\* One call, that nothing precedes.
LEMMA InitResolver == WalkInit => ResolverInv
<1> SUFFICES ASSUME WalkInit PROVE ResolverInv
  OBVIOUS
<1> USE ResolverAssumption DEF CallPhases, Running, Ended
<1>1. /\ Calls = {Top} /\ at[Top] = "entered"
      /\ Top \in Seq(Packages) /\ Len(Top) = 1 /\ Top # <<>>
  BY DEF WalkInit, Calls, Top
<1>2. PathUpTo(Top, 1) = Top
  BY <1>1, PathProperties
<1>3. WalkTypeOK
  BY <1>1 DEF WalkInit, WalkTypeOK
<1>4. TreeHolds /\ JoinersWait /\ FailuresRise
  <2>1. \A c \in Calls : c = Top /\ \A i \in 1..Len(c)-1 : FALSE
    <3>1. \A i \in 1..Len(Top)-1 : FALSE
      BY <1>1
    <3> QED
      BY <3>1, <1>1
  <2>2. TreeHolds
    <3>1. Len(Top) - 1 <= MaxDepth
      BY <1>1
    <3> QED
      BY <3>1, <2>1, <1>2 DEF TreeHolds
  <2>3. JoinersWait
    BY <2>1 DEF JoinersWait
  <2>4. FailuresRise
    BY <2>1, <1>1 DEF FailuresRise
  <2> QED
    BY <2>2, <2>3, <2>4
<1>5. MarksHold /\ ResultHolds
  BY <1>1 DEF WalkInit, MarksHold, VisitedOnce, ResultHolds, Looked
<1> QED
  BY <1>3, <1>4, <1>5 DEF ResolverInv

\* The invariant of the resolver.
LEMMA InvResolver == WalkSpec => []ResolverInv
<1>1. ResolverInv /\ [WalkNext]_walkVars => ResolverInv'
  BY ResolverTypeStep, TreeStep, FailureStep, MarkStep, ResultStep DEF ResolverInv
<1> QED
  BY InitResolver, <1>1, PTL DEF WalkSpec

\* Type correctness of the resolver.
THEOREM ResolverTypes == WalkSpec => []WalkTypeOK
<1>1. ResolverInv => WalkTypeOK
  BY DEF ResolverInv
<1> QED
  BY InvResolver, <1>1, PTL

\* visitedPackages and its mutex (dependency_resolver.go): whatever the graph and
\* the number of goroutines, the registry is asked for a package once.
THEOREM AskedOnce == WalkSpec => []VisitedOnce
<1>1. ResolverInv => VisitedOnce
  BY DEF ResolverInv, MarksHold
<1> QED
  BY InvResolver, <1>1, PTL

\* A call that is not the first is below it.
LEMMA BelowTop ==
  ASSUME WalkTypeOK, TreeHolds, NEW c \in Calls, c # Top
  PROVE  1 \in 1..Len(c)-1 /\ PathUpTo(c, 1) = Top
<1>1. c \in Seq(Packages) /\ c # <<>>
  BY DEF WalkTypeOK
<1>2. Len(c) \in Nat /\ Len(c) # 0
  BY <1>1, EmptySeq
<1>3. PathUpTo(c, 1) = Top /\ PathUpTo(c, Len(c)) = c
  <2>1. 1 \in 1..Len(c)
    BY <1>2
  <2> QED
    BY <1>1, <2>1, PathProperties DEF TreeHolds
<1>4. Len(c) # 1
  BY <1>3
<1> QED
  BY <1>2, <1>3, <1>4

\* Once the first call has ended no other is running.
LEMMA AllEnded ==
  ASSUME ResolverInv, Done, NEW c \in Calls
  PROVE  at[c] \in Ended
<1>1. CASE c = Top
  BY <1>1 DEF Done
<1>2. CASE c # Top
  <2>1. 1 \in 1..Len(c)-1 /\ PathUpTo(c, 1) = Top
    BY <1>2, BelowTop DEF ResolverInv
  <2>2. at[c] \notin Ended => at[Top] = "joining"
    BY <2>1 DEF ResolverInv, JoinersWait
  <2> QED
    BY <2>2 DEF Done, Ended
<1> QED
  BY <1>1, <1>2

\* The error paths of dependency_resolver.go: with FailFast every lost request comes
\* up to the first call, through however many goroutines; without it, none does.
THEOREM FailFastIsKept == WalkSpec => []FailFastFails
<1>1. ASSUME ResolverInv, Done, at[Top] = "failed" PROVE failFast /\ ~Lossless
  BY <1>1 DEF ResolverInv, WalkTypeOK, FailuresRise, Lossless
<1>2. ASSUME ResolverInv, Done, failFast, ~Lossless PROVE at[Top] = "failed"
  <2>1. PICK c \in Calls : at[c] \in {"failed", "gaveUp"}
    BY <1>2 DEF Lossless
  <2>2. at[c] = "failed"
    BY <1>2, <2>1 DEF ResolverInv, FailuresRise
  <2>3. CASE c = Top
    BY <2>2, <2>3
  <2>4. CASE c # Top
    <3>1. 1 \in 1..Len(c)-1 /\ PathUpTo(c, 1) = Top
      BY <1>2, <2>4, BelowTop DEF ResolverInv
    <3>2. at[Top] \in {"joining", "failed"}
      BY <1>2, <2>2, <3>1 DEF ResolverInv, FailuresRise
    <3> QED
      BY <3>2, <1>2 DEF Done, Ended
  <2> QED
    BY <2>3, <2>4
<1>3. ResolverInv => FailFastFails
  <2>1. ResolverInv => failFast \in BOOLEAN
    BY DEF ResolverInv, WalkTypeOK
  <2> QED
    BY <1>1, <1>2, <2>1 DEF FailFastFails
<1> QED
  BY InvResolver, <1>3, PTL

\* The result of a resolution that lost nothing, and was not cut by its depth, is
\* closed under dependencies, in whatever order the goroutines ran.
THEOREM ResultIsComplete == WalkSpec => []CompleteUnlessCut
<1>1. ASSUME ResolverInv, Done, Lossless, \A c \in Calls : Depth(c) = MaxDepth => at[c] = "skipped",
             NEW p \in result \cup {Root}
      PROVE  deps[p] \subseteq result
  <2>1. \A c \in Calls : at[c] \in {"resolved", "skipped"}
    BY <1>1, AllEnded DEF Lossless, Ended
  <2>2. PICK c \in Calls : Package(c) = p
    <3>1. CASE p \in result
      BY <3>1, <1>1 DEF ResolverInv, ResultHolds, Looked
    <3>2. CASE p = Root
      <4>1. Top \in Calls /\ Package(Top) = Root
        BY <1>1 DEF ResolverInv, WalkTypeOK, Top, Package
      <4> QED
        BY <3>2, <4>1
    <3> QED
      BY <3>1, <3>2, <1>1
  <2>3. PICK d \in Calls : Package(d) = p /\ at[d] = "resolved"
    <3>1. p \in visited
      BY <1>1, <2>1, <2>2 DEF ResolverInv, MarksHold, Looked, CallPhases, Ended
    <3>2. PICK d \in Calls : Package(d) = p /\ at[d] \in Looked
      BY <1>1, <3>1 DEF ResolverInv, MarksHold
    <3> QED
      BY <2>1, <3>2 DEF Looked
  <2> QED
    BY <1>1, <2>3 DEF ResolverInv, ResultHolds
<1>2. ResolverInv => CompleteUnlessCut
  BY <1>1 DEF CompleteUnlessCut
<1> QED
  BY InvResolver, <1>2, PTL

\* The concurrent walk of dependency_resolver.go finds what a sequential one would, for
\* any graphs, depth and number of goroutines.
THEOREM ResolutionSound == WalkSpec => []ResolutionIsSound
<1>1. VisitedOnce /\ CompleteUnlessCut /\ FailFastFails => ResolutionIsSound
  BY DEF ResolutionIsSound
<1> QED
  BY <1>1, AskedOnce, ResultIsComplete, FailFastIsKept, PTL

-----------------------------------------------------------------------------
(***************************************************************************)
(* A request to a registry, whatever registries answer and whichever day it   *)
(* is.  A tag can be moved to the latest of the versions that stay because     *)
(* the days outside the window are past, so that one of them is the last; and  *)
(* what is in the window tomorrow is in it today, so that a report of the day   *)
(* after still is of what was stripped.                                      *)
(***************************************************************************)

\* What upstream may answer to a request that asks for everything.
Answers == {Body(b) : b \in IF request.eco = "npm" THEN Packuments ELSE SimplePages}

\* Where the request is, and what there is by then.
RequestHolds ==
  /\ rpc \in {"arrived", "metadata", "asked", "body", "stripped", "done"}
  /\ today # Today => today = Today + 1 /\ rpc \in {"stripped", "done"}
  /\ rpc \in {"metadata", "asked", "body", "stripped"} => CooldownDays > 0
  /\ rpc = "asked" => headers = {}
  /\ rpc \in {"body", "stripped"} => original \in Answers
  /\ rpc \notin {"stripped", "done"} => served = NoBody
  /\ rpc # "done" => report = NoReport

RegistryInv == RequestHolds /\ CooldownHolds /\ ReportIsTrue

-----------------------------------------------------------------------------
(* Days                                                                     *)

Dated(dates) == \A v \in DOMAIN dates : dates[v] \in Nat

\* A set of days has a first.
LEMMA LeastNumber ==
  ASSUME NEW T, T \subseteq Nat, T # {}
  PROVE  \E x \in T : \A y \in T : x <= y
<1>1. \E x \in T : \A y \in T : ~(<<y, x>> \in OpToRel(<, Nat))
  BY NatLessThanWellFounded, WFMin, Zenon
<1>2. \A x, y \in T : ~(<<y, x>> \in OpToRel(<, Nat)) => x <= y
  BY DEF OpToRel
<1> QED
  BY <1>1, <1>2

\* Nothing gets into the window by waiting.
LEMMA WindowShrinks ==
  ASSUME NEW dates, Dated(dates), NEW day \in Nat, NEW days \in Nat
  PROVE  TooNew(dates, day + 1, days) \subseteq TooNew(dates, day, days)
<1>1. ASSUME NEW p \in Nat, Within(p, day + 1, days) PROVE Within(p, day, days)
  BY <1>1 DEF Within, DaysSince
<1> QED
  BY <1>1 DEF TooNew, Dated

\* If a dated version stays, one of them is the latest: outside the window all days are past.
LEMMA LatestStays ==
  ASSUME NEW dates, Dated(dates), NEW day \in Nat, NEW days \in Nat, days > 0,
         DOMAIN dates \ TooNew(dates, day, days) # {}
  PROVE  LatestEligible(dates, TooNew(dates, day, days)) # {}
<1> DEFINE Stay == DOMAIN dates \ TooNew(dates, day, days)
<1>1. \A v \in Stay : dates[v] \in Nat /\ dates[v] < day
  BY DEF TooNew, Dated, Within, DaysSince
<1> DEFINE Ages == {day - dates[v] : v \in Stay}
<1>2. Ages \subseteq Nat /\ Ages # {}
  BY <1>1
<1>3. PICK x \in Ages : \A y \in Ages : x <= y
  BY <1>2, LeastNumber
<1>4. PICK v \in Stay : x = day - dates[v]
  OBVIOUS
<1>5. ASSUME NEW w \in Stay PROVE dates[w] <= dates[v]
  <2>1. x <= day - dates[w]
    BY <1>3
  <2>2. dates[w] \in Nat /\ dates[v] \in Nat
    BY <1>1
  <2> QED
    BY <1>4, <2>1, <2>2
<1> QED
  BY <1>4, <1>5 DEF LatestEligible

-----------------------------------------------------------------------------
(* Stripping and reporting                                                  *)

LEMMA NpmStrips ==
  ASSUME NEW old, NEW day \in Nat, NEW days \in Nat, days > 0, Dated(NpmDates(old)),
         NEW new \in StripNpm(old, TooNew(NpmDates(old), day, days))
  PROVE  LET dates == NpmDates(old)
             tooNew == TooNew(dates, day, days)
             stay == DOMAIN dates \ tooNew
         IN /\ new.versions = old.versions \ tooNew
            /\ DOMAIN new.time = DOMAIN old.time \ tooNew
            /\ \A t \in DOMAIN new.tags :
                 IF old.tags[t] \in tooNew
                 THEN new.tags[t] \in stay /\ \A v \in stay : dates[v] <= dates[new.tags[t]]
                 ELSE new.tags[t] = old.tags[t]
            /\ DOMAIN new.tags # DOMAIN old.tags => stay = {}
<1> DEFINE dates == NpmDates(old)
           tooNew == TooNew(dates, day, days)
           stay == DOMAIN dates \ tooNew
           latest == LatestEligible(dates, tooNew)
           moved == {t \in DOMAIN old.tags : old.tags[t] \in tooNew}
           kept == IF latest = {} THEN DOMAIN old.tags \ moved ELSE DOMAIN old.tags
           targets(t) == IF t \in moved THEN latest ELSE {old.tags[t]}
           every == latest \cup {old.tags[t] : t \in kept \ moved}
<1>1. PICK f \in [kept -> every] :
        /\ \A t \in kept : f[t] \in targets(t)
        /\ new = [versions |-> old.versions \ tooNew,
                  time |-> [v \in DOMAIN old.time \ tooNew |-> old.time[v]], tags |-> f]
  BY DEF StripNpm
<1>2. /\ new.versions = old.versions \ tooNew /\ new.tags = f /\ DOMAIN f = kept
      /\ DOMAIN new.time = DOMAIN old.time \ tooNew
  BY <1>1
<1>3. \A v \in latest : v \in stay /\ \A w \in stay : dates[w] <= dates[v]
  BY DEF LatestEligible
<1>4. ASSUME NEW t \in kept
      PROVE  IF old.tags[t] \in tooNew THEN f[t] \in latest ELSE f[t] = old.tags[t]
  <2>1. t \in DOMAIN old.tags /\ f[t] \in targets(t)
    BY <1>1
  <2> QED
    BY <2>1
<1>5. kept # DOMAIN old.tags => latest = {}
  OBVIOUS
<1>6. latest = {} => stay = {}
  BY LatestStays
<1> HIDE DEF latest, moved, kept, targets, every
<1> QED
  BY <1>2, <1>3, <1>4, <1>5, <1>6

\* What is reported on a day of what was in the window on an earlier one, which may be
\* the same.
\* ReportIsTrue, of a report r on what was in the window at the stripping and what now is.
TrueReport(r, feed, pin, dates, was, now) ==
  /\ r.malware \subseteq feed \cap was
  /\ \A b \in r.blocks :
       /\ r.blocks = {b} /\ b.version \in was
       /\ DOMAIN dates = was \/ b.version = pin
  /\ now = was =>
       /\ r.malware = feed \cap was
       /\ \A b \in r.blocks : b.version \notin feed /\ b.left > 0
       /\ pin \in was =>
            pin \in feed \/ DOMAIN dates = was \/ \E b \in r.blocks : b.version = pin

LEMMA ReportSays ==
  ASSUME NEW dates, NEW was, NEW day \in Nat, NEW days \in Nat,
         TooNew(dates, day, days) \subseteq was, was \subseteq DOMAIN dates,
         IsFiniteSet(DOMAIN dates), Dated(dates), NEW feed, NEW pin,
         NEW r \in Reports(feed, pin, dates, Cardinality(DOMAIN dates \ was), day, days)
  PROVE  TrueReport(r, feed, pin, dates, was, TooNew(dates, day, days))
<1> DEFINE now == TooNew(dates, day, days)
           malware == feed \cap now
           of(v) == IF v \in malware THEN {} ELSE {Block(v, dates, day, days)}
           remaining == Cardinality(DOMAIN dates \ was)
           blamed == IF remaining = 0 THEN Oldest(dates) ELSE IF pin \in now THEN {pin} ELSE {}
<1>1. remaining = 0 <=> DOMAIN dates = was
  <2>1. IsFiniteSet(DOMAIN dates \ was)
    BY FS_Subset
  <2>2. remaining = 0 <=> DOMAIN dates \ was = {}
    BY <2>1, FS_EmptySet
  <2> QED
    BY <2>2
<1>2. (r = Report(malware, {}) /\ blamed = {}) \/ \E v \in blamed : r = Report(malware, of(v))
  BY DEF Reports, MalwareInWindow
<1>3. \A v \in blamed : v \in was /\ (DOMAIN dates # was => v = pin /\ v \in now)
  <2>1. Oldest(dates) \subseteq DOMAIN dates
    BY DEF Oldest
  <2>2. remaining = 0 => blamed = Oldest(dates)
    OBVIOUS
  <2>3. remaining # 0 => blamed \subseteq {pin} /\ blamed \subseteq now
    OBVIOUS
  <2> HIDE DEF remaining, blamed
  <2> QED
    BY <1>1, <2>1, <2>2, <2>3
<1>4. \A v \in now : DaysLeft(dates[v], day, days) > 0
  BY DEF TooNew, Within, DaysLeft, DaysSince, Dated
<1>5. \A v : \A b \in of(v) : b.version = v /\ v \notin malware /\ of(v) = {b}
                              /\ b.left = DaysLeft(dates[v], day, days)
  BY DEF Block
<1>6. r.malware = malware
  BY <1>2 DEF Report
<1>7. ASSUME NEW b \in r.blocks
      PROVE  /\ r.blocks = {b} /\ b.version \in blamed /\ b.version \notin malware
             /\ b.left = DaysLeft(dates[b.version], day, days)
  <2>1. PICK v \in blamed : r = Report(malware, of(v))
    BY <1>2 DEF Report
  <2>2. r.blocks = of(v)
    BY <2>1 DEF Report
  <2> HIDE DEF blamed, malware, of
  <2> QED
    BY <1>5, <2>2
<1>8. ASSUME pin \in now, pin \notin feed, DOMAIN dates # was
      PROVE  \E b \in r.blocks : b.version = pin
  <2>1. blamed = {pin} /\ of(pin) = {Block(pin, dates, day, days)}
    BY <1>1, <1>8
  <2>2. r = Report(malware, of(pin))
    BY <1>2, <2>1
  <2> QED
    BY <2>1, <2>2 DEF Report, Block
<1> HIDE DEF malware, of, remaining, blamed
<1>9. r.malware \subseteq feed \cap was /\ (now = was => r.malware = feed \cap was)
  BY <1>6 DEF malware
<1>10. ASSUME NEW b \in r.blocks, now = was PROVE b.version \notin feed /\ b.left > 0
  BY <1>3, <1>4, <1>7, <1>10 DEF malware
<1> QED
  BY <1>3, <1>7, <1>8, <1>9, <1>10 DEF TrueReport

-----------------------------------------------------------------------------
(* The request                                                              *)

LEMMA AnswersAre ==
  ASSUME NEW eco, NEW data \in IF eco = "npm" THEN Packuments ELSE SimplePages
  PROVE  Dated(DatesOf(eco, data)) /\ IsFiniteSet(DOMAIN DatesOf(eco, data))
<1>1. CASE eco = "npm"
  <2>1. DatesOf(eco, data) = NpmDates(data) /\ data \in Packuments
    BY <1>1 DEF DatesOf
  <2>2. Dated(NpmDates(data)) /\ DOMAIN NpmDates(data) \subseteq DOMAIN data.time
    BY <2>1, RegistryAssumption DEF NpmDates, Dated
  <2> QED
    BY <2>1, <2>2, RegistryAssumption, FS_Subset
<1>2. CASE eco # "npm"
  <2> DEFINE dated == {f \in data : f.date # NoDate /\ f.version # NoVersion}
             days(v) == {f.date : f \in {g \in dated : g.version = v}}
  <2>1. DatesOf(eco, data) = [v \in {f.version : f \in dated} |-> Min(days(v))]
        /\ data \in SimplePages
    BY <1>2 DEF DatesOf, PypiDates
  <2>2. ASSUME NEW v \in {f.version : f \in dated} PROVE Min(days(v)) \in Nat
    <3>0. PICK f \in dated : f.version = v
      OBVIOUS
    <3>1. days(v) \subseteq Nat /\ f.date \in days(v)
      BY <2>1, <3>0, RegistryAssumption
    <3>2. \E x \in days(v) : \A y \in days(v) : x <= y
      BY <3>1, LeastNumber
    <3> QED
      BY <3>1, <3>2 DEF Min
  <2>3. {f.version : f \in dated} \subseteq {f.version : f \in data}
    OBVIOUS
  <2>4. IsFiniteSet({f.version : f \in dated})
    BY <2>1, <2>3, RegistryAssumption, FS_Subset
  <2> HIDE DEF dated, days
  <2> QED
    BY <2>1, <2>2, <2>4 DEF Dated
<1> QED
  BY <1>1, <1>2

LEMMA CooldownIsOn ==
  ASSUME NEW eco, NEW host, NEW path, RouteOf(eco, host, path).route = "cooldown"
  PROVE  CooldownDays > 0
BY DEF RouteOf

LEMMA BodyIsUseful == \A data : Body(data) \notin Useless /\ Body(data) # NoBody
BY DEF Body, Useless, Reply, NoBody

LEMMA InitRegistry == ASSUME RegistryInit PROVE RegistryInv
<1>1. RequestHolds
  BY DEF RegistryInit, RequestHolds
<1>2. CooldownHolds
  BY DEF RegistryInit, CooldownHolds
<1>3. ReportIsTrue
  BY DEF RegistryInit, ReportIsTrue
<1> QED
  BY <1>1, <1>2, <1>3 DEF RegistryInv

\* A response is stripped of its window, on the day of the request.
LEMMA StripHolds ==
  ASSUME RegistryInv, Strip
  PROVE  CooldownHolds'
<1>1. PICK data \in (IF request.eco = "npm" THEN Packuments ELSE SimplePages) :
         original = Body(data)
  BY DEF RegistryInv, RequestHolds, Strip, Answers
<1>2. /\ original.data = data /\ original \notin Useless /\ today = Today
      /\ CooldownDays > 0 /\ Today \in Nat /\ CooldownDays \in Nat
  BY <1>1, BodyIsUseful, RegistryAssumption DEF RegistryInv, RequestHolds, Strip, Body
<1>3. /\ UNCHANGED <<request, original>> /\ Dates' = Dates /\ Stripped' = Stripped
      /\ Dates = DatesOf(request.eco, data) /\ Dated(Dates)
      /\ Stripped = TooNew(Dates, today, CooldownDays)
  BY <1>1, <1>2, AnswersAre DEF Strip, Dates, Stripped
<1>4. CASE Stripped = {}
  <2>1. served' = original
    BY <1>2, <1>3, <1>4 DEF Strip, Dates
  <2> QED
    BY <1>2, <1>3, <1>4, <2>1 DEF CooldownHolds
<1>5. CASE Stripped # {} /\ request.eco = "npm"
  <2>1. PICK new \in StripNpm(data, Stripped) : served' = Body(new)
    BY <1>2, <1>3, <1>5 DEF Strip, Dates
  <2>2. served'.data = new /\ served' \notin Useless
    BY <2>1, BodyIsUseful DEF Body
  <2>3. Dates = NpmDates(data)
    BY <1>3, <1>5 DEF DatesOf
  <2> QED
    BY <1>2, <1>3, <1>5, <2>1, <2>2, <2>3, NpmStrips DEF CooldownHolds
<1>6. CASE Stripped # {} /\ request.eco # "npm"
  <2>1. served' = Body(StripPypi(data, Stripped))
    BY <1>2, <1>3, <1>6 DEF Strip, Dates
  <2>2. served'.data = StripPypi(data, Stripped) /\ served' \notin Useless
    BY <2>1, BodyIsUseful DEF Body
  <2> QED
    BY <1>2, <1>3, <1>6, <2>2 DEF CooldownHolds, StripPypi
<1> QED
  BY <1>4, <1>5, <1>6

\* The report is of what was stripped, also a day later.
LEMMA RecordHolds ==
  ASSUME RegistryInv, RecordStats
  PROVE  ReportIsTrue'
<1>1. /\ original \in Answers /\ CooldownDays \in Nat /\ Today \in Nat
      /\ today = Today \/ today = Today + 1
  BY RegistryAssumption DEF RegistryInv, RequestHolds, RecordStats
<1>2. Dated(Dates) /\ IsFiniteSet(DOMAIN Dates)
  <2>1. PICK data \in (IF request.eco = "npm" THEN Packuments ELSE SimplePages) :
           original = Body(data)
    BY <1>1 DEF Answers
  <2> QED
    BY <2>1, AnswersAre DEF Dates, Body
<1>3. Stripped \subseteq DOMAIN Dates /\ TooNew(Dates, today, CooldownDays) \subseteq Stripped
  BY <1>1, <1>2, WindowShrinks DEF Stripped, TooNew
<1>4. today = Today => TooNew(Dates, today, CooldownDays) = Stripped
  BY DEF Stripped
<1>5. /\ UNCHANGED <<request, original, today, pinned>>
      /\ Dates' = Dates /\ Stripped' = Stripped
      /\ report' \in Reports(Feed, pinned, Dates, Cardinality(DOMAIN Dates \ Stripped), today,
                             CooldownDays)
  BY DEF RecordStats, Dates, Stripped
<1>6. today \in Nat
  BY <1>1
<1>7. \A r \in Reports(Feed, pinned, Dates, Cardinality(DOMAIN Dates \ Stripped), today,
                     CooldownDays) :
        TrueReport(r, Feed, pinned, Dates, Stripped,
                   TooNew(Dates, today, CooldownDays))
  BY <1>1, <1>2, <1>3, <1>6, ReportSays
<1> QED
  BY <1>4, <1>5, <1>7 DEF ReportIsTrue, TrueReport

LEMMA StepRegistry ==
  ASSUME RegistryInv, [RegistryNext]_registryVars
  PROVE  RegistryInv'
<1> USE DEF RegistryInv
<1>1. CASE RouteRequest
  <2>1. RequestHolds'
    BY <1>1, CooldownIsOn DEF RouteRequest, RequestHolds, Answers
  <2> QED
    BY <1>1, <2>1 DEF RouteRequest, RequestHolds, CooldownHolds, ReportIsTrue, Dates, Stripped
<1>2. CASE HandleMetadataRequest
  BY <1>2 DEF HandleMetadataRequest, RequestHolds, Answers, CooldownHolds, ReportIsTrue
<1>3. CASE Upstream
  BY <1>3 DEF Upstream, RequestHolds, Answers, CooldownHolds, ReportIsTrue
<1>4. CASE Strip
  <2>1. RequestHolds' /\ ReportIsTrue'
    BY <1>4 DEF Strip, RequestHolds, Answers, ReportIsTrue
  <2> QED
    BY <1>4, <2>1, StripHolds
<1>5. CASE Midnight
  BY <1>5 DEF Midnight, RequestHolds, Answers, CooldownHolds, ReportIsTrue, Dates, Stripped
<1>6. CASE RecordStats
  <2>1. RequestHolds' /\ CooldownHolds'
    BY <1>6 DEF RecordStats, RequestHolds, Answers, CooldownHolds, Dates, Stripped
  <2> QED
    BY <1>6, <2>1, RecordHolds
<1>7. CASE UNCHANGED registryVars
  BY <1>7 DEF registryVars, RequestHolds, Answers, CooldownHolds, ReportIsTrue, Dates, Stripped
<1> QED
  BY <1>1, <1>2, <1>3, <1>4, <1>5, <1>6, <1>7 DEF RegistryNext

\* Whatever a registry answers and whatever the client has asked it for, a served body lacks
\* exactly the versions of the window, and what is reported of them is true, also when the
\* day ends in between.
THEOREM CooldownKept == RegistrySpec => []CooldownIsKept
<1>1. RegistryInv => CooldownIsKept
  BY DEF RegistryInv, CooldownIsKept
<1> QED
  BY InitRegistry, StepRegistry, <1>1, PTL DEF RegistrySpec

-----------------------------------------------------------------------------
(***************************************************************************)
(* What a request is read as, for any names, scopes, versions and hosts: the   *)
(* parsers take a path apart where the registries have put it together.  The    *)
(* hyphen stands within names, between them and before versions, so each case  *)
(* shows that no other cut is taken before the right one.                     *)
(***************************************************************************)

\* A suffix is given by its length.
LEMMA OneSuffix ==
  ASSUME NEW s \in Seq(STRING), NEW r \in Seq(STRING), NEW t \in Seq(STRING),
         IsSuffix(s, t), IsSuffix(r, t), Len(s) = Len(r)
  PROVE  s = r
<1> DEFINE back(q) == [i \in 1..Len(q) |-> q[(Len(q) - i) + 1]]
<1>1. \A q \in Seq(STRING) : back(q) \in Seq(STRING) /\ Len(back(q)) = Len(q)
  <2> TAKE q \in Seq(STRING)
  <2>1. Len(q) \in Nat /\ \A i \in 1..Len(q) : q[(Len(q) - i) + 1] \in STRING
    BY LenProperties, ElementOfSeq
  <2> QED
    BY <2>1
<1>2. \A q \in Seq(STRING) : SubSeq(back(q), 1, Len(q)) = back(q)
  BY <1>1, SubSeqFull
<1>3. back(s) = back(r)
  BY <1>1, <1>2 DEF IsSuffix, IsPrefix, Reverse
<1>4. ASSUME NEW i \in 1..Len(s) PROVE s[i] = r[i]
  <2>1. Len(s) \in Nat
    BY LenProperties
  <2>2. (Len(s) - i) + 1 \in 1..Len(s) /\ Len(s) - ((Len(s) - i) + 1) + 1 = i
    BY <2>1
  <2>3. back(s)[(Len(s) - i) + 1] = s[i] /\ back(r)[(Len(s) - i) + 1] = r[i]
    BY <2>2
  <2> QED
    BY <1>3, <2>3
<1> QED
  BY <1>4, SeqEqual

\* GetConfigForHostname finds the registry that serves the host.
LEMMA RegistryIsFound ==
  ASSUME NEW eco \in DOMAIN Registries, NEW host \in Seq(STRING), NEW registry,
         Serves(registry, eco, host)
  PROVE  ConfigFor(Registries[eco], host) = registry
<1> DEFINE matches == {r \in Registries[eco] : IsSuffix(r, host)}
<1>1. /\ registry \in matches /\ matches \subseteq Seq(STRING)
      /\ \A q \in matches : Len(q) <= Len(registry) /\ Len(q) \in Nat
  BY RequestsAssumption, LenProperties DEF Serves
<1>2. \A q \in matches : Len(q) = Len(registry) => q = registry
  BY <1>1, OneSuffix
<1>3. (CHOOSE r \in matches : \A q \in matches : Len(q) <= Len(r)) = registry
  <2> DEFINE c == CHOOSE r \in matches : \A q \in matches : Len(q) <= Len(r)
  <2>1. c \in matches /\ \A q \in matches : Len(q) <= Len(c)
    BY <1>1
  <2> HIDE DEF c, matches
  <2> QED
    BY <1>1, <1>2, <2>1 DEF c
<1>4. host \in Registries[eco] => host = registry
  <2>1. SUFFICES ASSUME host \in Registries[eco] PROVE host = registry
    OBVIOUS
  <2>2. host \in matches
    BY <2>1 DEF IsSuffix, IsPrefix
  <2>3. Len(registry) <= Len(host)
    <3>1. Len(Reverse(registry)) <= Len(Reverse(host))
      BY <1>1 DEF IsSuffix, IsPrefix
    <3>2. \A q \in Seq(STRING) : Len(Reverse(q)) = Len(q)
      BY LenProperties DEF Reverse
    <3> QED
      BY <1>1, <3>1, <3>2
  <2> HIDE DEF matches
  <2>4. Len(host) = Len(registry)
    BY <1>1, <2>2, <2>3
  <2> QED
    BY <1>2, <2>2, <2>4
<1> HIDE DEF matches
<1>5. matches # {}
  BY <1>1
<1> QED
  BY <1>3, <1>4, <1>5 DEF ConfigFor, matches

LEMMA NoRegistryIsFound ==
  ASSUME NEW eco, NEW host \in Seq(STRING),
         \A registry \in Registries[eco] : ~IsSuffix(registry, host)
  PROVE  ConfigFor(Registries[eco], host) = <<>>
<1>1. IsSuffix(host, host)
  <2>1. Len(Reverse(host)) <= Len(Reverse(host))
    BY LenProperties DEF Reverse
  <2> QED
    BY <2>1 DEF IsSuffix, IsPrefix
<1> QED
  BY <1>1 DEF ConfigFor

LEMMA BehindPrefix ==
  ASSUME NEW a \in Seq(Seq(STRING)), NEW b \in Seq(Seq(STRING)), b # <<>>
  PROVE  Names(a, a \o b) /\ After(a, a \o b) = b
<1> DEFINE W == Seq(STRING)
<1> HIDE DEF W
<1>0. a \in Seq(W) /\ b \in Seq(W)
  BY DEF W
<1>1. Len(a) \in Nat /\ Len(b) \in Nat \ {0} /\ Len(a \o b) = Len(a) + Len(b) /\ a \o b \in Seq(W)
  BY <1>0, LenProperties, ConcatProperties, EmptySeq
<1>2. SubSeq(a \o b, 1, Len(a)) = SubSeq(a, 1, Len(a))
  <2>1. CASE Len(a) = 0
    BY <1>0, <1>1, <2>1, SubSeqEmpty
  <2>2. CASE Len(a) > 0
    BY <1>0, <1>1, <2>2, SubSeqOfConcat1
  <2> QED
    BY <1>1, <2>1, <2>2
<1>3. SubSeq(a \o b, Len(a) + 1, Len(a) + Len(b)) = SubSeq(b, 1, Len(b))
  <2>1. /\ Len(a) + 1 \in Len(a) + 1..Len(a) + Len(b)
        /\ Len(a) + Len(b) \in Len(a) + 1..Len(a) + Len(b)
        /\ Len(a) + 1 - Len(a) = 1 /\ Len(a) + Len(b) - Len(a) = Len(b)
    BY <1>1
  <2>2. SubSeq(a \o b, Len(a) + 1, Len(a) + Len(b))
        = SubSeq(b, Len(a) + 1 - Len(a), Len(a) + Len(b) - Len(a))
    BY <1>0, <2>1, SubSeqOfConcat2
  <2> QED
    BY <2>1, <2>2
<1>4. SubSeq(b, 1, Len(b)) = b
  BY <1>0, SubSeqFull
<1> QED
  BY <1>1, <1>2, <1>3, <1>4 DEF Names, After, IsPrefix

\* A file that begins with scope and name, and with the name alone, has a version that
\* begins as the scope: every word of the name is the one before it.
LEMMA ScopeRepeats ==
  ASSUME NEW name \in Phrases, NEW version \in Phrases, NEW w \in Seq(STRING),
         Names(<<w>> \o name, name \o version)
  PROVE  version[1] = w
<1> DEFINE W == Seq(STRING)
           file == name \o version
           both == <<w>> \o name
           n == Len(name)
<1> HIDE DEF W
<1>0. name \in Seq(W) /\ version \in Seq(W) /\ <<w>> \in Seq(W) /\ name # <<>> /\ version # <<>>
  BY DEF W, Phrases
<1>1. /\ n \in Nat \ {0} /\ Len(version) \in Nat \ {0}
      /\ Len(both) = n + 1 /\ Len(file) = n + Len(version)
      /\ both \in Seq(W) /\ file \in Seq(W)
      /\ \A i \in 1..n + 1 : both[i] = IF i <= 1 THEN w ELSE name[i - 1]
      /\ \A i \in 1..n + Len(version) : file[i] = IF i <= n THEN name[i] ELSE version[i - n]
  <2>1. n \in Nat \ {0} /\ Len(version) \in Nat \ {0}
    BY <1>0, EmptySeq
  <2>2. /\ Len(file) = n + Len(version) /\ file \in Seq(W)
        /\ \A i \in 1..n + Len(version) : file[i] = IF i <= n THEN name[i] ELSE version[i - n]
    BY <1>0, ConcatProperties
  <2>3. Len(<<w>>) = 1 /\ <<w>>[1] = w
    OBVIOUS
  <2>4. /\ Len(both) = 1 + n /\ both \in Seq(W)
        /\ \A i \in 1..1 + n : both[i] = IF i <= 1 THEN <<w>>[i] ELSE name[i - 1]
    BY <1>0, <2>3, ConcatProperties
  <2>5. \A i \in 1..n + 1 : both[i] = IF i <= 1 THEN w ELSE name[i - 1]
    BY <2>1, <2>3, <2>4
  <2> HIDE DEF both, file, n
  <2> QED
    BY <2>1, <2>2, <2>4, <2>5
<1>2. \A i \in 1..n + 1 : both[i] = file[i]
  <2>1. SubSeq(both, 1, n + 1) = SubSeq(file, 1, n + 1) /\ n + 1 <= Len(file)
    BY <1>1 DEF Names, IsPrefix
  <2> HIDE DEF both, file, n
  <2>2. \A i \in 1..n + 1 : SubSeq(both, 1, n + 1)[i] = both[i]
    <3>1. \A i \in 1..n + 1 : both[i] \in W
      BY <1>1, ElementOfSeq
    <3> QED
      BY <1>1, <3>1, SubSeqProperties
  <2>3. \A i \in 1..n + 1 : SubSeq(file, 1, n + 1)[i] = file[i]
    <3>1. \A i \in 1..n + 1 : file[i] \in W
      BY <1>1, <2>1, ElementOfSeq
    <3> QED
      BY <1>1, <3>1, SubSeqProperties
  <2> QED
    BY <2>1, <2>2, <2>3
<1> HIDE DEF both, file, n
<1> DEFINE odd == {i \in 1..n + 1 : file[i] # w}
<1>3. ASSUME odd # {} PROVE FALSE
  <2>1. PICK i \in odd : \A j \in odd : i <= j
    <3>1. odd \subseteq Nat
      BY <1>1
    <3> QED
      BY <1>3, <3>1, LeastNumber
  <2>2. i # 1
    BY <1>1, <1>2, <2>1
  <2>3. i - 1 \in 1..n + 1 /\ i - 1 <= n /\ file[i - 1] = w
    BY <1>1, <2>1, <2>2
  <2>4. name[i - 1] = file[i - 1]
    BY <1>1, <2>3
  <2> QED
    BY <1>1, <1>2, <2>1, <2>2, <2>3, <2>4
<1>4. file[n + 1] = w
  <2>1. n + 1 \in 1..n + 1
    BY <1>1
  <2> QED
    BY <1>3, <2>1
<1>5. file[n + 1] = version[1]
  BY <1>1
<1> QED
  BY <1>4, <1>5

LEMMA SegmentParts ==
  /\ \A words, ext : Segment(words, ext).words = words /\ Segment(words, ext).ext = ext
  /\ \A words : Plain(words).words = words
  /\ \A s : Word(s).words = <<<<s>>>> /\ Word(s).words[1][1] = s
  /\ \A s, t : Word(s) = Word(t) => s = t
  /\ \A scope, name, version, download :
       LET info == Info(scope, name, version, download)
       IN info.ok /\ info.scope = scope /\ info.name = name /\ info.version = version
          /\ info.download = download
  /\ ~NoInfo.ok
BY DEF Segment, Plain, Word, Info, NoInfo

\* The branches of the parsers.
LEMMA PackageForms ==
  ASSUME NEW scope, NEW segments
  PROVE  LET name == segments[1].words
             version == IF scope = NoScope THEN TarballVersion(name, segments[3])
                        ELSE ScopedTarballVersion(scope, name, segments[3])
         IN /\ Len(segments) = 1 => ParsePackage(scope, segments) = Info(scope, name, <<>>, FALSE)
            /\ Len(segments) = 3 /\ segments[2] = Hyphen =>
                 ParsePackage(scope, segments)
                 = IF version = <<>> THEN NoInfo ELSE Info(scope, name, version, TRUE)
            /\ Len(segments) = 3 /\ segments[2] # Hyphen => ParsePackage(scope, segments) = NoInfo
            /\ Len(segments) \notin {1, 2, 3} => ParsePackage(scope, segments) = NoInfo
<1>1. 1 # 2 /\ 1 # 3 /\ 2 # 3 /\ 3 # 1 /\ 3 # 2
  OBVIOUS
<1> QED
  BY <1>1, Zenon DEF ParsePackage

LEMMA SimpleForms ==
  ASSUME NEW segments
  PROVE  LET page == Info(NoScope, Denormalize(segments[1].words), <<>>, FALSE)
             file == ParseFilename(segments[2])
         IN /\ Len(segments) = 1 => ParseSimple(segments) = page
            /\ Len(segments) = 2 => ParseSimple(segments) = IF file.ok THEN file ELSE page
            /\ Len(segments) \notin {1, 2} => ParseSimple(segments) = NoInfo
<1>1. 1 # 2 /\ 2 # 1
  OBVIOUS
<1> QED
  BY <1>1, Zenon DEF ParseSimple

LEMMA FileForms ==
  ASSUME NEW file
  PROVE  /\ file.ext = ".whl" => ParseFilename(file) = ParseWheel(file.words)
         /\ file.ext \in Archives => ParseFilename(file) = ParseSdist(file.words)
         /\ file.ext \notin Archives \cup {".whl"} => ParseFilename(file) = NoInfo
<1>1. ".whl" \notin Archives
  BY DEF Archives
<1> QED
  BY <1>1, Zenon DEF ParseFilename

LEMMA TarballIsRead ==
  ASSUME NEW scope, NEW name, NEW file, NEW version, version # <<>>,
         version = IF scope = NoScope THEN TarballVersion(name, file)
                   ELSE ScopedTarballVersion(scope, name, file)
  PROVE  ParsePackage(scope, <<Plain(name), Hyphen, file>>) = Info(scope, name, version, TRUE)
<1> DEFINE segments == <<Plain(name), Hyphen, file>>
<1>1. /\ Len(segments) = 3 /\ segments[1] = Plain(name) /\ segments[2] = Hyphen
      /\ segments[3] = file
  OBVIOUS
<1>2. segments[1].words = name
  BY <1>1, SegmentParts
<1> HIDE DEF segments
<1>3. ParsePackage(scope, segments)
      = IF version = <<>> THEN NoInfo ELSE Info(scope, name, version, TRUE)
  BY <1>1, <1>2 DEF ParsePackage
<1> QED
  BY <1>3 DEF segments

LEMMA NpmDownloadIsRead ==
  ASSUME NEW path, NEW asked, NpmDownload(path, asked)
  PROVE  ParseNpm(path) = Info(asked.scope, asked.name, asked.version, TRUE)
<1> DEFINE scope == asked.scope  name == asked.name  version == asked.version
           short == Segment(name \o version, ".tgz")
<1>0. /\ name \in Phrases /\ version \in Phrases
      /\ name \in Seq(Seq(STRING)) /\ version \in Seq(Seq(STRING)) /\ version # <<>>
  BY DEF NpmDownload, Phrases
<1>1. TarballVersion(name, short) = version
  BY <1>0, BehindPrefix, SegmentParts DEF TarballVersion
<1>2. CASE scope = NoScope /\ ~IsScope(Plain(name)) /\ path = NpmTarball(NoScope, name, version)
  <2>1. path = <<Plain(name), Hyphen, short>>
    BY <1>2 DEF NpmTarball
  <2> HIDE DEF short, scope, name, version
  <2>2. path # <<>> /\ path[1] = Plain(name) /\ path[2] = Hyphen /\ path[3] = short /\ Len(path) = 3
    BY <2>1
  <2>3. ParseNpm(path) = ParsePackage(NoScope, path)
    BY <1>2, <2>2 DEF ParseNpm
  <2> QED
    BY <1>0, <1>1, <1>2, <2>1, <2>3, TarballIsRead DEF scope, name, version
<1>3. CASE /\ scope \in DOMAIN Scopes /\ version[1] # <<Scopes[scope]>>
           /\ path = NpmTarball(scope, name, version)
  <2>1. scope # NoScope
    BY <1>3, RequestsAssumption
  <2>2. path = <<Word(scope), Plain(name), Hyphen, short>>
    BY <1>3, <2>1 DEF NpmTarball
  <2> HIDE DEF short, scope, name, version
  <2>3. path # <<>> /\ path[1] = Word(scope) /\ Len(path) = 4 /\ Tail(path) = <<Plain(name), Hyphen, short>>
    BY <2>2
  <2>4. IsScope(path[1]) /\ path[1].words[1][1] = scope
    BY <1>3, <2>3, SegmentParts DEF IsScope
  <2>5. ParseNpm(path) = ParsePackage(scope, Tail(path))
    BY <2>3, <2>4 DEF ParseNpm
  <2>6. ScopedTarballVersion(scope, name, short) = version
    <3>0. <<Scopes[scope]>> \in Seq(STRING) /\ short.words = name \o version
      <4>1. Scopes[scope] \in STRING
        BY <1>3, RequestsAssumption
      <4>2. short.words = name \o version
        BY DEF short, Segment
      <4> QED
        BY <4>1, <4>2
    <3>1. ~Names(<<<<Scopes[scope]>>>> \o name, name \o version)
      BY <1>0, <1>3, <3>0, ScopeRepeats
    <3>2. TarballVersion(<<<<Scopes[scope]>>>> \o name, short) = <<>>
      BY <3>0, <3>1 DEF TarballVersion
    <3> QED
      BY <1>1, <3>2 DEF ScopedTarballVersion
  <2> QED
    BY <1>0, <2>1, <2>3, <2>5, <2>6, TarballIsRead DEF scope, name, version
<1>4. CASE /\ scope \in DOMAIN Scopes
           /\ path = NpmLongTarball(scope, name, version)
  <2> DEFINE both == <<<<Scopes[scope]>>>> \o name
             long == Segment(both \o version, ".tgz")
  <2>1. scope # NoScope
    BY <1>4, RequestsAssumption
  <2>2. path = <<Word(scope), Plain(name), Hyphen, long>>
    BY <1>4 DEF NpmLongTarball
  <2>6. TarballVersion(both, long) = version
    <3>0. Scopes[scope] \in STRING
      BY <1>4, RequestsAssumption
    <3>1. <<<<Scopes[scope]>>>> \in Seq(Seq(STRING))
      BY <3>0
    <3>2. both \in Seq(Seq(STRING))
      BY <1>0, <3>1, ConcatProperties
    <3>3. Names(both, both \o version) /\ After(both, both \o version) = version
      BY <1>0, <3>2, BehindPrefix
    <3>4. long.words = both \o version /\ long.ext = ".tgz"
      BY DEF Segment
    <3> HIDE DEF both, long
    <3> QED
      BY <3>3, <3>4 DEF TarballVersion
  <2>7. ScopedTarballVersion(scope, name, long) = version
    BY <1>0, <2>6 DEF ScopedTarballVersion
  <2> HIDE DEF long, scope, name, version
  <2>3. path # <<>> /\ path[1] = Word(scope) /\ Len(path) = 4 /\ Tail(path) = <<Plain(name), Hyphen, long>>
    BY <2>2
  <2>4. IsScope(path[1]) /\ path[1].words[1][1] = scope
    BY <1>4, <2>3, SegmentParts DEF IsScope
  <2>5. ParseNpm(path) = ParsePackage(scope, Tail(path))
    BY <2>3, <2>4 DEF ParseNpm
  <2> QED
    BY <1>0, <2>1, <2>3, <2>5, <2>7, TarballIsRead DEF scope, name, version
<1> QED
  BY <1>2, <1>3, <1>4 DEF NpmDownload

LEMMA NpmPageIsRead ==
  ASSUME NEW path, NEW asked, NpmPage(path, asked)
  PROVE  ParseNpm(path) = Info(asked.scope, asked.name, <<>>, FALSE)
<1> DEFINE scope == asked.scope  name == asked.name
<1>1. CASE scope = NoScope /\ ~IsScope(Plain(name)) /\ path = <<Plain(name)>>
  <2> HIDE DEF scope, name
  <2>1. path # <<>> /\ path[1] = Plain(name) /\ Len(path) = 1
    BY <1>1
  <2>2. ParseNpm(path) = ParsePackage(NoScope, path)
    BY <1>1, <2>1 DEF ParseNpm
  <2>3. path[1].words = name
    BY <2>1, SegmentParts
  <2> QED
    BY <1>1, <2>1, <2>2, <2>3, PackageForms DEF scope, name
<1>2. CASE scope \in DOMAIN Scopes /\ path = <<Word(scope), Plain(name)>>
  <2> HIDE DEF scope, name
  <2>1. /\ path # <<>> /\ path[1] = Word(scope) /\ Len(path) = 2
        /\ Tail(path)[1] = Plain(name) /\ Len(Tail(path)) = 1
    BY <1>2
  <2>2. IsScope(path[1]) /\ path[1].words[1][1] = scope
    BY <1>2, <2>1, SegmentParts DEF IsScope
  <2>3. ParseNpm(path) = ParsePackage(scope, Tail(path))
    BY <2>1, <2>2 DEF ParseNpm
  <2>4. Tail(path)[1].words = name
    BY <2>1, SegmentParts
  <2> QED
    BY <2>1, <2>3, <2>4, PackageForms DEF scope, name
<1> QED
  BY <1>1, <1>2 DEF NpmPage

LEMMA NpmOtherIsPassed ==
  ASSUME NEW path \in Seq(Segments), NpmOther(path)
  PROVE  ~ParseNpm(path).ok
<1> DEFINE X == Segments
<1> HIDE DEF X
<1>0. path \in Seq(X) /\ Len(path) \in Nat /\ (path # <<>> => Len(Tail(path)) = Len(path) - 1)
      /\ (Len(path) > 0 => path # <<>>)
  <2>1. path \in Seq(X)
    BY DEF X
  <2> QED
    BY <2>1, LenProperties, HeadTailProperties, EmptySeq
<1>1. \A scope, segments : Len(segments) \notin {1, 2, 3} => ParsePackage(scope, segments) = NoInfo
  BY PackageForms, Zenon
<1>2. CASE path = <<>>
  BY <1>2, SegmentParts DEF ParseNpm
<1>3. CASE \E s \in DOMAIN Scopes : path = <<Word(s)>>
  <2>1. path # <<>> /\ IsScope(path[1]) /\ Len(path) < 2
    BY <1>3 DEF IsScope
  <2> QED
    BY <2>1, SegmentParts DEF ParseNpm
<1>4. CASE /\ Len(path) = 3 /\ ~IsScope(path[1])
           /\ path[2] # Hyphen \/ path[3].ext # ".tgz" \/ ~Names(path[1].words, path[3].words)
  <2>1. ParseNpm(path) = ParsePackage(NoScope, path)
    BY <1>0, <1>4 DEF ParseNpm
  <2>2. path[2] = Hyphen => TarballVersion(path[1].words, path[3]) = <<>>
    BY <1>4 DEF TarballVersion
  <2>3. ParsePackage(NoScope, path) = NoInfo
    BY <1>4, <2>2, PackageForms
  <2> QED
    BY <2>1, <2>3, SegmentParts
<1>5. CASE Len(path) > 3 /\ ~IsScope(path[1])
  <2>1. ParseNpm(path) = ParsePackage(NoScope, path)
    BY <1>0, <1>5 DEF ParseNpm
  <2> DEFINE n == Len(path)
  <2>2. n \in Nat /\ n > 3
    BY <1>0, <1>5
  <2> HIDE DEF n
  <2>3. n \notin {1, 2, 3}
    BY <2>2
  <2> QED
    BY <1>1, <2>1, <2>3, SegmentParts DEF n
<1>6. CASE Len(path) > 4 /\ IsScope(path[1])
  <2>1. ParseNpm(path) = ParsePackage(path[1].words[1][1], Tail(path))
    BY <1>0, <1>6 DEF ParseNpm
  <2> DEFINE n == Len(path)  m == Len(Tail(path))
  <2>2. n \in Nat /\ n > 4 /\ m = n - 1
    BY <1>0, <1>6
  <2> HIDE DEF n, m
  <2>3. m \notin {1, 2, 3}
    BY <2>2
  <2>4. ParseNpm(path) = NoInfo
    BY <1>1, <2>1, <2>3, Zenon DEF m
  <2> QED
    BY <2>4, SegmentParts
<1> QED
  BY <1>0, <1>2, <1>3, <1>4, <1>5, <1>6 DEF NpmOther

\* One word is its own normal form.
LEMMA OneWord == \A word : Denormalize(<<word>>) = word
<1> TAKE word
<1> DEFINE step(f, i) == IF i = 1 THEN <<word>>[i] ELSE f[i - 1] \o <<word>>[i]
           flatten == CHOOSE f : f = [i \in 1..1 |-> step(f, i)]
<1>1. Denormalize(<<word>>) = flatten[1]
  BY DEF Denormalize, FlattenSeq
<1>2. \E f : f = [i \in 1..1 |-> step(f, i)]
  <2> DEFINE g == [i \in 1..1 |-> word]
  <2>1. g = [i \in 1..1 |-> step(g, i)]
    OBVIOUS
  <2> QED
    BY <2>1
<1>3. flatten = [i \in 1..1 |-> step(flatten, i)]
  BY <1>2, Zenon
<1>4. flatten[1] = step(flatten, 1)
  <2> HIDE DEF flatten, step
  <2> QED
    BY <1>3
<1> QED
  BY <1>1, <1>4

LEMMA SdistIsRead ==
  ASSUME NEW file \in Segments, NEW asked, IsSdist(file, asked), asked.version # <<>>
  PROVE  ParseFilename(file) = Info(NoScope, asked.name, asked.version, TRUE)
<1> DEFINE words == file.words  n == Len(words)
           places == {l \in 2..n : SdistVersion(words, l) # <<>>}
<1>1. n \in Nat
  BY LenProperties DEF Segments, Phrases
<1>2. PICK k \in 2..n :
        /\ asked.name = Denormalize(SubSeq(words, 1, k - 1))
        /\ asked.version = SubSeq(words, k, n)
        /\ \A l \in k + 1..n : SubSeq(words, l, n) \notin Versions /\ <<words[l]>> \notin Versions
  BY DEF IsSdist
<1>3. SdistVersion(words, k) = asked.version /\ k \in places
  BY <1>2 DEF IsSdist, SdistVersion
<1>4. \A l \in k + 1..n : SdistVersion(words, l) = <<>>
  BY <1>2 DEF SdistVersion
<1>5. \A l \in places : l <= k
  BY <1>1, <1>2, <1>4
<1>6. (CHOOSE j \in places : \A l \in places : l <= j) = k
  <2> DEFINE c == CHOOSE j \in places : \A l \in places : l <= j
  <2>1. c \in places /\ \A l \in places : l <= c
    BY <1>3, <1>5
  <2>2. \A j \in places : j \in Int
    BY <1>1
  <2> HIDE DEF c, places
  <2>3. c = k
    BY <1>3, <1>5, <2>1, <2>2
  <2> QED
    BY <2>3 DEF c
<1>7. LastVersion(words, LAMBDA l : SdistVersion(words, l) # <<>>) = k
  BY <1>3, <1>6 DEF LastVersion
<1>8. ParseSdist(words)
      = Info(NoScope, Denormalize(SubSeq(words, 1, k - 1)), SdistVersion(words, k), TRUE)
  <2>1. k # 0
    BY <1>1, <1>2
  <2> QED
    BY <1>7, <2>1, Zenon DEF ParseSdist
<1>9. ParseFilename(file) = ParseSdist(words)
  BY FileForms DEF IsSdist
<1> QED
  BY <1>2, <1>3, <1>8, <1>9

LEMMA WheelForms ==
  ASSUME NEW words, ~(Len(words) < 5), NEW name, NEW version,
         \/ /\ Len(words) = 5 \/ (Len(words) = 6 /\ words[3] \in BuildTags)
            /\ name = <<words[1]>> /\ version = words[2]
         \/ /\ Len(words) = 6 /\ words[3] \notin BuildTags
            /\ name = SubSeq(words, 1, 2) /\ version = words[3]
         \/ /\ Len(words) # 5 /\ Len(words) # 6
            /\ SplitParts(SubSeq(words, 1, Len(words) - 3)) = [name |-> name, version |-> version]
  PROVE  ParseWheel(words) = Info(NoScope, Denormalize(name), <<version>>, TRUE)
<1> DEFINE n == Len(words)
           split == CASE n = 5 -> [name |-> <<words[1]>>, version |-> words[2]]
                      [] n = 6 /\ words[3] \in BuildTags ->
                           [name |-> <<words[1]>>, version |-> words[2]]
                      [] n = 6 /\ words[3] \notin BuildTags ->
                           [name |-> SubSeq(words, 1, 2), version |-> words[3]]
                      [] OTHER -> SplitParts(SubSeq(words, 1, n - 3))
<1>1. 5 # 6 /\ 6 # 5
  OBVIOUS
<1>2. split = [name |-> name, version |-> version]
  <2>1. CASE n = 5 /\ name = <<words[1]>> /\ version = words[2]
    BY <1>1, <2>1, Zenon
  <2>2. CASE n = 6 /\ words[3] \in BuildTags /\ name = <<words[1]>> /\ version = words[2]
    <3>1. n # 5
      BY <1>1, <2>2, Zenon
    <3>2. split = [name |-> <<words[1]>>, version |-> words[2]]
      BY <2>2, <3>1, Zenon
    <3> HIDE DEF split
    <3> QED
      BY <2>2, <3>2, Zenon
  <2>3. CASE n = 6 /\ words[3] \notin BuildTags /\ name = SubSeq(words, 1, 2) /\ version = words[3]
    BY <1>1, <2>3, Zenon
  <2>4. CASE /\ n # 5 /\ n # 6
             /\ SplitParts(SubSeq(words, 1, n - 3)) = [name |-> name, version |-> version]
    BY <2>4, Zenon
  <2> HIDE DEF split
  <2> QED
    BY <2>1, <2>2, <2>3, <2>4, Zenon
<1>3. split.name = name /\ split.version = version
  <2> HIDE DEF split
  <2> QED
    BY <1>2
<1>4. ParseWheel(words) = Info(NoScope, Denormalize(split.name), <<split.version>>, TRUE)
  BY Zenon DEF ParseWheel
<1> QED
  BY <1>3, <1>4, Zenon

LEMMA WheelIsRead ==
  ASSUME NEW file \in Segments, NEW asked, IsWheel(file, asked)
  PROVE  ParseFilename(file) = Info(NoScope, asked.name, asked.version, TRUE)
<1> DEFINE words == file.words  n == Len(words)
<1>1. n \in Nat /\ words \in Seq(Seq(STRING))
  BY LenProperties DEF Segments, Phrases
<1>2. ParseFilename(file) = ParseWheel(words)
  BY FileForms DEF IsWheel
<1>3. CASE /\ n = 5 \/ (n = 6 /\ words[3] \in BuildTags)
           /\ asked.name = words[1] /\ asked.version = <<words[2]>>
  <2> HIDE DEF n
  <2>1. ~(n < 5)
    BY <1>3
  <2>2. ParseWheel(words) = Info(NoScope, Denormalize(<<words[1]>>), <<words[2]>>, TRUE)
    BY <1>3, <2>1, WheelForms, Zenon DEF n
  <2> QED
    BY <1>2, <1>3, <2>2, OneWord
<1>4. CASE /\ n > 5 /\ asked.name = Denormalize(SubSeq(words, 1, n - 4))
           /\ asked.version = <<words[n - 3]>>
           /\ IF n = 6 THEN words[3] \notin BuildTags ELSE asked.version \in Versions
  <2>1. CASE n = 6
    <3>1. ~(n < 5) /\ n - 4 = 2 /\ n - 3 = 3
      BY <2>1
    <3>2. words[3] \notin BuildTags
      BY <1>4, <2>1
    <3>3. ParseWheel(words) = Info(NoScope, Denormalize(SubSeq(words, 1, 2)), <<words[3]>>, TRUE)
      BY <2>1, <3>1, <3>2, WheelForms, Zenon
    <3> HIDE DEF n, words
    <3> QED
      BY <1>2, <1>4, <3>1, <3>3
  <2>2. CASE n # 6
    <3> DEFINE parts == SubSeq(words, 1, n - 3)
               m == n - 3
    <3>0. n \in Nat /\ n > 6 /\ m \in Nat /\ m > 3 /\ ~(n < 5) /\ n # 5 /\ n # 6 /\ n - 4 = m - 1
      <4> HIDE DEF n
      <4> QED
        BY <1>1, <1>4, <2>2
    <3>1. /\ Len(parts) = m /\ \A l \in 1..m : parts[l] = words[l]
      <4>1. \A l \in 1..m : words[l] \in Seq(STRING)
        BY <1>1, <3>0, ElementOfSeq
      <4> QED
        BY <1>1, <3>0, <4>1, SubSeqProperties
    <3>2. SubSeq(parts, 1, m - 1) = SubSeq(words, 1, m - 1)
      <4>1. parts \in Seq(Seq(STRING))
        BY <1>1, <3>0, SubSeqProperties, ElementOfSeq
      <4> QED
        BY <1>1, <3>0, <3>1, <4>1, SubSeqOfSubSeq
    <3>3. <<parts[m]>> \in Versions
      BY <1>4, <2>2, <3>0, <3>1
    <3> HIDE DEF parts, n, words
    <3> DEFINE places == {l \in 2..Len(parts) : <<parts[l]>> \in Versions}
    <3>4. m \in places /\ \A l \in places : l \in Int /\ l <= m
      BY <3>0, <3>1, <3>3
    <3>5. (CHOOSE j \in places : \A l \in places : l <= j) = m
      <4> DEFINE c == CHOOSE j \in places : \A l \in places : l <= j
      <4>1. c \in places /\ \A l \in places : l <= c
        BY <3>4
      <4> HIDE DEF c, places
      <4>2. c = m
        BY <3>4, <4>1
      <4> QED
        BY <4>2 DEF c
    <3>6. LastVersion(parts, LAMBDA l : <<parts[l]>> \in Versions) = m
      BY <3>4, <3>5 DEF LastVersion
    <3>7. m # 0
      BY <3>0
    <3>8. SplitParts(parts) = [name |-> SubSeq(parts, 1, m - 1), version |-> parts[m]]
      BY <3>6, <3>7, Zenon DEF SplitParts
    <3>9. parts[m] = words[m]
      BY <3>0, <3>1
    <3>10. ParseWheel(words)
           = Info(NoScope, Denormalize(SubSeq(words, 1, m - 1)), <<words[m]>>, TRUE)
      BY <3>0, <3>2, <3>8, <3>9, WheelForms, Zenon DEF parts, n
    <3> HIDE DEF m
    <3> QED
      BY <1>2, <1>4, <3>0, <3>10 DEF m
  <2> QED
    BY <2>1, <2>2
<1> QED
  BY <1>3, <1>4 DEF IsWheel

LEMMA SimpleIsRead ==
  ASSUME NEW path \in Seq(Segments), Len(path) >= 2, path[1] = Word("simple")
  PROVE  /\ ParsePypiOrg(path) = ParseSimple(Tail(path))
         /\ Len(Tail(path)) = Len(path) - 1
         /\ \A i \in 1..Len(path) - 1 : Tail(path)[i] = path[i + 1]
<1> DEFINE n == Len(path)
<1>1. n \in Nat /\ n >= 2
  BY LenProperties
<1> HIDE DEF n
<1>2. ~(n < 2)
  BY <1>1
<1>3. Word("simple") # Word("pypi")
  <2>1. "simple" # "pypi"
    OBVIOUS
  <2> QED
    BY <2>1, SegmentParts
<1>4. ParsePypiOrg(path) = ParseSimple(Tail(path))
  BY <1>2, <1>3, Zenon DEF ParsePypiOrg, n
<1>5. path # <<>>
  BY <1>1 DEF n
<1>6. Len(Tail(path)) = n - 1 /\ \A i \in 1..Len(Tail(path)) : Tail(path)[i] = path[i + 1]
  <2> DEFINE X == Segments
  <2>1. path \in Seq(X)
    OBVIOUS
  <2> HIDE DEF X
  <2> QED
    BY <1>5, <2>1, HeadTailProperties DEF n
<1> QED
  BY <1>4, <1>6 DEF n

LEMMA PypiDownloadIsRead ==
  ASSUME NEW registry, NEW path \in Seq(Segments), NEW asked, PypiDownload(registry, path, asked)
  PROVE  (IF registry = PypiOrg THEN ParsePypiOrg(path) ELSE ParsePypiFiles(path))
         = Info(NoScope, asked.name, asked.version, TRUE)
<1> DEFINE info == Info(NoScope, asked.name, asked.version, TRUE)
<1>1. Len(path) \in Nat /\ Len(path) >= 2
  BY LenProperties DEF PypiDownload
<1>2. Last(path) = path[Len(path)] /\ Last(path) \in Segments
  BY <1>1, ElementOfSeq DEF Last
<1>3. ParseFilename(Last(path)) = info
  BY <1>2, SdistIsRead, WheelIsRead DEF PypiDownload
<1> HIDE DEF info
<1>4. CASE registry = PypiOrg
  <2>1. Len(path) = 3 /\ path[1] = Word("simple")
    BY <1>4 DEF PypiDownload
  <2>2. /\ ParsePypiOrg(path) = ParseSimple(Tail(path)) /\ Len(Tail(path)) = 2
        /\ Tail(path)[2] = Last(path)
    <3>1. /\ ParsePypiOrg(path) = ParseSimple(Tail(path)) /\ Len(Tail(path)) = 2
          /\ Tail(path)[2] = path[3]
      BY <1>1, <2>1, SimpleIsRead
    <3> QED
      BY <1>2, <2>1, <3>1
  <2>3. info.ok
    BY SegmentParts DEF info
  <2>4. ParseSimple(Tail(path)) = info
    BY <1>3, <2>2, <2>3, SimpleForms
  <2> QED
    BY <1>4, <2>2, <2>4 DEF info
<1>5. CASE registry # PypiOrg
  <2>1. ParsePypiFiles(path) = ParseFilename(Last(path))
    BY <1>1, <1>5 DEF ParsePypiFiles, PypiDownload
  <2> QED
    BY <1>3, <1>5, <2>1 DEF info
<1> QED
  BY <1>4, <1>5

LEMMA PypiPageIsRead ==
  ASSUME NEW registry, NEW path \in Seq(Segments), NEW asked, PypiPage(registry, path, asked)
  PROVE  ParsePypiOrg(path) = Info(NoScope, asked.name, <<>>, FALSE)
<1>1. Len(path) = 2 /\ path[1] = Word("simple") /\ asked.name = Denormalize(path[2].words)
  BY DEF PypiPage
<1>2. /\ ParsePypiOrg(path) = ParseSimple(Tail(path)) /\ Len(Tail(path)) = 1
      /\ Tail(path)[1] = path[2]
  BY <1>1, SimpleIsRead
<1> QED
  BY <1>1, <1>2, SimpleForms

\* What is neither the page nor a file of a package is not read, or not to be analysed.
LEMMA PypiOtherIsPassed ==
  ASSUME NEW registry, NEW path \in Seq(Segments), PypiOther(registry, path)
  PROVE  LET info == IF registry = PypiOrg THEN ParsePypiOrg(path) ELSE ParsePypiFiles(path)
         IN ~info.ok \/ (~info.download /\ path[1] # Word("simple"))
<1> DEFINE n == Len(path)
<1>1. n \in Nat
  BY LenProperties
<1>2. CASE registry = PypiOrg /\ n < 2
  BY <1>2, SegmentParts DEF ParsePypiOrg
<1>3. CASE registry = PypiOrg /\ ~(n < 2) /\ path[1] # Word("simple")
  <2>1. ParsePypiOrg(path) = NoInfo \/ ParsePypiOrg(path) = ParseJson(Tail(path))
    BY <1>3, Zenon DEF ParsePypiOrg
  <2>2. \A segments : \/ ParseJson(segments) = NoInfo
                      \/ \E name, version : ParseJson(segments) = Info(NoScope, name, version, FALSE)
    <3> TAKE segments
    <3>1. CASE Len(segments) = 2 /\ segments[2] = Word("json")
      <4>1. 2 # 3
        OBVIOUS
      <4>2. ParseJson(segments) = Info(NoScope, Denormalize(segments[1].words), <<>>, FALSE)
        BY <3>1, <4>1, Zenon DEF ParseJson
      <4> QED
        BY <4>2
    <3>2. CASE Len(segments) = 3 /\ segments[3] = Word("json")
      <4>1. 3 # 2
        OBVIOUS
      <4>2. ParseJson(segments)
            = Info(NoScope, Denormalize(segments[1].words), segments[2].words, FALSE)
        BY <3>2, <4>1, Zenon DEF ParseJson
      <4> QED
        BY <4>2
    <3>3. CASE /\ ~(Len(segments) = 2 /\ segments[2] = Word("json"))
               /\ ~(Len(segments) = 3 /\ segments[3] = Word("json"))
      BY <3>3, Zenon DEF ParseJson
    <3> QED
      BY <3>1, <3>2, <3>3
  <2>3. ~NoInfo.ok /\ \A name, version : ~Info(NoScope, name, version, FALSE).download
    BY DEF NoInfo, Info
  <2>4. ~ParsePypiOrg(path).ok \/ ~ParsePypiOrg(path).download
    BY <2>1, <2>2, <2>3, Zenon
  <2> QED
    BY <1>3, <2>4
<1>4. CASE registry = PypiOrg /\ path[1] = Word("simple") /\ n > 3
  <2> HIDE DEF n
  <2>1. Len(Tail(path)) = n - 1 /\ ParsePypiOrg(path) = ParseSimple(Tail(path))
    BY <1>1, <1>4, SimpleIsRead DEF n
  <2> DEFINE m == Len(Tail(path))
  <2> HIDE DEF m
  <2>2. m = n - 1
    BY <2>1 DEF m
  <2>3. m \notin {1, 2}
    BY <1>1, <1>4, <2>2
  <2>4. ParsePypiOrg(path) = NoInfo
    BY <2>1, <2>3, SimpleForms, Zenon DEF m
  <2> QED
    BY <1>4, <2>4, SegmentParts
<1>5. CASE registry # PypiOrg /\ (n < 2 \/ path[1] # Word("packages"))
  BY <1>5, SegmentParts DEF ParsePypiFiles
<1>6. CASE registry # PypiOrg /\ Last(path).ext \notin Archives \cup {".whl"}
  <2>1. ParseFilename(Last(path)) = NoInfo
    BY <1>6, FileForms
  <2>2. ParsePypiFiles(path) = NoInfo
    BY <2>1 DEF ParsePypiFiles
  <2> QED
    BY <1>6, <2>2, SegmentParts
<1> HIDE DEF n
<1>7. n < 2 \/ ~(n < 2)
  OBVIOUS
<1> QED
  BY <1>2, <1>3, <1>4, <1>5, <1>6, <1>7 DEF PypiOther, n

-----------------------------------------------------------------------------
\* What PackageIsNamed asks of a request's route and of the package it was read as.
NamedAs(r, to, info) ==
  /\ r.asked.kind = "download" =>
       /\ to = "analyse" /\ info.scope = r.asked.scope
       /\ info.name = r.asked.name /\ info.version = r.asked.version
  /\ r.asked.kind = "page" =>
       /\ CooldownDays > 0 => to = "cooldown"
       /\ info.scope = r.asked.scope /\ info.name = r.asked.name
  /\ r.asked.kind = "other" => to = "pass"

LEMMA RouteForms ==
  ASSUME NEW eco, NEW host, NEW path, NEW registry, registry = ConfigFor(Registries[eco], host),
         NEW info, info = Parse(eco, registry, path)
  PROVE  LET r == RouteOf(eco, host, path)
         IN /\ registry \notin Analysed \/ ~info.ok => r.route = "pass"
            /\ registry \in Analysed /\ info.ok => r.package = info
            /\ registry \in Analysed /\ info.ok /\ info.download /\ info.name # <<>>
                 /\ info.version # <<>> => r.route = "analyse"
            /\ registry \in Analysed /\ info.ok /\ ~info.download =>
                 r.route = IF CooldownDays > 0 /\ HasCooldown(eco, path) THEN "cooldown" ELSE "pass"
<1> DEFINE r == RouteOf(eco, host, path)
<1>1. ASSUME registry \notin Analysed \/ ~info.ok PROVE r = [route |-> "pass", package |-> NoInfo]
  BY <1>1, Zenon DEF RouteOf
<1>2. ASSUME registry \in Analysed, info.ok, info.download
      PROVE  r = [route |-> IF info.name = <<>> \/ info.version = <<>> THEN "pass" ELSE "analyse",
                  package |-> info]
  BY <1>2, Zenon DEF RouteOf
<1>3. ASSUME registry \in Analysed, info.ok, ~info.download
      PROVE  r = [route |-> IF CooldownDays > 0 /\ HasCooldown(eco, path) THEN "cooldown" ELSE "pass",
                  package |-> info]
  BY <1>3, Zenon DEF RouteOf
<1> HIDE DEF r
<1> QED
  BY <1>1, <1>2, <1>3 DEF r

\* Of a registry that is analysed.
LEMMA AskedIsNamed ==
  ASSUME NEW r, NEW registry \in Analysed, r.eco \in DOMAIN Registries, r.host \in Seq(STRING),
         r.path \in Seq(Segments), Serves(registry, r.eco, r.host), Asks(registry, r)
  PROVE  LET to == RouteOf(r.eco, r.host, r.path) IN NamedAs(r, to.route, to.package)
<1> DEFINE info == Parse(r.eco, registry, r.path)
           to == RouteOf(r.eco, r.host, r.path)
           asked == r.asked
<1>1. registry = ConfigFor(Registries[r.eco], r.host)
  BY RegistryIsFound
<1>2. info = IF r.eco = "npm" THEN ParseNpm(r.path)
             ELSE IF registry = PypiOrg THEN ParsePypiOrg(r.path) ELSE ParsePypiFiles(r.path)
  <2>1. CASE r.eco = "npm"
    BY <2>1, Zenon DEF Parse
  <2>2. CASE r.eco # "npm" /\ registry = PypiOrg
    BY <2>2, Zenon DEF Parse
  <2>3. CASE r.eco # "npm" /\ registry # PypiOrg
    BY <2>3, Zenon DEF Parse
  <2> QED
    BY <2>1, <2>2, <2>3, Zenon
<1> HIDE DEF info
<1>3. /\ ~info.ok => to.route = "pass"
      /\ info.ok => to.package = info
      /\ info.ok /\ info.download /\ info.name # <<>> /\ info.version # <<>> => to.route = "analyse"
      /\ info.ok /\ ~info.download =>
           to.route = IF CooldownDays > 0 /\ HasCooldown(r.eco, r.path) THEN "cooldown" ELSE "pass"
  BY <1>1, RouteForms DEF info
<1> HIDE DEF to
<1>4. CASE asked.kind = "download"
  <2>1. /\ info = Info(asked.scope, asked.name, asked.version, TRUE)
        /\ asked.name # <<>> /\ asked.version # <<>>
    <3>1. CASE r.eco = "npm"
      <4>1. NpmDownload(r.path, asked)
        BY <1>4, <3>1 DEF Asks
      <4> QED
        BY <1>2, <3>1, <4>1, NpmDownloadIsRead DEF NpmDownload, Phrases
    <3>2. CASE r.eco # "npm"
      <4>1. PypiDownload(registry, r.path, asked)
        BY <1>4, <3>2 DEF Asks
      <4>2. asked.scope = NoScope /\ asked.name # <<>> /\ asked.version # <<>>
        BY <4>1 DEF PypiDownload
      <4> QED
        BY <1>2, <3>2, <4>1, <4>2, PypiDownloadIsRead
    <3> QED
      BY <3>1, <3>2
  <2>2. /\ info.ok /\ info.download /\ info.scope = asked.scope /\ info.name = asked.name
        /\ info.version = asked.version
    BY <2>1 DEF Info
  <2> QED
    BY <1>3, <1>4, <2>1, <2>2 DEF NamedAs, to
<1>5. CASE asked.kind = "page"
  <2>1. info = Info(asked.scope, asked.name, <<>>, FALSE) /\ HasCooldown(r.eco, r.path)
    <3>1. CASE r.eco = "npm"
      <4>1. NpmPage(r.path, asked)
        BY <1>5, <3>1 DEF Asks
      <4> QED
        BY <1>2, <3>1, <4>1, NpmPageIsRead DEF HasCooldown
    <3>2. CASE r.eco # "npm"
      <4>1. PypiPage(registry, r.path, asked)
        BY <1>5, <3>2 DEF Asks
      <4>2. registry = PypiOrg /\ asked.scope = NoScope /\ HasCooldown(r.eco, r.path)
        BY <4>1 DEF PypiPage, HasCooldown
      <4> QED
        BY <1>2, <3>2, <4>1, <4>2, PypiPageIsRead
    <3> QED
      BY <3>1, <3>2
  <2>2. info.ok /\ ~info.download /\ info.scope = asked.scope /\ info.name = asked.name
    BY <2>1 DEF Info
  <2> QED
    BY <1>3, <1>5, <2>1, <2>2 DEF NamedAs, to
<1>6. CASE asked.kind = "other"
  <2>1. ~info.ok \/ (~info.download /\ ~HasCooldown(r.eco, r.path))
    <3>1. CASE r.eco = "npm"
      BY <1>2, <1>6, <3>1, NpmOtherIsPassed DEF Asks
    <3>2. CASE r.eco # "npm"
      <4>1. PypiOther(registry, r.path)
        BY <1>6, <3>2 DEF Asks
      <4>2. ~info.ok \/ (~info.download /\ r.path[1] # Word("simple"))
        BY <1>2, <3>2, <4>1, PypiOtherIsPassed
      <4> QED
        BY <3>2, <4>2 DEF HasCooldown
    <3> QED
      BY <3>1, <3>2
  <2>2. to.route = "pass"
    BY <1>3, <2>1
  <2> QED
    BY <1>6, <2>2 DEF NamedAs, to
<1> QED
  BY <1>4, <1>5, <1>6 DEF Asks

LEMMA RequestIsNamed ==
  ASSUME NEW r \in RegistryRequests
  PROVE  LET to == RouteOf(r.eco, r.host, r.path) IN NamedAs(r, to.route, to.package)
<1>1. /\ r.eco \in DOMAIN Registries /\ r.host \in Seq(STRING) /\ r.path \in Seq(Segments)
      /\ \/ \E registry \in Registries[r.eco] :
              /\ Serves(registry, r.eco, r.host)
              /\ IF registry \in Analysed THEN Asks(registry, r) ELSE r.asked.kind = "other"
         \/ /\ \A registry \in Registries[r.eco] : ~IsSuffix(registry, r.host)
            /\ r.asked.kind = "other"
  BY RequestsAssumption
<1> DEFINE to == RouteOf(r.eco, r.host, r.path)
<1>2. ASSUME ConfigFor(Registries[r.eco], r.host) \notin Analysed, r.asked.kind = "other"
      PROVE  NamedAs(r, to.route, to.package)
  <2>1. to.route = "pass"
    BY <1>2, RouteForms
  <2> QED
    BY <1>2, <2>1 DEF NamedAs
<1>3. CASE \E registry \in Registries[r.eco] :
             /\ Serves(registry, r.eco, r.host)
             /\ IF registry \in Analysed THEN Asks(registry, r) ELSE r.asked.kind = "other"
  <2>1. PICK registry \in Registries[r.eco] :
             /\ Serves(registry, r.eco, r.host)
             /\ IF registry \in Analysed THEN Asks(registry, r) ELSE r.asked.kind = "other"
    BY <1>3
  <2>2. CASE registry \in Analysed
    BY <1>1, <2>1, <2>2, AskedIsNamed
  <2>3. CASE registry \notin Analysed
    <3>1. ConfigFor(Registries[r.eco], r.host) = registry
      BY <1>1, <2>1, RegistryIsFound
    <3> QED
      BY <1>2, <2>1, <2>3, <3>1
  <2> QED
    BY <2>2, <2>3
<1>4. CASE /\ \A registry \in Registries[r.eco] : ~IsSuffix(registry, r.host)
           /\ r.asked.kind = "other"
  <2>1. ConfigFor(Registries[r.eco], r.host) = <<>>
    BY <1>1, <1>4, NoRegistryIsFound
  <2> QED
    BY <1>2, <1>4, <2>1, RequestsAssumption
<1> QED
  BY <1>1, <1>3, <1>4

\* The route of a request and its package are what the URL says, once they are set.
Routed ==
  /\ request \in RegistryRequests
  /\ route # "none" =>
       LET to == RouteOf(request.eco, request.host, request.path)
       IN route = to.route /\ package = to.package

LEMMA StepRouted ==
  ASSUME Routed, [RegistryNext]_registryVars
  PROVE  Routed'
<1>1. CASE RouteRequest
  BY <1>1 DEF RouteRequest, Routed
<1>2. CASE UNCHANGED <<request, route, package>>
  BY <1>2 DEF Routed
<1>3. RouteRequest \/ UNCHANGED <<request, route, package>>
  BY DEF RegistryNext, registryVars, HandleMetadataRequest, Upstream, Strip, Midnight, RecordStats
<1> QED
  BY <1>1, <1>2, <1>3

\* Whatever is published, and under whichever names: the parsers read a download as the
\* package, scope and version that the registry serves there, so that the analysis of that
\* package decides it, and they take neither a page nor another request for a download.
THEOREM PackagesAreNamed == RegistrySpec => []PackageIsNamed
<1>1. RegistryInit => Routed
  BY DEF RegistryInit, Routed
<1>2. Routed => PackageIsNamed
  <2> SUFFICES ASSUME Routed, route # "none" PROVE NamedAs(request, route, package)
    BY DEF PackageIsNamed, NamedAs
  <2> DEFINE to == RouteOf(request.eco, request.host, request.path)
  <2>1. NamedAs(request, to.route, to.package)
    BY RequestIsNamed DEF Routed
  <2> HIDE DEF to
  <2>2. route = to.route /\ package = to.package
    BY DEF Routed, to
  <2> QED
    BY <2>1, <2>2
<1> QED
  BY StepRouted, <1>1, <1>2, PTL DEF RegistrySpec

-----------------------------------------------------------------------------
(***************************************************************************)
(* A command line, whichever one its package manager can understand.  PMG reads *)
(* it a second time, and both readings are compared.  First the ranges: each *)
(* that PMG converts into bounds, the caret, the tilde, the compatible release *)
(* and the wildcard, is met by exactly the versions it means.                *)
(***************************************************************************)

\* A release is its numbers; those that are not given are zero.
Release == Seq(Nat)

LEMMA AtIsNat == ASSUME NEW v \in Release, NEW i \in Nat \ {0} PROVE At(v, i) \in Nat
<1>1. Len(v) \in Nat
  BY LenProperties DEF Release
<1>2. i <= Len(v) => v[i] \in Nat
  BY <1>1, ElementOfSeq DEF Release
<1> QED
  BY <1>1, <1>2 DEF At

\* The order of versions, number by number.
LEMMA OrderIs ==
  ASSUME NEW v, NEW w
  PROVE  /\ Before(v, w) <=>
              \/ At(v, 1) < At(w, 1)
              \/ At(v, 1) = At(w, 1) /\ At(v, 2) < At(w, 2)
              \/ At(v, 1) = At(w, 1) /\ At(v, 2) = At(w, 2) /\ At(v, 3) < At(w, 3)
              \/ /\ At(v, 1) = At(w, 1) /\ At(v, 2) = At(w, 2) /\ At(v, 3) = At(w, 3)
                 /\ At(v, 4) < At(w, 4)
         /\ Same(v, w) <=> At(v, 1) = At(w, 1) /\ At(v, 2) = At(w, 2) /\ At(v, 3) = At(w, 3)
                           /\ At(v, 4) = At(w, 4)
         /\ Agree(0, v, w)
         /\ Agree(1, v, w) <=> At(v, 1) = At(w, 1)
         /\ Agree(2, v, w) <=> At(v, 1) = At(w, 1) /\ At(v, 2) = At(w, 2)
         /\ Agree(3, v, w) <=> At(v, 1) = At(w, 1) /\ At(v, 2) = At(w, 2) /\ At(v, 3) = At(w, 3)
<1>1. 1..4 = {1, 2, 3, 4} /\ 1..3 = {1, 2, 3} /\ 1..2 = {1, 2} /\ 1..1 = {1} /\ 1..0 = {}
  OBVIOUS
<1>2. /\ Before(v, w) <=> \E i \in {1, 2, 3, 4} :
           At(v, i) < At(w, i) /\ \A j \in 1..i - 1 : At(v, j) = At(w, j)
      /\ Same(v, w) <=> \A i \in {1, 2, 3, 4} : At(v, i) = At(w, i)
  BY <1>1 DEF Before, Same
<1>3. 1 - 1 = 0 /\ 2 - 1 = 1 /\ 3 - 1 = 2 /\ 4 - 1 = 3
  OBVIOUS
<1>4. Before(v, w) <=>
              \/ At(v, 1) < At(w, 1)
              \/ At(v, 1) = At(w, 1) /\ At(v, 2) < At(w, 2)
              \/ At(v, 1) = At(w, 1) /\ At(v, 2) = At(w, 2) /\ At(v, 3) < At(w, 3)
              \/ /\ At(v, 1) = At(w, 1) /\ At(v, 2) = At(w, 2) /\ At(v, 3) = At(w, 3)
                 /\ At(v, 4) < At(w, 4)
  BY <1>1, <1>2, <1>3
<1>5. /\ Agree(0, v, w)
      /\ Agree(1, v, w) <=> \A i \in {1} : At(v, i) = At(w, i)
      /\ Agree(2, v, w) <=> \A i \in {1, 2} : At(v, i) = At(w, i)
      /\ Agree(3, v, w) <=> \A i \in {1, 2, 3} : At(v, i) = At(w, i)
  BY <1>1 DEF Agree
<1> QED
  BY <1>2, <1>4, <1>5

\* The four comparisons with a bound, by the order.
LEMMA BoundIs ==
  ASSUME NEW v, NEW w
  PROVE  /\ Meets(v, Bound(">=", w)) <=> ~Before(v, w)
         /\ Meets(v, Bound("<=", w)) <=> ~Before(w, v)
         /\ Meets(v, Bound(">", w)) <=> Before(w, v)
         /\ Meets(v, Bound("<", w)) <=> Before(v, w)
         /\ Meets(v, Bound("!=", w)) <=> ~Same(v, w)
<1>1. \A op : Bound(op, w).op = op /\ Bound(op, w).version = w
  BY DEF Bound
<1>2. /\ ">=" # "<=" /\ ">=" # ">" /\ ">=" # "<" /\ ">=" # "!=" /\ "<=" # ">=" /\ "<=" # ">"
      /\ "<=" # "<" /\ "<=" # "!=" /\ ">" # ">=" /\ ">" # "<=" /\ ">" # "<" /\ ">" # "!="
      /\ "<" # ">=" /\ "<" # "<=" /\ "<" # ">" /\ "<" # "!=" /\ "!=" # ">=" /\ "!=" # "<="
      /\ "!=" # ">" /\ "!=" # "<"
  OBVIOUS
<1>3. Meets(v, Bound(">=", w)) <=> ~Before(v, w)
  BY <1>1, <1>2, Zenon DEF Meets
<1>4. Meets(v, Bound("<=", w)) <=> ~Before(w, v)
  BY <1>1, <1>2, Zenon DEF Meets
<1>5. Meets(v, Bound(">", w)) <=> Before(w, v)
  BY <1>1, <1>2, Zenon DEF Meets
<1>6. Meets(v, Bound("<", w)) <=> Before(v, w)
  BY <1>1, <1>2, Zenon DEF Meets
<1>7. Meets(v, Bound("!=", w)) <=> ~Same(v, w)
  BY <1>1, <1>2, Zenon DEF Meets
<1> QED
  BY <1>3, <1>4, <1>5, <1>6, <1>7

\* What a range means, and what it is converted to.
Meant(op, w, v) == Allows([op |-> op, version |-> w], v)
Fit(set, v) == \A b \in set : Meets(v, b)

LEMMA BetweenIs ==
  ASSUME NEW v, NEW low, NEW high
  PROVE  Fit(Between(low, high), v) <=> ~Before(v, low) /\ Before(v, high)
<1>1. Fit(Between(low, high), v) <=> Meets(v, Bound(">=", low)) /\ Meets(v, Bound("<", high))
  BY DEF Between, Fit
<1> QED
  BY <1>1, BoundIs

\* Three numbers, and the zeros behind them.
LEMMA NumbersOf ==
  /\ \A a, b, c : /\ At(<<a, b, c>>, 1) = a /\ At(<<a, b, c>>, 2) = b /\ At(<<a, b, c>>, 3) = c
                  /\ At(<<a, b, c>>, 4) = 0
  /\ \A w \in Release : \A k \in 1..4 : k > Len(w) => At(w, k) = 0
  /\ \A w \in Release : \A k \in 1..Len(w) : At(w, k) = w[k]
<1>1. ASSUME NEW a, NEW b, NEW c
      PROVE  /\ At(<<a, b, c>>, 1) = a /\ At(<<a, b, c>>, 2) = b /\ At(<<a, b, c>>, 3) = c
             /\ At(<<a, b, c>>, 4) = 0
  BY DEF At
<1>2. ASSUME NEW w \in Release, NEW k \in 1..4, k > Len(w) PROVE At(w, k) = 0
  BY <1>2, LenProperties DEF At, Release
<1>3. ASSUME NEW w \in Release, NEW k \in 1..Len(w) PROVE At(w, k) = w[k]
  BY LenProperties DEF At, Release
<1> QED
  BY <1>1, <1>2, <1>3

\* The numbers of a version with n of them.
LEMMA DigitsOf ==
  ASSUME NEW w \in Release, NEW n \in Nat, Len(w) = n
  PROVE  /\ At(w, 1) = IF n >= 1 THEN w[1] ELSE 0
         /\ At(w, 2) = IF n >= 2 THEN w[2] ELSE 0
         /\ At(w, 3) = IF n >= 3 THEN w[3] ELSE 0
         /\ At(w, 4) = IF n >= 4 THEN w[4] ELSE 0
<1>1. \A k \in {1, 2, 3, 4} : At(w, k) = IF n >= k THEN w[k] ELSE 0
  BY DEF At
<1> QED
  BY <1>1

\* A sequence of n numbers made of those of w.
LEMMA Cut ==
  ASSUME NEW n \in Nat, NEW f, f \in [1..n -> Nat]
  PROVE  /\ f \in Release /\ Len(f) = n
         /\ \A i \in Nat \ {0} : At(f, i) = IF i <= n THEN f[i] ELSE 0
<1>1. f \in Release
  BY SeqDef DEF Release
<1>2. Len(f) = n
  BY <1>1, LenProperties DEF Release
<1> QED
  BY <1>1, <1>2 DEF At

\* From a version, and before the one that differs from it in one number: those which
\* agree with it up to that number.
LEMMA RangeIs ==
  ASSUME NEW v, NEW w
  PROVE  LET in(op) == Allows([op |-> op, version |-> w], v)
         IN /\ in("^") <=> ~Before(v, w) /\ Agree(FirstNonZero(w), v, w)
            /\ in("~") <=> ~Before(v, w) /\ Agree(IF Len(w) > 1 THEN 2 ELSE 1, v, w)
            /\ in("~=") <=> ~Before(v, w) /\ Agree(Len(w) - 1, v, w)
            /\ in("*") <=> Agree(Len(w), v, w)
<1> DEFINE range(op) == [op |-> op, version |-> w]
<1>1. \A op : range(op).op = op /\ range(op).version = w
  OBVIOUS
<1>2. /\ "^" # "~" /\ "^" # "~=" /\ "^" # "*" /\ "^" # "==" /\ "~" # "^" /\ "~" # "~=" /\ "~" # "*"
      /\ "~" # "==" /\ "~=" # "^" /\ "~=" # "~" /\ "~=" # "*" /\ "~=" # "==" /\ "*" # "^"
      /\ "*" # "~" /\ "*" # "~=" /\ "*" # "=="
  OBVIOUS
<1> HIDE DEF range
<1>3. Allows(range("^"), v) <=> ~Before(v, w) /\ Agree(FirstNonZero(w), v, w)
  BY <1>1, <1>2, Zenon DEF Allows
<1>4. Allows(range("~"), v) <=> ~Before(v, w) /\ Agree(IF Len(w) > 1 THEN 2 ELSE 1, v, w)
  BY <1>1, <1>2, Zenon DEF Allows
<1>5. Allows(range("~="), v) <=> ~Before(v, w) /\ Agree(Len(w) - 1, v, w)
  BY <1>1, <1>2, Zenon DEF Allows
<1>6. Allows(range("*"), v) <=> Agree(Len(w), v, w)
  BY <1>1, <1>2, Zenon DEF Allows
<1> QED
  BY <1>3, <1>4, <1>5, <1>6 DEF range

\* pypiConvertTildeConstraint.
LEMMA TildeIsMeant ==
  ASSUME NEW v \in Release, NEW w \in Release, NEW n \in Nat \ {0}, Len(w) = n
  PROVE  Fit(Tilde(w), v) <=> Meant("~", w, v)
<1>d. /\ At(w, 1) = IF n >= 1 THEN w[1] ELSE 0
      /\ At(w, 2) = IF n >= 2 THEN w[2] ELSE 0
      /\ At(w, 3) = IF n >= 3 THEN w[3] ELSE 0
      /\ At(w, 4) = IF n >= 4 THEN w[4] ELSE 0
  <2>1. n \in Nat
    OBVIOUS
  <2> QED
    BY <2>1, DigitsOf
<1>0. \A i \in {1, 2, 3, 4} : At(v, i) \in Nat /\ At(w, i) \in Nat
  BY AtIsNat
<1>1. CASE n = 1
  <2> DEFINE high == <<w[1] + 1, 0, 0>>
  <2>1. At(w, 1) = w[1] /\ At(w, 2) = 0 /\ At(w, 3) = 0 /\ At(w, 4) = 0
    BY <1>1, <1>d
  <2>2. At(high, 1) = w[1] + 1 /\ At(high, 2) = 0 /\ At(high, 3) = 0 /\ At(high, 4) = 0
    BY NumbersOf
  <2>3. Tilde(w) = Between(w, high)
    BY <1>1 DEF Tilde
  <2>4. Fit(Tilde(w), v) <=> ~Before(v, w) /\ Before(v, high)
    BY <2>3, BetweenIs
  <2>5. (IF n > 1 THEN 2 ELSE 1) = 1
    BY <1>1
  <2>6. Meant("~", w, v) <=> ~Before(v, w) /\ Agree(1, v, w)
    BY <2>5, RangeIs DEF Meant
  <2> HIDE DEF high
  <2> QED
    BY <1>0, <2>1, <2>2, <2>4, <2>6, OrderIs
<1>2. CASE n > 1
  <2> DEFINE high == <<w[1], w[2] + 1, 0>>
  <2>1. At(w, 1) = w[1] /\ At(w, 2) = w[2]
    BY <1>2, <1>d
  <2>2. At(high, 1) = w[1] /\ At(high, 2) = w[2] + 1 /\ At(high, 3) = 0 /\ At(high, 4) = 0
    BY NumbersOf
  <2>3. Tilde(w) = Between(w, high)
    BY <1>2 DEF Tilde
  <2>4. Fit(Tilde(w), v) <=> ~Before(v, w) /\ Before(v, high)
    BY <2>3, BetweenIs
  <2>5. (IF n > 1 THEN 2 ELSE 1) = 2
    BY <1>2
  <2>6. Meant("~", w, v) <=> ~Before(v, w) /\ Agree(2, v, w)
    BY <2>5, RangeIs DEF Meant
  <2> HIDE DEF high
  <2> QED
    BY <1>0, <2>1, <2>2, <2>4, <2>6, OrderIs
<1> QED
  BY <1>1, <1>2

\* pypiConvertWildcardConstraint; with three numbers it converts to nothing.
LEMMA WildcardIsMeant ==
  ASSUME NEW v \in Release, NEW w \in Release, NEW n \in 0..2, Len(w) = n
  PROVE  Fit(Wildcard(w), v) <=> Meant("*", w, v)
<1>d. /\ At(w, 1) = IF n >= 1 THEN w[1] ELSE 0
      /\ At(w, 2) = IF n >= 2 THEN w[2] ELSE 0
      /\ At(w, 3) = IF n >= 3 THEN w[3] ELSE 0
      /\ At(w, 4) = IF n >= 4 THEN w[4] ELSE 0
  <2>1. n \in Nat
    OBVIOUS
  <2> QED
    BY <2>1, DigitsOf
<1>0. \A i \in {1, 2, 3, 4} : At(v, i) \in Nat /\ At(w, i) \in Nat
  BY AtIsNat
<1>1. Meant("*", w, v) <=> Agree(n, v, w)
  BY RangeIs DEF Meant
<1>2. 0 # 1 /\ 0 # 2 /\ 1 # 0 /\ 1 # 2 /\ 2 # 0 /\ 2 # 1
  OBVIOUS
<1>3. CASE n = 0
  <2> DEFINE low == <<0, 0, 0>>
  <2>1. Wildcard(w) = {Bound(">=", low)}
    BY <1>2, <1>3, Zenon DEF Wildcard
  <2>2. At(low, 1) = 0 /\ At(low, 2) = 0 /\ At(low, 3) = 0 /\ At(low, 4) = 0
    BY NumbersOf
  <2>3. Fit(Wildcard(w), v) <=> ~Before(v, low)
    BY <2>1, BoundIs DEF Fit
  <2>4. ~Before(v, low)
    <3> HIDE DEF low
    <3> QED
      BY <1>0, <2>2, OrderIs
  <2> QED
    BY <1>1, <1>3, <2>3, <2>4, OrderIs
<1>4. CASE n = 1
  <2> DEFINE high == <<w[1] + 1, 0, 0>>
  <2>1. At(w, 1) = w[1] /\ At(w, 2) = 0 /\ At(w, 3) = 0 /\ At(w, 4) = 0
    BY <1>4, <1>d
  <2>2. At(high, 1) = w[1] + 1 /\ At(high, 2) = 0 /\ At(high, 3) = 0 /\ At(high, 4) = 0
    BY NumbersOf
  <2>3. Wildcard(w) = Between(w, high)
    BY <1>2, <1>4, Zenon DEF Wildcard
  <2>4. Fit(Wildcard(w), v) <=> ~Before(v, w) /\ Before(v, high)
    BY <2>3, BetweenIs
  <2> HIDE DEF high
  <2> QED
    BY <1>0, <1>1, <1>4, <2>1, <2>2, <2>4, OrderIs
<1>5. CASE n = 2
  <2> DEFINE high == <<w[1], w[2] + 1, 0>>
  <2>1. At(w, 1) = w[1] /\ At(w, 2) = w[2] /\ At(w, 3) = 0 /\ At(w, 4) = 0
    BY <1>5, <1>d
  <2>2. At(high, 1) = w[1] /\ At(high, 2) = w[2] + 1 /\ At(high, 3) = 0 /\ At(high, 4) = 0
    BY NumbersOf
  <2>3. Wildcard(w) = Between(w, high)
    BY <1>2, <1>5, Zenon DEF Wildcard
  <2>4. Fit(Wildcard(w), v) <=> ~Before(v, w) /\ Before(v, high)
    BY <2>3, BetweenIs
  <2> HIDE DEF high
  <2> QED
    BY <1>0, <1>1, <1>5, <2>1, <2>2, <2>4, OrderIs
<1> QED
  BY <1>3, <1>4, <1>5

\* pypiConvertCompatibleRelease, of two to four numbers.
LEMMA CompatibleIsMeant ==
  ASSUME NEW v \in Release, NEW w \in Release, NEW n \in 2..4, Len(w) = n
  PROVE  Fit(CompatibleRelease(w), v) <=> Meant("~=", w, v)
<1> DEFINE k == n - 1
           high == [i \in 1..k |-> IF i = k THEN w[k] + 1 ELSE w[i]]
<1>0. \A i \in {1, 2, 3, 4} : At(v, i) \in Nat /\ At(w, i) \in Nat
  BY AtIsNat
<1>1. \A i \in 1..n : At(w, i) = w[i] /\ w[i] \in Nat
  BY <1>0, NumbersOf, ElementOfSeq DEF Release
<1>2. high \in [1..k -> Nat]
  BY <1>1
<1>3. /\ \A i \in {1, 2, 3, 4} :
           At(high, i) = IF i < k THEN w[i] ELSE IF i = k THEN w[k] + 1 ELSE 0
  <2> HIDE DEF high
  <2>1. \A i \in Nat \ {0} : At(high, i) = IF i <= k THEN high[i] ELSE 0
    BY <1>2, Cut
  <2>2. \A i \in 1..k : high[i] = IF i = k THEN w[k] + 1 ELSE w[i]
    BY DEF high
  <2> QED
    BY <2>1, <2>2
<1>4. CompatibleRelease(w) = Between(w, high)
  BY DEF CompatibleRelease
<1>5. Fit(CompatibleRelease(w), v) <=> ~Before(v, w) /\ Before(v, high)
  BY <1>4, BetweenIs
<1>6. Meant("~=", w, v) <=> ~Before(v, w) /\ Agree(k, v, w)
  BY RangeIs DEF Meant
<1> HIDE DEF high
<1>7. CASE n = 2
  <2>1. k = 1 /\ At(high, 1) = At(w, 1) + 1 /\ At(high, 2) = 0 /\ At(high, 3) = 0 /\ At(high, 4) = 0
    BY <1>1, <1>3, <1>7
  <2> HIDE DEF k
  <2> QED
    BY <1>0, <1>5, <1>6, <2>1, OrderIs
<1>8. CASE n = 3
  <2>1. /\ k = 2 /\ At(high, 1) = At(w, 1) /\ At(high, 2) = At(w, 2) + 1 /\ At(high, 3) = 0
        /\ At(high, 4) = 0
    BY <1>1, <1>3, <1>8
  <2> HIDE DEF k
  <2> QED
    BY <1>0, <1>5, <1>6, <2>1, OrderIs
<1>9. CASE n = 4
  <2>1. /\ k = 3 /\ At(high, 1) = At(w, 1) /\ At(high, 2) = At(w, 2)
        /\ At(high, 3) = At(w, 3) + 1 /\ At(high, 4) = 0
    BY <1>1, <1>3, <1>9
  <2> HIDE DEF k
  <2> QED
    BY <1>0, <1>5, <1>6, <2>1, OrderIs
<1> QED
  BY <1>7, <1>8, <1>9

\* The number a caret keeps.
LEMMA FirstIs ==
  ASSUME NEW w \in Release, NEW k \in 1..Len(w), w[k] # 0, \A j \in 1..k - 1 : w[j] = 0
  PROVE  FirstNonZero(w) = k
<1> DEFINE place == {i \in DOMAIN w : w[i] # 0}
           c  == CHOOSE i \in place : \A j \in place : i <= j
<1>1. DOMAIN w = 1..Len(w) /\ Len(w) \in Nat
  BY LenProperties DEF Release
<1>2. k \in place /\ \A j \in place : k <= j
  BY <1>1
<1>3. c \in place /\ \A j \in place : c <= j
  BY <1>2, Zenon
<1>4. c \in Nat /\ k \in Nat
  BY <1>1, <1>3
<1>5. c = k
  <2> HIDE DEF c, place
  <2> QED
    BY <1>2, <1>3, <1>4
<1> QED
  BY <1>2, <1>5, Zenon DEF FirstNonZero

LEMMA NoneIs ==
  ASSUME NEW w \in Release, \A j \in 1..Len(w) : w[j] = 0
  PROVE  FirstNonZero(w) = Len(w)
<1>1. DOMAIN w = 1..Len(w)
  BY LenProperties DEF Release
<1>2. {i \in DOMAIN w : w[i] # 0} = {}
  BY <1>1
<1> QED
  BY <1>2, Zenon DEF FirstNonZero

\* The numbers a caret's version is padded to.
LEMMA PadIs ==
  ASSUME NEW w \in Release
  PROVE  LET p == PadTo3(w)  f == SubSeq(p, 1, 3)
         IN /\ p[1] = At(w, 1) /\ p[2] = At(w, 2) /\ p[3] = At(w, 3)
            /\ \A i \in {1, 2, 3, 4} : At(p, i) = At(w, i)
            /\ \A i \in {1, 2, 3} : At(f, i) = At(w, i)
            /\ At(f, 4) = 0
<1> DEFINE p == PadTo3(w)
           f == SubSeq(p, 1, 3)
           n == Len(w)
           m == IF n < 3 THEN 3 ELSE n
<1>1. n \in Nat
  BY LenProperties DEF Release
<1>2. m \in Nat /\ m >= 3 /\ m >= n
  BY <1>1
<1>3. p = [i \in 1..m |-> At(w, i)]
  BY DEF PadTo3
<1> HIDE DEF m, n, p
<1>4. \A i \in 1..m : At(w, i) \in Nat
  BY <1>2, AtIsNat
<1>5. p \in [1..m -> Nat]
  BY <1>3, <1>4
<1>6. p \in Release /\ Len(p) = m /\ \A i \in Nat \ {0} : At(p, i) = IF i <= m THEN p[i] ELSE 0
  BY <1>2, <1>5, Cut
<1>7. \A i \in 1..m : p[i] = At(w, i)
  BY <1>3
<1>8. \A i \in Nat \ {0} : i > m => At(w, i) = 0
  BY <1>1, <1>2 DEF At, n
<1>9. \A i \in Nat \ {0} : At(p, i) = At(w, i)
  BY <1>2, <1>6, <1>7, <1>8
<1>10. f \in Seq(Nat) /\ Len(f) = 3 /\ \A i \in 1..3 : f[i] = p[i]
  <2>1. p \in Seq(Nat) /\ 1 \in 1..(m + 1) /\ 3 \in 0..m
    BY <1>2, <1>6 DEF Release
  <2>2. Len(f) = 3
    BY <1>6, <2>1, SubSeqProperties
  <2>3. \A i \in 1..3 : f[i] = p[i]
    BY <1>6, <2>1, SubSeqProperties
  <2>4. f \in Seq(Nat)
    BY <1>6, <2>1, SubSeqProperties
  <2> QED
    BY <2>2, <2>3, <2>4
<1> HIDE DEF f
<1>11. \A i \in {1, 2, 3} : At(f, i) = p[i]
  BY <1>10 DEF At
<1>12. At(f, 4) = 0
  BY <1>10 DEF At
<1> QED
  BY <1>2, <1>7, <1>9, <1>11, <1>12 DEF p, f

\* pypiConvertCaretConstraint; "^0" and "^0.0" it takes for "^0.0.0".
LEMMA CaretIsMeant ==
  ASSUME NEW v \in Release, NEW w \in Release, NEW n \in Nat \ {0}, Len(w) = n,
         w[1] = 0 => n = 3 \/ (n = 2 /\ w[2] # 0)
  PROVE  Fit(Caret(w), v) <=> Meant("^", w, v)
<1> DEFINE p == PadTo3(w)
           f == SubSeq(p, 1, 3)
<1>0. \A i \in {1, 2, 3, 4} : At(v, i) \in Nat /\ At(w, i) \in Nat
  BY AtIsNat
<1>d. /\ At(w, 1) = IF n >= 1 THEN w[1] ELSE 0
      /\ At(w, 2) = IF n >= 2 THEN w[2] ELSE 0
      /\ At(w, 3) = IF n >= 3 THEN w[3] ELSE 0
      /\ At(w, 4) = IF n >= 4 THEN w[4] ELSE 0
  <2>1. n \in Nat
    OBVIOUS
  <2> QED
    BY <2>1, DigitsOf
<1>1. /\ p[1] = At(w, 1) /\ p[2] = At(w, 2) /\ p[3] = At(w, 3)
      /\ \A i \in {1, 2, 3, 4} : At(p, i) = At(w, i)
      /\ \A i \in {1, 2, 3} : At(f, i) = At(w, i)
      /\ At(f, 4) = 0
  BY PadIs
<1>2. Caret(w) = IF p[1] # 0 THEN Between(p, <<p[1] + 1, 0, 0>>)
                 ELSE IF p[2] # 0 THEN Between(f, <<0, p[2] + 1, 0>>)
                 ELSE Between(f, <<0, 0, p[3] + 1>>)
  BY DEF Caret
<1>3. Meant("^", w, v) <=> ~Before(v, w) /\ Agree(FirstNonZero(w), v, w)
  BY RangeIs DEF Meant
<1> HIDE DEF p, f
<1>4. CASE w[1] # 0
  <2> DEFINE high == <<p[1] + 1, 0, 0>>
  <2>1. FirstNonZero(w) = 1
    <3>1. 1 \in 1..Len(w) /\ \A j \in 1..1 - 1 : w[j] = 0
      OBVIOUS
    <3> QED
      BY <1>4, <3>1, FirstIs
  <2>2. Caret(w) = Between(p, high)
    BY <1>1, <1>2, <1>4, <1>d
  <2>3. Fit(Caret(w), v) <=> ~Before(v, p) /\ Before(v, high)
    BY <2>2, BetweenIs
  <2>4. At(high, 1) = At(w, 1) + 1 /\ At(high, 2) = 0 /\ At(high, 3) = 0 /\ At(high, 4) = 0
    BY <1>1, NumbersOf
  <2> HIDE DEF high
  <2> QED
    BY <1>0, <1>1, <1>3, <2>1, <2>3, <2>4, OrderIs
<1>5. CASE w[1] = 0 /\ n >= 2 /\ w[2] # 0
  <2> DEFINE high == <<0, p[2] + 1, 0>>
  <2>1. FirstNonZero(w) = 2
    <3>1. 2 \in 1..Len(w) /\ \A j \in 1..2 - 1 : w[j] = 0
      BY <1>5
    <3> QED
      BY <1>5, <3>1, FirstIs
  <2>2. Caret(w) = Between(f, high)
    BY <1>1, <1>2, <1>5, <1>d
  <2>3. Fit(Caret(w), v) <=> ~Before(v, f) /\ Before(v, high)
    BY <2>2, BetweenIs
  <2>4. At(high, 1) = 0 /\ At(high, 2) = At(w, 2) + 1 /\ At(high, 3) = 0 /\ At(high, 4) = 0
    BY <1>1, NumbersOf
  <2>5. At(w, 1) = 0 /\ At(w, 4) = 0
    BY <1>5, <1>d
  <2> HIDE DEF high
  <2> QED
    BY <1>0, <1>1, <1>3, <2>1, <2>3, <2>4, <2>5, OrderIs
<1>6. CASE w[1] = 0 /\ n = 3 /\ w[2] = 0
  <2> DEFINE high == <<0, 0, p[3] + 1>>
  <2>1. FirstNonZero(w) = 3
    <3>1. CASE w[3] # 0
      <4>1. 3 \in 1..Len(w) /\ \A j \in 1..3 - 1 : w[j] = 0
        BY <1>6
      <4> QED
        BY <3>1, <4>1, FirstIs
    <3>2. CASE w[3] = 0
      <4>1. \A j \in 1..Len(w) : w[j] = 0
        BY <1>6, <3>2
      <4> QED
        BY <1>6, <4>1, NoneIs
    <3> QED
      BY <3>1, <3>2
  <2>2. Caret(w) = Between(f, high)
    BY <1>1, <1>2, <1>6, <1>d
  <2>3. Fit(Caret(w), v) <=> ~Before(v, f) /\ Before(v, high)
    BY <2>2, BetweenIs
  <2>4. At(high, 1) = 0 /\ At(high, 2) = 0 /\ At(high, 3) = At(w, 3) + 1 /\ At(high, 4) = 0
    BY <1>1, NumbersOf
  <2>5. At(w, 1) = 0 /\ At(w, 2) = 0 /\ At(w, 4) = 0
    BY <1>6, <1>d
  <2> HIDE DEF high
  <2> QED
    BY <1>0, <1>1, <1>3, <2>1, <2>3, <2>4, <2>5, OrderIs
<1> QED
  BY <1>4, <1>5, <1>6

-----------------------------------------------------------------------------
(* What pflag does with the arguments, one by one                            *)

\* What holds at first, and after every step up to n, holds up to n: as a set.
LEMMA UpTo ==
  ASSUME NEW n \in Nat, NEW Good, 0 \in Good, \A i \in 1..n : i - 1 \in Good => i \in Good
  PROVE  \A i \in 0..n : i \in Good
<1> DEFINE T == {i \in 0..n : i \notin Good}
<1> SUFFICES ASSUME T # {} PROVE FALSE
  OBVIOUS
<1>0. T \subseteq Nat
  OBVIOUS
<1>1. PICK i \in T : \A j \in T : i <= j
  BY <1>0, LeastNumber
<1>2. i \in 1..n /\ i - 1 \in 0..n
  BY <1>1
<1>3. i - 1 \in Good
  BY <1>1, <1>2
<1> QED
  BY <1>1, <1>2, <1>3

\* n steps from a base.
Steps(f, n, S, base, step) ==
  f \in [0..n -> S] /\ f[0] = base /\ \A i \in 1..n : f[i] = step[i][f[i - 1]]

\* Such steps exist: the recursion of a model function is one of them.
LEMMA StepsExist ==
  ASSUME NEW n \in Nat, NEW S, NEW base \in S, NEW step \in [1..n -> [S -> S]]
  PROVE  \E f : Steps(f, n, S, base, step)
<1> DEFINE Good == {m \in 0..n : \E f : Steps(f, m, S, base, step)}
<1>1. 0 \in Good
  <2> DEFINE f == [i \in 0..0 |-> base]
  <2>1. f \in [0..0 -> S] /\ f[0] = base /\ 1..0 = {}
    OBVIOUS
  <2> HIDE DEF f
  <2>2. Steps(f, 0, S, base, step)
    BY <2>1 DEF Steps
  <2> QED
    BY <2>2
<1>2. ASSUME NEW m \in 1..n, m - 1 \in Good PROVE m \in Good
  <2>0. PICK g : Steps(g, m - 1, S, base, step)
    BY <1>2
  <2>1. /\ g \in [0..m - 1 -> S] /\ g[0] = base
        /\ \A i \in 1..m - 1 : g[i] = step[i][g[i - 1]]
    BY <2>0 DEF Steps
  <2> DEFINE new == step[m][g[m - 1]]
             f   == [i \in 0..m |-> IF i < m THEN g[i] ELSE new]
  <2>2. new \in S
    BY <2>1
  <2>3. /\ f \in [0..m -> S] /\ f[m] = new /\ \A i \in 0..m - 1 : f[i] = g[i]
    BY <2>1, <2>2
  <2> HIDE DEF f
  <2>4. \A i \in 1..m : f[i] = step[i][f[i - 1]]
    <3>1. \A i \in 1..m - 1 : f[i] = step[i][f[i - 1]]
      BY <2>1, <2>3
    <3>2. f[m] = step[m][f[m - 1]]
      BY <2>3
    <3> QED
      BY <3>1, <3>2
  <2>5. f[0] = base
    BY <2>1, <2>3
  <2>6. Steps(f, m, S, base, step)
    BY <2>3, <2>4, <2>5 DEF Steps
  <2> QED
    BY <2>6
<1> HIDE DEF Good
<1>3. \A m \in 0..n : m \in Good
  BY <1>1, <1>2, UpTo
<1>4. n \in Good
  BY <1>3
<1> QED
  BY <1>4 DEF Good

-----------------------------------------------------------------------------
(* Flags                                                                    *)

ScanStates == [wants : BOOLEAN, skip : BOOLEAN, plain : BOOLEAN, failed : BOOLEAN,
               words : Seq(Texts), values : Seq(Texts)]

\* The states of a parse.
Scanned(f, args, valued, switches) ==
  /\ f \in [0..Len(args) -> ScanStates] /\ f[0] = Fresh
  /\ \A i \in 1..Len(args) : f[i] = Scan(f[i - 1], args[i], valued, switches)
  /\ ParseFlags(args, valued, switches)
       = [f[Len(args)] EXCEPT !.failed = f[Len(args)].failed \/ f[Len(args)].wants]

LEMMA TextIsText ==
  ASSUME NEW arg \in Arguments
  PROVE  /\ TextOf(arg) \in Texts /\ (arg.text # <<>> => arg.text \in Texts)
         /\ arg.text \in Seq(STRING)
         /\ arg.flag = NoFlag => TextOf(arg) = arg.text
<1>1. (arg.flag # NoFlag => arg.flag \in STRING) /\ arg.text \in Seq(STRING)
  <2>1. CASE arg \in [flag : STRING \ {NoFlag}, text : Seq(STRING)]
    BY <2>1
  <2>2. CASE arg \in [flag : {NoFlag}, text : Texts]
    <3>1. arg.flag = NoFlag /\ arg.text \in Texts
      BY <2>2
    <3> QED
      BY <3>1 DEF Texts
  <2> QED
    BY <2>1, <2>2 DEF Arguments
<1>2. arg.flag = NoFlag => arg.text \in Texts
  BY DEF Arguments
<1>3. arg.flag # NoFlag => <<arg.flag>> \in Seq(STRING) /\ Len(<<arg.flag>>) = 1
  BY <1>1
<1>4. arg.flag # NoFlag => <<arg.flag>> \in Texts
  BY <1>3 DEF Texts
<1>5. TextOf(arg) = IF arg.flag = NoFlag THEN arg.text ELSE <<arg.flag>>
  BY DEF TextOf
<1>6. arg.text # <<>> => arg.text \in Texts
  BY <1>1 DEF Texts
<1> QED
  BY <1>1, <1>2, <1>4, <1>5, <1>6

LEMMA FreshIsState == Fresh \in ScanStates
  BY DEF Fresh, ScanStates

LEMMA ScanIsState ==
  ASSUME NEW s \in ScanStates, NEW arg \in Arguments, NEW valued, NEW switches
  PROVE  Scan(s, arg, valued, switches) \in ScanStates
<1>1. /\ s = [wants |-> s.wants, skip |-> s.skip, plain |-> s.plain, failed |-> s.failed,
              words |-> s.words, values |-> s.values]
      /\ s.words \in Seq(Texts) /\ s.values \in Seq(Texts)
  BY DEF ScanStates
<1>2. \A t \in Texts : Append(s.words, t) \in Seq(Texts) /\ Append(s.values, t) \in Seq(Texts)
  BY <1>1
<1>3. [s EXCEPT !.skip = FALSE] \in ScanStates
  BY DEF ScanStates
<1>4. ASSUME NEW r \in ScanStates, r.values = s.values
      PROVE  ScanFlag(r, arg, valued, switches) \in ScanStates
  <2>1. Append(r.values, arg.text) \in Seq(Texts) \/ arg.text = <<>>
    BY <1>2, <1>4, TextIsText
  <2> QED
    BY <2>1 DEF ScanFlag, ScanStates
<1>5. ScanFlag([s EXCEPT !.skip = FALSE], arg, valued, switches) \in ScanStates
  <2>1. [s EXCEPT !.skip = FALSE].values = s.values
    BY <1>1
  <2> QED
    BY <1>3, <1>4, <2>1
<1>6. /\ [s EXCEPT !.words = Append(@, TextOf(arg))] \in ScanStates
      /\ [s EXCEPT !.wants = FALSE, !.values = Append(@, TextOf(arg))] \in ScanStates
      /\ arg.flag = NoFlag => [s EXCEPT !.words = Append(@, arg.text)] \in ScanStates
  BY <1>2, TextIsText DEF ScanStates
<1> QED
  BY <1>3, <1>5, <1>6 DEF Scan

\* ParseFlags is a scan from one argument to the next.
LEMMA ScannedExists ==
  ASSUME NEW args \in Seq(Arguments), NEW valued, NEW switches
  PROVE  \E f : Scanned(f, args, valued, switches)
<1> DEFINE n == Len(args)
           Sc(s, i) == Scan(s, args[i], valued, switches)
           step == [i \in 1..n |-> [s \in ScanStates |-> Sc(s, i)]]
           P(f) == f = [i \in 0..n |-> IF i = 0 THEN Fresh ELSE Sc(f[i - 1], i)]
<1>1. n \in Nat /\ \A i \in 1..n : args[i] \in Arguments
  OBVIOUS
<1>2. \A s \in ScanStates, i \in 1..n : Sc(s, i) \in ScanStates
  BY <1>1, ScanIsState
<1> HIDE DEF Sc
<1>3. \A i \in 1..n, s \in ScanStates : step[i][s] = Sc(s, i) /\ step[i][s] \in ScanStates
  BY <1>2
<1>3s. step \in [1..n -> [ScanStates -> ScanStates]]
  BY <1>2
<1> HIDE DEF step, n
<1>e. PICK g : Steps(g, n, ScanStates, Fresh, step)
  <2>1. n \in Nat
    BY <1>1
  <2> QED
    BY <1>3s, <2>1, FreshIsState, StepsExist
<1>4. /\ g \in [0..n -> ScanStates] /\ g[0] = Fresh
      /\ \A i \in 1..n : g[i] = step[i][g[i - 1]]
  BY <1>e DEF Steps
<1>5. \A i \in 1..n : g[i] = Sc(g[i - 1], i)
  BY <1>1, <1>3, <1>4
<1>6. P(g)
  <2> DEFINE K(i) == IF i = 0 THEN Fresh ELSE Sc(g[i - 1], i)
  <2>1. \A i \in 0..n : g[i] = K(i)
    BY <1>4, <1>5
  <2>2. g = [i \in 0..n |-> g[i]]
    BY <1>4
  <2> HIDE DEF K
  <2>3. g = [i \in 0..n |-> K(i)]
    BY <2>1, <2>2
  <2> QED
    BY <2>3 DEF K
<1> DEFINE f == CHOOSE f : P(f)
<1> USE DEF n
<1>7. P(f)
  BY <1>6, Zenon
<1>8. ParseFlags(args, valued, switches)
        = [f[n] EXCEPT !.failed = f[n].failed \/ f[n].wants]
  BY Zenon DEF ParseFlags, Sc
<1> HIDE DEF f
<1>9. /\ f[0] = Fresh /\ \A i \in 1..n : f[i] = Sc(f[i - 1], i)
      /\ DOMAIN f = 0..n
  <2> DEFINE K(i) == IF i = 0 THEN Fresh ELSE Sc(f[i - 1], i)
  <2> HIDE DEF K
  <2>1. f = [i \in 0..n |-> K(i)]
    BY <1>7 DEF K
  <2>2. DOMAIN f = 0..n /\ \A i \in 0..n : f[i] = K(i)
    BY <2>1
  <2>3. K(0) = Fresh /\ \A i \in 1..n : K(i) = Sc(f[i - 1], i)
    BY DEF K
  <2> QED
    BY <1>1, <2>2, <2>3
<1>10. \A i \in 0..n : f[i] \in ScanStates
  <2> DEFINE Good == {i \in 0..n : f[i] \in ScanStates}
  <2>1. 0 \in Good
    BY <1>1, <1>9, FreshIsState
  <2>2. \A i \in 1..n : i - 1 \in Good => i \in Good
    BY <1>1, <1>2, <1>9
  <2> HIDE DEF Good
  <2>3. \A i \in 0..n : i \in Good
    BY <1>1, <2>1, <2>2, UpTo
  <2> QED
    BY <2>3 DEF Good
<1>11. f \in [0..n -> ScanStates]
  <2>1. f = [i \in DOMAIN f |-> f[i]]
    BY <1>7
  <2> QED
    BY <1>9, <1>10, <2>1
<1> QED
  BY <1>8, <1>9, <1>11 DEF Scanned, Sc

WordsTo(args, parts, i) == {TextOf(args[j]) : j \in {k \in 1..i : parts[k] = "word"}}
ValuesTo(args, parts, i) == {TextOf(args[j]) : j \in {k \in 1..i : parts[k] = "value"}}
                            \cup {args[j].text : j \in {k \in 1..i : parts[k] = "holds"}}

\* After i arguments.
ScanHolds(s, args, parts, i) ==
  /\ s.failed <=> \E j \in 1..i : parts[j] = "help"
  /\ ~s.failed =>
       /\ s.plain <=> \E j \in 1..i : parts[j] = "end"
       /\ s.wants <=> i > 0 /\ parts[i] = "takes"
       /\ s.skip => i > 0 /\ ~s.plain /\ ~s.wants /\ (i = Len(args) \/ args[i + 1].flag # NoFlag)
       /\ ToSet(s.words) = WordsTo(args, parts, i)
       /\ ToSet(s.values) = ValuesTo(args, parts, i)
       /\ s.words # <<>> => \E j \in 1..i :
            /\ parts[j] = "word" /\ s.words[1] = TextOf(args[j])
            /\ \A k \in 1..j - 1 : parts[k] # "word"

LEMMA ToSetAppend ==
  ASSUME NEW X, NEW t \in Seq(X), NEW e \in X
  PROVE  ToSet(Append(t, e)) = ToSet(t) \cup {e}
<1>1. /\ Append(t, e) \in Seq(X) /\ Len(Append(t, e)) = Len(t) + 1 /\ Len(t) \in Nat
      /\ DOMAIN t = 1..Len(t) /\ DOMAIN Append(t, e) = 1..(Len(t) + 1)
      /\ \A i \in 1..Len(t) : Append(t, e)[i] = t[i]
      /\ Append(t, e)[Len(t) + 1] = e
  OBVIOUS
<1>2. \A i \in 1..(Len(t) + 1) : i \in 1..Len(t) \/ i = Len(t) + 1
  BY <1>1
<1>3. ToSet(t) \subseteq ToSet(Append(t, e)) /\ e \in ToSet(Append(t, e))
  BY <1>1 DEF ToSet
<1>4. ToSet(Append(t, e)) \subseteq ToSet(t) \cup {e}
  BY <1>1, <1>2 DEF ToSet
<1> QED
  BY <1>3, <1>4

\* The words and values up to an argument are those before it and its own.
LEMMA PartSets ==
  ASSUME NEW args, NEW parts, NEW i \in Nat \ {0}
  PROVE  /\ parts[i] = "word" =>
              WordsTo(args, parts, i) = WordsTo(args, parts, i - 1) \cup {TextOf(args[i])}
         /\ parts[i] # "word" => WordsTo(args, parts, i) = WordsTo(args, parts, i - 1)
         /\ parts[i] = "value" =>
              ValuesTo(args, parts, i) = ValuesTo(args, parts, i - 1) \cup {TextOf(args[i])}
         /\ parts[i] = "holds" =>
              ValuesTo(args, parts, i) = ValuesTo(args, parts, i - 1) \cup {args[i].text}
         /\ parts[i] # "value" /\ parts[i] # "holds" =>
              ValuesTo(args, parts, i) = ValuesTo(args, parts, i - 1)
<1>1. 1..i = (1..i - 1) \cup {i}
  OBVIOUS
<1>2. parts[i] = "word" =>
        WordsTo(args, parts, i) = WordsTo(args, parts, i - 1) \cup {TextOf(args[i])}
  BY <1>1 DEF WordsTo
<1>3. parts[i] # "word" => WordsTo(args, parts, i) = WordsTo(args, parts, i - 1)
  BY <1>1 DEF WordsTo
<1>4. parts[i] = "value" =>
        ValuesTo(args, parts, i) = ValuesTo(args, parts, i - 1) \cup {TextOf(args[i])}
  BY <1>1 DEF ValuesTo
<1>5. parts[i] = "holds" =>
        ValuesTo(args, parts, i) = ValuesTo(args, parts, i - 1) \cup {args[i].text}
  BY <1>1 DEF ValuesTo
<1>6. parts[i] # "value" /\ parts[i] # "holds" =>
        ValuesTo(args, parts, i) = ValuesTo(args, parts, i - 1)
  BY <1>1 DEF ValuesTo
<1> QED
  BY <1>2, <1>3, <1>4, <1>5, <1>6

\* Flags with values are none of these.
Plainly(valued) == \A f \in valued : f \notin Helps /\ f # "--" /\ f # NoFlag

\* An argument that is what its part says is taken for it.
LEMMA ScanStep ==
  ASSUME NEW args \in Seq(Arguments), NEW parts, NEW valued, NEW switches,
         TakenFor(args, parts, valued, switches), Plainly(valued),
         NEW i \in 1..Len(args), NEW s \in ScanStates, ScanHolds(s, args, parts, i - 1)
  PROVE  ScanHolds(Scan(s, args[i], valued, switches), args, parts, i)
<1> DEFINE arg == args[i]
           r == Scan(s, arg, valued, switches)
           before == {parts[j] : j \in 1..i - 1}
<1> SUFFICES ScanHolds(r, args, parts, i)
  OBVIOUS
<1>0. arg \in Arguments /\ i \in Nat \ {0} /\ DOMAIN args = 1..Len(args) /\ Len(args) \in Nat
  OBVIOUS
<1>1. 1..i = (1..i - 1) \cup {i}
  BY <1>0
<1>2. /\ s.failed <=> "help" \in before
      /\ ~s.failed =>
           /\ s.plain <=> "end" \in before
           /\ s.wants <=> i - 1 > 0 /\ parts[i - 1] = "takes"
           /\ s.skip => i - 1 > 0 /\ ~s.plain /\ ~s.wants /\ (i - 1 = Len(args) \/ arg.flag # NoFlag)
           /\ ToSet(s.words) = WordsTo(args, parts, i - 1)
           /\ ToSet(s.values) = ValuesTo(args, parts, i - 1)
           /\ s.words # <<>> => \E j \in 1..i - 1 :
                /\ parts[j] = "word" /\ s.words[1] = TextOf(args[j])
                /\ \A k \in 1..j - 1 : parts[k] # "word"
  BY <1>0 DEF ScanHolds
<1>3. CASE s.failed
  <2>1. r = s
    BY <1>3 DEF Scan
  <2>2. \E j \in 1..i : parts[j] = "help"
    BY <1>1, <1>2, <1>3
  <2> QED
    BY <1>3, <2>1, <2>2 DEF ScanHolds
<1>4. CASE ~s.failed
  <2> DEFINE first == i = 1 \/ parts[i - 1] # "takes"
  <2>1. \/ i > 1 /\ parts[i - 1] = "takes" /\ parts[i] = "value"
        \/ first /\ parts[i] = "word" /\ (arg.flag = NoFlag \/ "end" \in before)
        \/ /\ first /\ "end" \notin before
           /\ \/ parts[i] = "end" /\ arg.flag = "--"
              \/ parts[i] = "help" /\ arg.flag \in Helps
              \/ parts[i] = "takes" /\ arg.flag \in valued /\ arg.text = <<>>
              \/ parts[i] = "holds" /\ arg.flag \in valued /\ arg.text # <<>>
              \/ /\ parts[i] = "switch" /\ arg.flag \notin valued \cup Helps \cup {NoFlag, "--"}
                 /\ \/ arg.flag \in switches \/ arg.text # <<>>
                    \/ i = Len(args) \/ args[i + 1].flag # NoFlag
    BY <1>0, <1>2, <1>4 DEF TakenFor
  <2>2. first => ~s.wants
    BY <1>2, <1>4
  <2>3. /\ s.words \in Seq(Texts) /\ s.values \in Seq(Texts) /\ TextOf(arg) \in Texts
        /\ arg.text # <<>> => arg.text \in Texts
        /\ arg.flag = NoFlag => TextOf(arg) = arg.text
    BY <1>0, TextIsText DEF ScanStates
  <2>4. ASSUME NEW t \in ScanStates, t.words = s.words, t.values = s.values, parts[i] # "word",
               parts[i] # "value", parts[i] # "holds"
        PROVE  /\ ToSet(t.words) = WordsTo(args, parts, i) /\ ToSet(t.values) = ValuesTo(args, parts, i)
               /\ t.words # <<>> => \E j \in 1..i :
                    /\ parts[j] = "word" /\ t.words[1] = TextOf(args[j])
                    /\ \A k \in 1..j - 1 : parts[k] # "word"
    <3>1. ToSet(t.words) = WordsTo(args, parts, i) /\ ToSet(t.values) = ValuesTo(args, parts, i)
      BY <1>0, <1>2, <1>4, <2>4, PartSets
    <3>2. ASSUME t.words # <<>>
          PROVE  \E j \in 1..i : /\ parts[j] = "word" /\ t.words[1] = TextOf(args[j])
                                 /\ \A k \in 1..j - 1 : parts[k] # "word"
      <4>1. PICK j \in 1..i - 1 : /\ parts[j] = "word" /\ s.words[1] = TextOf(args[j])
                                  /\ \A k \in 1..j - 1 : parts[k] # "word"
        BY <1>2, <1>4, <2>4, <3>2
      <4>2. j \in 1..i
        BY <1>1
      <4> QED
        BY <2>4, <4>1, <4>2
    <3> QED
      BY <3>1, <3>2
  <2>w. ASSUME NEW words \in Seq(Texts), s.words = words, parts[i] # "word",
               NEW values \in Seq(Texts), NEW new \in Texts, s.values = values,
               (parts[i] = "value" /\ new = TextOf(arg)) \/ (parts[i] = "holds" /\ new = arg.text)
        PROVE  /\ ToSet(words) = WordsTo(args, parts, i)
               /\ ToSet(Append(values, new)) = ValuesTo(args, parts, i)
               /\ words # <<>> => \E j \in 1..i :
                    /\ parts[j] = "word" /\ words[1] = TextOf(args[j])
                    /\ \A k \in 1..j - 1 : parts[k] # "word"
    <3>1. ToSet(Append(values, new)) = ToSet(values) \cup {new}
      BY ToSetAppend
    <3>2. ToSet(words) = WordsTo(args, parts, i)
      BY <1>0, <1>2, <1>4, <2>w, PartSets
    <3>3. ToSet(Append(values, new)) = ValuesTo(args, parts, i)
      BY <1>0, <1>2, <1>4, <2>w, <3>1, PartSets
    <3>4. ASSUME words # <<>>
          PROVE  \E j \in 1..i : /\ parts[j] = "word" /\ words[1] = TextOf(args[j])
                                 /\ \A k \in 1..j - 1 : parts[k] # "word"
      <4>1. PICK j \in 1..i - 1 : /\ parts[j] = "word" /\ s.words[1] = TextOf(args[j])
                                  /\ \A k \in 1..j - 1 : parts[k] # "word"
        BY <1>2, <1>4, <2>w, <3>4
      <4>2. j \in 1..i
        BY <1>1
      <4> QED
        BY <2>w, <4>1, <4>2
    <3> QED
      BY <3>2, <3>3, <3>4
  <2>e. s = [wants |-> s.wants, skip |-> s.skip, plain |-> s.plain, failed |-> s.failed,
             words |-> s.words, values |-> s.values]
        /\ s.wants \in BOOLEAN /\ s.skip \in BOOLEAN /\ s.plain \in BOOLEAN /\ s.failed \in BOOLEAN
    BY DEF ScanStates
  <2>f. "help" \notin before
    BY <1>2, <1>4
  <2>g. parts[i] # "help" =>
          (\E j \in 1..i : parts[j] = "help") = FALSE
    BY <1>1, <2>f
  <2>h. (\E j \in 1..i : parts[j] = "end") <=> "end" \in before \/ parts[i] = "end"
    BY <1>1
  <2>n. "--" # NoFlag /\ (\A f \in Helps : f # NoFlag) /\ (\A f \in valued : f # NoFlag)
    <3>1. "--" # NoFlag /\ (\A f \in Helps : f # NoFlag)
      BY Zenon DEF NoFlag, Helps
    <3> QED
      BY <3>1 DEF Plainly
  <2>j. first /\ "end" \notin before /\ arg.flag # NoFlag =>
          r = ScanFlag([s EXCEPT !.skip = FALSE], arg, valued, switches)
    BY <1>2, <1>4, <2>2 DEF Scan
  <2>5. CASE i > 1 /\ parts[i - 1] = "takes" /\ parts[i] = "value"
    <3>1. ~s.plain
      <4>1. i - 1 \in 1..Len(args) /\ 1..i - 1 = (1..(i - 1) - 1) \cup {i - 1}
        BY <1>0, <2>5
      <4>2. "help" \notin {parts[j] : j \in 1..(i - 1) - 1}
        BY <2>f, <4>1
      <4>3. "end" \notin {parts[j] : j \in 1..(i - 1) - 1}
        BY <1>0, <2>5, <4>1, <4>2 DEF TakenFor
      <4>4. "end" \notin before
        BY <2>5, <4>1, <4>3
      <4> QED
        BY <1>2, <1>4, <4>4
    <3>2. s.wants
      BY <1>2, <1>4, <2>5
    <3>3. r = [s EXCEPT !.wants = FALSE, !.values = Append(@, TextOf(arg))]
      BY <1>4, <3>1, <3>2 DEF Scan
    <3>4. /\ ~r.failed /\ r.plain = s.plain /\ ~r.wants /\ r.skip = s.skip /\ r.words = s.words
          /\ r.values = Append(s.values, TextOf(arg))
      BY <1>4, <2>e, <3>3
    <3>5. ~s.skip
      BY <1>2, <1>4, <3>2
    <3>6. /\ ToSet(r.words) = WordsTo(args, parts, i) /\ ToSet(r.values) = ValuesTo(args, parts, i)
          /\ r.words # <<>> => \E j \in 1..i :
               /\ parts[j] = "word" /\ r.words[1] = TextOf(args[j])
               /\ \A k \in 1..j - 1 : parts[k] # "word"
      BY <2>3, <2>5, <2>w, <3>4
    <3>7. /\ r.failed <=> \E j \in 1..i : parts[j] = "help"
          /\ r.plain <=> \E j \in 1..i : parts[j] = "end"
      BY <1>2, <1>4, <2>5, <2>g, <2>h, <3>4
    <3>8. ~(i > 0 /\ parts[i] = "takes")
      BY <2>5
    <3> HIDE DEF r
    <3> QED
      BY <3>4, <3>5, <3>6, <3>7, <3>8 DEF ScanHolds
  <2>6. CASE first /\ parts[i] = "word" /\ (arg.flag = NoFlag \/ "end" \in before)
    <3>1. (~s.wants /\ ~s.skip) \/ s.plain
      BY <1>0, <1>2, <1>4, <2>2, <2>6
    <3>2. r = [s EXCEPT !.words = Append(@, TextOf(arg))] /\ ~s.wants /\ ~s.skip
      BY <1>2, <1>4, <2>2, <2>3, <2>6, <3>1 DEF Scan
    <3>3. /\ ~r.failed /\ r.plain = s.plain /\ ~r.wants /\ ~r.skip /\ r.values = s.values
          /\ r.words = Append(s.words, TextOf(arg))
      BY <1>4, <2>e, <3>2
    <3>4. ToSet(r.words) = ToSet(s.words) \cup {TextOf(arg)}
      BY <2>3, <3>3, ToSetAppend
    <3>5. ToSet(r.words) = WordsTo(args, parts, i)
      BY <1>0, <1>2, <1>4, <2>6, <3>4, PartSets
    <3>6. ToSet(r.values) = ValuesTo(args, parts, i)
      <4>1. ValuesTo(args, parts, i) = ValuesTo(args, parts, i - 1)
        BY <1>0, <2>6, PartSets
      <4> QED
        BY <1>2, <1>4, <3>3, <4>1
    <3>7. \E j \in 1..i : /\ parts[j] = "word" /\ r.words[1] = TextOf(args[j])
                          /\ \A k \in 1..j - 1 : parts[k] # "word"
      <4>1. CASE s.words = <<>>
        <5>1. r.words[1] = TextOf(arg)
          BY <2>3, <3>3, <4>1
        <5>2. \A k \in 1..i - 1 : parts[k] # "word"
          <6>1. WordsTo(args, parts, i - 1) = {}
            BY <1>2, <1>4, <4>1 DEF ToSet
          <6> QED
            BY <6>1 DEF WordsTo
        <5> QED
          BY <1>0, <2>6, <5>1, <5>2
      <4>2. CASE s.words # <<>>
        <5>1. PICK j \in 1..i - 1 : /\ parts[j] = "word" /\ s.words[1] = TextOf(args[j])
                                    /\ \A k \in 1..j - 1 : parts[k] # "word"
          BY <1>2, <1>4, <4>2
        <5>2. r.words[1] = s.words[1] /\ j \in 1..i
          BY <1>1, <2>3, <3>3, <4>2
        <5> QED
          BY <5>1, <5>2
      <4> QED
        BY <4>1, <4>2
    <3>8. /\ r.failed <=> \E j \in 1..i : parts[j] = "help"
          /\ r.plain <=> \E j \in 1..i : parts[j] = "end"
          /\ ~(parts[i] = "takes")
      BY <1>2, <1>4, <2>6, <2>g, <2>h, <3>3
    <3> HIDE DEF r
    <3> QED
      BY <3>3, <3>5, <3>6, <3>7, <3>8 DEF ScanHolds
  <2>7. CASE first /\ "end" \notin before /\ parts[i] = "end" /\ arg.flag = "--"
    <3>1. r = [[s EXCEPT !.skip = FALSE] EXCEPT !.plain = TRUE]
      BY <2>7, <2>n, <2>j DEF ScanFlag
    <3>2. /\ ~r.failed /\ r.plain /\ ~r.wants /\ ~r.skip /\ r.words = s.words /\ r.values = s.values
          /\ r \in ScanStates
      BY <1>4, <2>2, <2>7, <2>e, <3>1 DEF ScanStates
    <3>3. /\ r.failed <=> \E j \in 1..i : parts[j] = "help"
          /\ r.plain <=> \E j \in 1..i : parts[j] = "end"
          /\ ~(parts[i] = "takes")
      BY <2>7, <2>g, <2>h, <3>2
    <3> HIDE DEF r
    <3>4. /\ ToSet(r.words) = WordsTo(args, parts, i) /\ ToSet(r.values) = ValuesTo(args, parts, i)
          /\ r.words # <<>> => \E j \in 1..i :
               /\ parts[j] = "word" /\ r.words[1] = TextOf(args[j])
               /\ \A k \in 1..j - 1 : parts[k] # "word"
      BY <2>4, <2>7, <3>2
    <3> QED
      BY <3>2, <3>3, <3>4 DEF ScanHolds
  <2>8. CASE first /\ "end" \notin before /\ parts[i] = "help" /\ arg.flag \in Helps
    <3>1. arg.flag # "--"
      BY <2>8, Zenon DEF Helps
    <3>2. r = [[s EXCEPT !.skip = FALSE] EXCEPT !.failed = TRUE]
      BY <2>8, <2>n, <2>j, <3>1 DEF ScanFlag
    <3>3. r.failed
      BY <2>e, <3>2
    <3>4. \E j \in 1..i : parts[j] = "help"
      BY <1>0, <2>8
    <3> HIDE DEF r
    <3> QED
      BY <3>3, <3>4 DEF ScanHolds
  <2>9. CASE first /\ "end" \notin before /\ parts[i] = "takes" /\ arg.flag \in valued /\ arg.text = <<>>
    <3>1. arg.flag # "--" /\ arg.flag \notin Helps
      BY <2>9 DEF Plainly
    <3>2. r = [[s EXCEPT !.skip = FALSE] EXCEPT !.wants = TRUE]
      BY <2>9, <2>n, <2>j, <3>1 DEF ScanFlag
    <3>3. /\ ~r.failed /\ ~r.plain /\ r.wants /\ ~r.skip /\ r.words = s.words /\ r.values = s.values
          /\ r \in ScanStates
      BY <1>2, <1>4, <2>9, <2>e, <3>2 DEF ScanStates
    <3>4. /\ r.failed <=> \E j \in 1..i : parts[j] = "help"
          /\ r.plain <=> \E j \in 1..i : parts[j] = "end"
          /\ i > 0 /\ parts[i] = "takes"
      BY <1>0, <2>9, <2>g, <2>h, <3>3
    <3> HIDE DEF r
    <3>5. /\ ToSet(r.words) = WordsTo(args, parts, i) /\ ToSet(r.values) = ValuesTo(args, parts, i)
          /\ r.words # <<>> => \E j \in 1..i :
               /\ parts[j] = "word" /\ r.words[1] = TextOf(args[j])
               /\ \A k \in 1..j - 1 : parts[k] # "word"
      BY <2>4, <2>9, <3>3
    <3> QED
      BY <3>3, <3>4, <3>5 DEF ScanHolds
  <2>10. CASE first /\ "end" \notin before /\ parts[i] = "holds" /\ arg.flag \in valued /\ arg.text # <<>>
    <3>1. arg.flag # "--" /\ arg.flag \notin Helps
      BY <2>10 DEF Plainly
    <3>2. r = [[s EXCEPT !.skip = FALSE] EXCEPT !.values = Append(@, arg.text)]
      BY <2>10, <2>n, <2>j, <3>1 DEF ScanFlag
    <3>3. /\ ~r.failed /\ ~r.plain /\ ~r.wants /\ ~r.skip /\ r.words = s.words
          /\ r.values = Append(s.values, arg.text)
      BY <1>2, <1>4, <2>2, <2>10, <2>e, <3>2
    <3>4. /\ r.failed <=> \E j \in 1..i : parts[j] = "help"
          /\ r.plain <=> \E j \in 1..i : parts[j] = "end"
          /\ ~(parts[i] = "takes")
      BY <2>10, <2>g, <2>h, <3>3
    <3> HIDE DEF r
    <3>5. /\ ToSet(r.words) = WordsTo(args, parts, i) /\ ToSet(r.values) = ValuesTo(args, parts, i)
          /\ r.words # <<>> => \E j \in 1..i :
               /\ parts[j] = "word" /\ r.words[1] = TextOf(args[j])
               /\ \A k \in 1..j - 1 : parts[k] # "word"
      BY <2>3, <2>10, <2>w, <3>3
    <3> QED
      BY <3>3, <3>4, <3>5 DEF ScanHolds
  <2>11. CASE /\ first /\ "end" \notin before
              /\ parts[i] = "switch" /\ arg.flag \notin valued \cup Helps \cup {NoFlag, "--"}
              /\ \/ arg.flag \in switches \/ arg.text # <<>>
                 \/ i = Len(args) \/ args[i + 1].flag # NoFlag
    <3>1. arg.flag \notin valued /\ arg.flag \notin Helps /\ arg.flag # NoFlag /\ arg.flag # "--"
      BY <2>11
    <3>2. r = IF arg.flag \in switches THEN [s EXCEPT !.skip = FALSE]
              ELSE [[s EXCEPT !.skip = FALSE] EXCEPT !.skip = arg.text = <<>>]
      BY <2>11, <2>j, <3>1 DEF ScanFlag
    <3>3. /\ ~r.failed /\ ~r.plain /\ ~r.wants /\ r.words = s.words /\ r.values = s.values
          /\ r \in ScanStates
          /\ r.skip => arg.flag \notin switches /\ arg.text = <<>>
      <4>1. CASE arg.flag \in switches
        BY <1>2, <1>4, <2>2, <2>11, <2>e, <3>2, <4>1 DEF ScanStates
      <4>2. CASE arg.flag \notin switches
        <5>1. r = [wants |-> s.wants, skip |-> arg.text = <<>>, plain |-> s.plain, failed |-> s.failed,
                   words |-> s.words, values |-> s.values]
          BY <2>e, <3>2, <4>2
        <5>2. (arg.text = <<>>) \in BOOLEAN
          OBVIOUS
        <5>3. s.words \in Seq(Texts) /\ s.values \in Seq(Texts)
          BY <2>3
        <5> HIDE DEF r
        <5>4. r \in ScanStates
          BY <2>e, <5>1, <5>2, <5>3 DEF ScanStates
        <5>5. r.skip = (arg.text = <<>>) /\ r.words = s.words /\ r.values = s.values
              /\ r.plain = s.plain /\ r.wants = s.wants /\ r.failed = s.failed
          BY <5>1
        <5> QED
          BY <1>2, <1>4, <2>2, <2>11, <4>2, <5>4, <5>5
      <4> QED
        BY <4>1, <4>2
    <3>4. /\ r.failed <=> \E j \in 1..i : parts[j] = "help"
          /\ r.plain <=> \E j \in 1..i : parts[j] = "end"
          /\ ~(parts[i] = "takes")
      BY <2>11, <2>g, <2>h, <3>3
    <3>5. r.skip => i > 0 /\ (i = Len(args) \/ args[i + 1].flag # NoFlag)
      BY <1>0, <2>11, <3>3
    <3> HIDE DEF r
    <3>6. /\ ToSet(r.words) = WordsTo(args, parts, i) /\ ToSet(r.values) = ValuesTo(args, parts, i)
          /\ r.words # <<>> => \E j \in 1..i :
               /\ parts[j] = "word" /\ r.words[1] = TextOf(args[j])
               /\ \A k \in 1..j - 1 : parts[k] # "word"
      BY <2>4, <2>11, <3>3
    <3> QED
      BY <3>3, <3>4, <3>5, <3>6 DEF ScanHolds
  <2> QED
    BY <2>1, <2>5, <2>6, <2>7, <2>8, <2>9, <2>10, <2>11
<1> QED
  BY <1>3, <1>4

\* What a parse comes to.
LEMMA ParseIs ==
  ASSUME NEW args \in Seq(Arguments), NEW parts, NEW valued, NEW switches,
         TakenFor(args, parts, valued, switches), Plainly(valued),
         NEW flags, flags = ParseFlags(args, valued, switches)
  PROVE  /\ flags.words \in Seq(Texts) /\ flags.values \in Seq(Texts)
         /\ flags.failed <=> NoPackages(parts)
         /\ ~flags.failed =>
              /\ ToSet(flags.words) = WordsIn(args, parts)
              /\ ToSet(flags.values) = ValuesIn(args, parts)
              /\ flags.words # <<>> => \E j \in DOMAIN args :
                   /\ parts[j] = "word" /\ flags.words[1] = TextOf(args[j])
                   /\ \A k \in 1..j - 1 : parts[k] # "word"
<1>0. PICK f : Scanned(f, args, valued, switches)
  BY ScannedExists
<1> DEFINE n == Len(args)
<1>n. n \in Nat /\ DOMAIN args = 1..n
  OBVIOUS
<1> HIDE DEF n
<1>1. /\ f \in [0..n -> ScanStates] /\ f[0] = Fresh
      /\ \A i \in 1..n : f[i] = Scan(f[i - 1], args[i], valued, switches)
      /\ flags = [f[n] EXCEPT !.failed = f[n].failed \/ f[n].wants]
  BY <1>0 DEF Scanned, n
<1>2. \A i \in 0..n : ScanHolds(f[i], args, parts, i)
  <2> DEFINE Good == {i \in 0..n : ScanHolds(f[i], args, parts, i)}
  <2>1. 0 \in Good
    <3>1. 1..0 = {}
      OBVIOUS
    <3>2. WordsTo(args, parts, 0) = {} /\ ValuesTo(args, parts, 0) = {}
      BY <3>1 DEF WordsTo, ValuesTo
    <3>3. ToSet(<<>>) = {}
      BY DEF ToSet
    <3>4. /\ ~Fresh.failed /\ ~Fresh.plain /\ ~Fresh.wants /\ ~Fresh.skip
          /\ Fresh.words = <<>> /\ Fresh.values = <<>>
      BY DEF Fresh
    <3>5. ~(0 > 0)
      OBVIOUS
    <3>6. ScanHolds(Fresh, args, parts, 0)
      BY <3>1, <3>2, <3>3, <3>4, <3>5 DEF ScanHolds
    <3> QED
      BY <1>n, <1>1, <3>6
  <2>2. ASSUME NEW i \in 1..n, i - 1 \in Good PROVE i \in Good
    <3>1. f[i - 1] \in ScanStates /\ ScanHolds(f[i - 1], args, parts, i - 1) /\ i \in 1..Len(args)
      BY <1>n, <1>1, <2>2 DEF n
    <3>2. ScanHolds(Scan(f[i - 1], args[i], valued, switches), args, parts, i)
      BY <3>1, ScanStep
    <3> QED
      BY <1>1, <3>2
  <2> HIDE DEF Good
  <2>3. \A i \in 0..n : i \in Good
    BY <1>n, <2>1, <2>2, UpTo
  <2> QED
    BY <2>3 DEF Good
<1>3. f[n] \in ScanStates /\ ScanHolds(f[n], args, parts, n)
  BY <1>n, <1>1, <1>2
<1> DEFINE s == f[n]
<1> HIDE DEF s
<1>4. /\ s \in ScanStates
      /\ flags.words = s.words /\ flags.values = s.values /\ flags.failed = (s.failed \/ s.wants)
  <2>1. s \in ScanStates
    BY <1>3 DEF s
  <2>2. s = [wants |-> s.wants, skip |-> s.skip, plain |-> s.plain, failed |-> s.failed,
             words |-> s.words, values |-> s.values]
    BY <2>1 DEF ScanStates
  <2>3. flags = [s EXCEPT !.failed = s.failed \/ s.wants]
    BY <1>1 DEF s
  <2> QED
    BY <2>1, <2>2, <2>3
<1>5. /\ s.failed <=> \E j \in 1..n : parts[j] = "help"
      /\ ~s.failed =>
           /\ s.wants <=> n > 0 /\ parts[n] = "takes"
           /\ ToSet(s.words) = WordsTo(args, parts, n)
           /\ ToSet(s.values) = ValuesTo(args, parts, n)
           /\ s.words # <<>> => \E j \in 1..n :
                /\ parts[j] = "word" /\ s.words[1] = TextOf(args[j])
                /\ \A k \in 1..j - 1 : parts[k] # "word"
  BY <1>3 DEF ScanHolds, s
<1>6. WordsTo(args, parts, n) = WordsIn(args, parts) /\ ValuesTo(args, parts, n) = ValuesIn(args, parts)
  BY <1>n DEF WordsTo, WordsIn, ValuesTo, ValuesIn
<1>7. NoPackages(parts) <=> (\E j \in 1..n : parts[j] = "help") \/ (n > 0 /\ parts[n] = "takes")
  <2>1. parts \in [1..n -> Parts]
    BY <1>n DEF TakenFor
  <2>2. parts \in Seq(Parts) /\ Len(parts) = n /\ DOMAIN parts = 1..n
    BY <1>n, <2>1
  <2>3. parts # <<>> <=> n > 0
    BY <1>n, <2>2
  <2>4. Last(parts) = parts[n]
    BY <2>2 DEF Last
  <2>5. "help" \in ToSet(parts) <=> \E j \in 1..n : parts[j] = "help"
    BY <2>2 DEF ToSet
  <2> QED
    BY <2>3, <2>4, <2>5 DEF NoPackages
<1>8. s.failed \in BOOLEAN /\ s.wants \in BOOLEAN /\ s.words \in Seq(Texts) /\ s.values \in Seq(Texts)
  BY <1>4 DEF ScanStates
<1>9. flags.failed <=> NoPackages(parts)
  BY <1>4, <1>5, <1>7, <1>8
<1> QED
  BY <1>n, <1>4, <1>5, <1>6, <1>8, <1>9

-----------------------------------------------------------------------------
(* The configurations, and the words of a command                           *)

Managers == Npms \cup Executors \cup Pypis

\* No configuration lists "--" or a help flag among those with values.
LEMMA ConfigsArePlain ==
  ASSUME NEW manager \in Managers
  PROVE  Plainly(Config(manager).valued)
<1>1. Config(manager).valued \subseteq
        {"--save-dev", "-D", "--dev", "-d", "--package", "-p", "--requirement", "-r"}
  <2>1. CASE manager = "npm"
    BY <2>1, Zenon DEF Config, NpmConfig, Manager
  <2>2. CASE manager = "pnpm"
    BY <2>2, Zenon DEF Config, PnpmConfig, Manager
  <2>3. CASE manager = "bun"
    BY <2>3, Zenon DEF Config, BunConfig, Manager
  <2>4. CASE manager = "yarn"
    BY <2>4, Zenon DEF Config, YarnConfig, Manager
  <2>5. CASE manager = "npx"
    BY <2>5, Zenon DEF Config, NpxConfig, Manager
  <2>6. CASE manager = "pnpx"
    BY <2>6, Zenon DEF Config, PnpxConfig, Manager
  <2>7. CASE manager \in {"pip", "pip3"}
    BY <2>7, Zenon DEF Config, PipConfig, Manager
  <2>8. CASE manager = "uv"
    BY <2>8, Zenon DEF Config, UvConfig, Manager
  <2>9. CASE manager = "poetry"
    BY <2>9, Zenon DEF Config, PoetryConfig, Manager
  <2> QED
    BY <2>1, <2>2, <2>3, <2>4, <2>5, <2>6, <2>7, <2>8, <2>9 DEF Managers, Npms, Executors, Pypis
<1>2. \A f \in {"--save-dev", "-D", "--dev", "-d", "--package", "-p", "--requirement", "-r"} :
        f \notin Helps /\ f # "--" /\ f # NoFlag
  BY Zenon DEF Helps, NoFlag
<1> QED
  BY <1>1, <1>2 DEF Plainly

\* What SelectInSeq chooses.
LEMMA FirstIn ==
  ASSUME NEW n \in Nat, NEW I, I \subseteq 1..n, NEW i, i = IF I # {} THEN Min(I) ELSE 0
  PROVE  i \in 0..n /\ (i = 0 <=> I = {}) /\ (i # 0 => i \in I /\ \A j \in I : i <= j)
<1> DEFINE c == CHOOSE m \in I : \A k \in I : m <= k
<1>1. CASE I = {}
  BY <1>1
<1>2. CASE I # {}
  <2>1. \E m \in I : \A k \in I : m <= k
    <3>1. I \subseteq Nat
      OBVIOUS
    <3> QED
      BY <1>2, <3>1, LeastNumber
  <2>2. c \in I /\ \A k \in I : c <= k
    BY <2>1
  <2>3. i = c
    BY <1>2 DEF Min
  <2> HIDE DEF c
  <2>4. i \in I /\ \A k \in I : i <= k
    BY <2>2, <2>3
  <2> QED
    BY <1>2, <2>4
<1> QED
  BY <1>1, <1>2

-----------------------------------------------------------------------------
(* Where a command starts, and its first word                                *)

\* IsFirstNonFlagArgInList looks where the package manager looks for its command.
LEMMA FirstWordIs ==
  ASSUME NEW args \in Seq(Arguments), NEW words
  PROVE  FirstWordInList(args, words) <=> Runs(args, words)
<1> DEFINE I == {j \in 1..Len(args) : args[j].flag = NoFlag}
           i == SelectInSeq(args, LAMBDA a : a.flag = NoFlag)
<1>1. i = IF I # {} THEN Min(I) ELSE 0
  BY Zenon DEF SelectInSeq
<1>2. FirstWordInList(args, words) <=> i # 0 /\ Is(args[i], words)
  BY Zenon DEF FirstWordInList
<1> HIDE DEF i
<1>3. i \in 0..Len(args) /\ (i = 0 <=> I = {}) /\ (i # 0 => i \in I /\ \A j \in I : i <= j)
  <2>1. Len(args) \in Nat /\ I \subseteq 1..Len(args)
    OBVIOUS
  <2> HIDE DEF I
  <2> QED
    BY <1>1, <2>1, FirstIn
<1>4. ASSUME i # 0, Is(args[i], words) PROVE Runs(args, words)
  <2>1. i \in DOMAIN args /\ \A j \in 1..i - 1 : args[j].flag # NoFlag
    <3>1. i \in 1..Len(args)
      BY <1>3, <1>4
    <3>2. \A j \in 1..i - 1 : j \in 1..Len(args) /\ ~(i <= j)
      BY <3>1
    <3>3. \A j \in 1..i - 1 : j \notin I
      BY <1>3, <1>4, <3>2
    <3> QED
      BY <3>1, <3>2, <3>3
  <2> QED
    BY <1>4, <2>1 DEF Runs
<1>5. ASSUME Runs(args, words) PROVE i # 0 /\ Is(args[i], words)
  <2>1. PICK k \in DOMAIN args : Is(args[k], words) /\ \A j \in 1..k - 1 : args[j].flag # NoFlag
    BY <1>5 DEF Runs
  <2>2. args[k].flag = NoFlag /\ k \in 1..Len(args)
    BY <2>1 DEF Is
  <2>3. k \in I
    BY <2>2
  <2>4. i # 0 /\ i \in I /\ i <= k
    BY <1>3, <2>3
  <2>5. i = k
    BY <2>1, <2>2, <2>4
  <2> QED
    BY <2>1, <2>4, <2>5
<1> QED
  BY <1>2, <1>4, <1>5

\* The install command is the first of its words.
LEMMA InstallIs ==
  ASSUME NEW args \in Seq(Arguments), NEW config
  PROVE  /\ InstallAt(config, args) \in 0..Len(args)
         /\ (\A i \in DOMAIN args : ~Is(args[i], config.install)) => InstallAt(config, args) = 0
         /\ \A place \in DOMAIN args : InstallsAt(config, args, place) => InstallAt(config, args) = place
<1> DEFINE I == {j \in 1..Len(args) : Is(args[j], config.install)}
           i == InstallAt(config, args)
<1>1. i = IF I # {} THEN Min(I) ELSE 0
  BY Zenon DEF SelectInSeq, InstallAt
<1> HIDE DEF i
<1>3. i \in 0..Len(args) /\ (i = 0 <=> I = {}) /\ (i # 0 => i \in I /\ \A j \in I : i <= j)
  <2>1. Len(args) \in Nat /\ I \subseteq 1..Len(args)
    OBVIOUS
  <2> HIDE DEF I
  <2> QED
    BY <1>1, <2>1, FirstIn
<1>4. (\A j \in DOMAIN args : ~Is(args[j], config.install)) => i = 0
  BY <1>3
<1>5. ASSUME NEW place \in DOMAIN args, InstallsAt(config, args, place) PROVE i = place
  <2>1. place \in I /\ \A j \in 1..place - 1 : j \notin I
    BY <1>5 DEF InstallsAt
  <2>2. i \in I /\ i <= place
    BY <1>3, <2>1
  <2> QED
    BY <2>1, <2>2
<1> QED
  BY <1>3, <1>4, <1>5 DEF i

LEMMA OwnArgsAre ==
  ASSUME NEW args \in Seq(Arguments), NEW config
  PROVE  OwnArgs(config, args) \in Seq(Arguments)
  BY DEF OwnArgs

LEMMA BehindAre ==
  ASSUME NEW args \in Seq(Arguments), NEW place \in 0..Len(args)
  PROVE  SubSeq(args, place + 1, Len(args)) \in Seq(Arguments)
<1>1. \A i \in place + 1..Len(args) : args[i] \in Arguments
  OBVIOUS
<1> QED
  BY <1>1, SubSeqProperties

LEMMA ConcatSets ==
  ASSUME NEW X, NEW s \in Seq(X), NEW t \in Seq(X)
  PROVE  s \o t \in Seq(X) /\ ToSet(s \o t) = ToSet(s) \cup ToSet(t)
<1>1. /\ s \o t \in Seq(X) /\ Len(s \o t) = Len(s) + Len(t) /\ Len(s) \in Nat /\ Len(t) \in Nat
      /\ \A i \in 1..Len(s) : (s \o t)[i] = s[i]
      /\ \A i \in 1..Len(t) : (s \o t)[Len(s) + i] = t[i]
      /\ DOMAIN s = 1..Len(s) /\ DOMAIN t = 1..Len(t) /\ DOMAIN (s \o t) = 1..(Len(s) + Len(t))
  OBVIOUS
<1>2. ToSet(s \o t) \subseteq ToSet(s) \cup ToSet(t)
  <2> SUFFICES ASSUME NEW i \in 1..(Len(s) + Len(t))
               PROVE  (s \o t)[i] \in ToSet(s) \cup ToSet(t)
    BY <1>1 DEF ToSet
  <2>1. CASE i \in 1..Len(s)
    BY <1>1, <2>1 DEF ToSet
  <2>2. CASE i \notin 1..Len(s)
    <3>1. i - Len(s) \in 1..Len(t) /\ Len(s) + (i - Len(s)) = i
      BY <1>1, <2>2
    <3>2. (s \o t)[i] = t[i - Len(s)]
      BY <1>1, <3>1
    <3> QED
      BY <1>1, <3>1, <3>2 DEF ToSet
  <2> QED
    BY <2>1, <2>2
<1>3. ToSet(s) \subseteq ToSet(s \o t)
  <2> SUFFICES ASSUME NEW i \in 1..Len(s) PROVE s[i] \in ToSet(s \o t)
    BY <1>1 DEF ToSet
  <2> QED
    BY <1>1 DEF ToSet
<1>4. ToSet(t) \subseteq ToSet(s \o t)
  <2> SUFFICES ASSUME NEW i \in 1..Len(t) PROVE t[i] \in ToSet(s \o t)
    BY <1>1 DEF ToSet
  <2>1. Len(s) + i \in 1..(Len(s) + Len(t)) /\ (s \o t)[Len(s) + i] = t[i]
    BY <1>1
  <2> QED
    BY <1>1, <2>1 DEF ToSet
<1> QED
  BY <1>1, <1>2, <1>3, <1>4

-----------------------------------------------------------------------------
(***************************************************************************)
(* What npm names: the last "@" that is not the first character ends the name, *)
(* whether or not there is a scope.                                          *)
(***************************************************************************)

LEMMA NpmForms ==
  ASSUME NEW text
  PROVE  /\ text = <<Blank>> => NpmParsePackageInfo(text) = NoSpec
         /\ text # <<Blank>> /\ text[1] = Blank /\ Len(text) > 2 =>
              NpmParsePackageInfo(text) = NpmSpec(Front(text), Last(text))
         /\ text # <<Blank>> /\ text[1] = Blank /\ Len(text) = 2 =>
              NpmParsePackageInfo(text) = NpmSpec(text, Blank)
         /\ text # <<Blank>> /\ text[1] # Blank /\ Len(text) = 1 =>
              NpmParsePackageInfo(text) = NpmSpec(text, Blank)
         /\ text # <<Blank>> /\ text[1] # Blank /\ Len(text) = 2 =>
              NpmParsePackageInfo(text) = NpmSpec(<<text[1]>>, text[2])
<1> DEFINE n == Len(text)
<1>1. <<Blank>>[1] = Blank /\ ~(2 > 2) /\ 1 # 2
  OBVIOUS
<1>2. text = <<Blank>> => NpmParsePackageInfo(text) = NoSpec
  BY <1>1, Zenon DEF NpmParsePackageInfo
<1>3. text # <<Blank>> /\ text[1] = Blank /\ n > 2 =>
        NpmParsePackageInfo(text) = NpmSpec(Front(text), Last(text))
  BY <1>1, Zenon DEF NpmParsePackageInfo
<1>4. text # <<Blank>> /\ text[1] = Blank /\ n = 2 => NpmParsePackageInfo(text) = NpmSpec(text, Blank)
  BY <1>1, Zenon DEF NpmParsePackageInfo
<1>5. text # <<Blank>> /\ text[1] # Blank /\ n = 1 => NpmParsePackageInfo(text) = NpmSpec(text, Blank)
  BY <1>1, Zenon DEF NpmParsePackageInfo
<1>6. text # <<Blank>> /\ text[1] # Blank /\ n = 2 =>
        NpmParsePackageInfo(text) = NpmSpec(<<text[1]>>, text[2])
  BY <1>1, Zenon DEF NpmParsePackageInfo
<1> QED
  BY <1>2, <1>3, <1>4, <1>5, <1>6

LEMMA SpecIs ==
  ASSUME NEW name, NEW version
  PROVE  /\ NpmSpec(name, version).ok /\ NpmSpec(name, version).name = name
         /\ NpmSpec(name, version).version = version
  BY DEF NpmSpec, NoSpec

\* What npm names is what PMG reads.
LEMMA NpmNamed ==
  ASSUME NEW text \in Texts, NEW p, NamedByNpm(text, p)
  PROVE  LET spec == NpmParsePackageInfo(text)
         IN /\ spec.ok /\ spec.name = p.name
            /\ \/ spec.version = Blank /\ p.version = <<>>
               \/ spec.version # Blank /\ p.version = <<NpmCleanVersion(spec.version)>>
<1> DEFINE spec == NpmParsePackageInfo(text)
           name == p.name
           k == Len(name)
<1>1. text \in Seq(STRING) /\ text # <<>> /\ name \in Seq(STRING) /\ k \in Nat
  BY DEF NamedByNpm, Texts
<1>2. (k = 1 /\ name[1] # Blank) \/ (k = 2 /\ name[1] = Blank)
  BY DEF NamedByNpm
<1>3. CASE text = name /\ p.version = <<>>
  <2>1. text # <<Blank>>
    <3>1. <<Blank>>[1] = Blank /\ Len(<<Blank>>) = 1
      OBVIOUS
    <3> QED
      BY <1>2, <1>3, <3>1
  <2>2. spec = NpmSpec(text, Blank)
    <3>1. CASE k = 1 /\ name[1] # Blank
      BY <1>3, <2>1, <3>1, NpmForms
    <3>2. CASE k = 2 /\ name[1] = Blank
      BY <1>3, <2>1, <3>2, NpmForms
    <3> QED
      BY <1>2, <3>1, <3>2
  <2> QED
    BY <1>3, <2>2, SpecIs
<1>4. CASE /\ Len(text) = k + 1 /\ Last(text) # Blank
           /\ text = Append(name, Last(text)) /\ p.version = <<NpmCleanVersion(Last(text))>>
  <2> DEFINE last == Last(text)
  <2>1. last = text[k + 1]
    BY <1>1, <1>4 DEF Last
  <2>2. text[1] = name[1]
    BY <1>1, <1>2, <1>4
  <2>3. text # <<Blank>>
    BY <1>1, <1>2, <1>4
  <2>4. spec = NpmSpec(name, last)
    <3>1. CASE k = 1 /\ name[1] # Blank
      <4>1. spec = NpmSpec(<<text[1]>>, text[2])
        <5>1. Len(text) = 2
          BY <1>4, <3>1
        <5> QED
          BY <2>2, <2>3, <3>1, <5>1, NpmForms
      <4>2. <<text[1]>> = name
        BY <1>1, <2>2, <3>1
      <4> QED
        BY <2>1, <3>1, <4>1, <4>2
    <3>2. CASE k = 2 /\ name[1] = Blank
      <4>1. Len(text) > 2
        BY <1>4, <3>2
      <4>2. spec = NpmSpec(Front(text), Last(text))
        BY <2>2, <2>3, <3>2, <4>1, NpmForms
      <4>3. Front(text) = name
        <5>1. Front(text) = SubSeq(text, 1, k)
          BY <1>1, <1>4 DEF Front
        <5> QED
          BY <1>1, <1>4, <5>1
      <4> QED
        BY <4>2, <4>3
    <3> QED
      BY <1>2, <3>1, <3>2
  <2> QED
    BY <1>4, <2>4, SpecIs
<1>5. \/ text = name /\ p.version = <<>>
      \/ /\ Len(text) = k + 1 /\ Last(text) # Blank
         /\ text = Append(name, Last(text)) /\ p.version = <<NpmCleanVersion(Last(text))>>
  BY DEF NamedByNpm
<1> QED
  BY <1>3, <1>4, <1>5

\* Texts which are none of them refused are those of the packages.
LEMMA NpmAllNamed ==
  ASSUME NEW manager \in Npms \cup Executors, NEW texts, NEW packages,
         AllNamed(manager, texts, packages)
  PROVE  \/ \E t \in texts : ~NpmParsePackageInfo(t).ok
         \/ /\ \A t \in texts : \E p \in packages : NamedByNpm(t, p)
            /\ \A p \in packages : \E t \in texts : NamedByNpm(t, p)
<1>0. /\ manager # "poetry" /\ manager \notin {"pip", "pip3", "uv"}
  BY Zenon DEF Npms, Executors
<1>1. \A t, p : NamedBy(manager, t, p) = NamedByNpm(t, p)
  BY <1>0, Zenon DEF NamedBy
<1>2. \A t : Refuses(manager, t) = ~NpmParsePackageInfo(t).ok
  BY <1>0, Zenon DEF Refuses
<1> QED
  BY <1>1, <1>2 DEF AllNamed

PackagesOf(packages) == {[name |-> p.name, extras |-> p.extras] : p \in packages}

\* Targets that are the packages asked for.
AreTargets(q, packages) ==
  /\ PackagesOf(ToSet(q.targets)) = PackagesOf(packages)
  /\ \A t \in ToSet(q.targets) : \E p \in packages :
       p.name = t.name /\ p.version = t.version /\ t.explicit = (p.version # <<>>)

LEMMA NpmTargetIs ==
  ASSUME NEW text \in Texts, NEW p, NamedByNpm(text, p)
  PROVE  LET t == NpmTarget(NpmParsePackageInfo(text))
         IN /\ t.name = p.name /\ t.extras = p.extras /\ t.version = p.version
            /\ t.explicit = (p.version # <<>>)
<1> DEFINE spec == NpmParsePackageInfo(text)
<1>1. /\ spec.name = p.name
      /\ \/ spec.version = Blank /\ p.version = <<>>
         \/ spec.version # Blank /\ p.version = <<NpmCleanVersion(spec.version)>>
  BY NpmNamed
<1> HIDE DEF spec
<1>2. /\ NpmTarget(spec).name = spec.name /\ NpmTarget(spec).extras = {}
      /\ NpmTarget(spec).explicit = (spec.version # Blank)
      /\ NpmTarget(spec).version =
           IF spec.version = Blank THEN <<>> ELSE <<NpmCleanVersion(spec.version)>>
  BY DEF NpmTarget
<1>3. p.extras = {}
  BY DEF NamedByNpm
<1>4. spec.version # Blank => p.version # <<>>
  <2>1. \A x : <<x>> # <<>>
    OBVIOUS
  <2> QED
    BY <1>1, <2>1
<1>5. NpmTarget(spec).name = p.name /\ NpmTarget(spec).extras = p.extras
      /\ NpmTarget(spec).version = p.version /\ NpmTarget(spec).explicit = (p.version # <<>>)
  BY <1>1, <1>2, <1>3, <1>4
<1> QED
  BY <1>5 DEF spec

\* What is read of some texts.
Reads(q, texts, packages, manifest) ==
  /\ ~q.failed /\ ~q.harmless /\ q.manifest = manifest /\ AreTargets(q, packages)
  /\ q.targets = <<>> <=> texts = <<>>
  /\ packages = {} <=> texts = <<>>

\* Targets for all of the texts, or the command is refused.
LEMMA NpmTargetsAre ==
  ASSUME NEW manager \in Npms \cup Executors, NEW texts \in Seq(Texts), NEW packages, NEW manifest,
         AllNamed(manager, ToSet(texts), packages), NEW q, q = NpmTargets(texts, manifest)
  PROVE  q.failed \/ Reads(q, texts, packages, manifest)
<1> DEFINE
           specs == [i \in DOMAIN texts |-> NpmParsePackageInfo(texts[i])]
           ts == [i \in DOMAIN specs |-> NpmTarget(specs[i])]
<1>1. q = IF \E i \in DOMAIN specs : ~specs[i].ok THEN Refused
          ELSE [PlainCommand EXCEPT !.manifest = manifest, !.targets = ts]
  BY DEF NpmTargets
<1>2. DOMAIN specs = 1..Len(texts) /\ Len(texts) \in Nat /\ DOMAIN texts = 1..Len(texts)
  OBVIOUS
<1>3. CASE \E i \in DOMAIN specs : ~specs[i].ok
  <2>1. q = Refused
    BY <1>1, <1>3
  <2>2. Refused.failed
    BY DEF Refused, PlainCommand
  <2> QED
    BY <2>1, <2>2
<1>4. CASE ~\E i \in DOMAIN specs : ~specs[i].ok
  <2>1. /\ ~q.failed /\ ~q.harmless /\ q.manifest = manifest /\ q.targets = ts
    <3> HIDE DEF ts, specs
    <3>1. q = [PlainCommand EXCEPT !.manifest = manifest, !.targets = ts]
      BY <1>1, <1>4
    <3> QED
      BY <3>1 DEF PlainCommand
  <2>2. \A t \in ToSet(texts) : t \in Texts /\ NpmParsePackageInfo(t).ok
    BY <1>2, <1>4 DEF ToSet
  <2>3. /\ \A t \in ToSet(texts) : \E p \in packages : NamedByNpm(t, p)
        /\ \A p \in packages : \E t \in ToSet(texts) : NamedByNpm(t, p)
    BY <2>2, NpmAllNamed
  <2>4. /\ DOMAIN ts = 1..Len(texts) /\ ts \in Seq({ts[i] : i \in 1..Len(texts)})
        /\ \A i \in 1..Len(texts) : ts[i] = NpmTarget(NpmParsePackageInfo(texts[i]))
    BY <1>2
  <2>5. ToSet(ts) = {NpmTarget(NpmParsePackageInfo(t)) : t \in ToSet(texts)}
    <3> DEFINE m == Len(texts)
    <3>1. ToSet(ts) = {ts[i] : i \in 1..m} /\ ToSet(texts) = {texts[i] : i \in 1..m}
      <4>1. DOMAIN ts = 1..m /\ DOMAIN texts = 1..m
        BY <1>2, <2>4
      <4> HIDE DEF ts, m
      <4> QED
        BY <4>1 DEF ToSet
    <3>2. \A i \in 1..m : ts[i] = NpmTarget(NpmParsePackageInfo(texts[i]))
      BY <2>4
    <3> HIDE DEF ts, m
    <3> QED
      BY <3>1, <3>2
  <2>6. \A t \in ToSet(texts), p \in packages : NamedByNpm(t, p) =>
          LET u == NpmTarget(NpmParsePackageInfo(t))
          IN /\ u.name = p.name /\ u.extras = p.extras /\ u.version = p.version
             /\ u.explicit = (p.version # <<>>)
    BY <2>2, NpmTargetIs
  <2>7. AreTargets(q, packages)
    <3> HIDE DEF ts, specs
    <3>1. \A u \in ToSet(ts) : \E p \in packages :
            /\ u.name = p.name /\ u.extras = p.extras /\ u.version = p.version
            /\ u.explicit = (p.version # <<>>)
      BY <2>3, <2>5, <2>6
    <3>2. \A p \in packages : \E u \in ToSet(ts) : u.name = p.name /\ u.extras = p.extras
      BY <2>3, <2>5, <2>6
    <3>3. PackagesOf(ToSet(ts)) = PackagesOf(packages)
      BY <3>1, <3>2 DEF PackagesOf
    <3> QED
      BY <2>1, <3>1, <3>3 DEF AreTargets
  <2>8. (ts = <<>> <=> texts = <<>>) /\ (packages = {} <=> texts = <<>>)
    <3>1. texts = <<>> <=> Len(texts) = 0
      BY <1>2
    <3>2. ts = <<>> <=> Len(texts) = 0
      BY <1>2, <2>4
    <3>3. ToSet(texts) = {} <=> Len(texts) = 0
      <4>1. ToSet(texts) = {texts[i] : i \in 1..Len(texts)}
        BY <1>2 DEF ToSet
      <4>2. Len(texts) # 0 => 1 \in 1..Len(texts)
        BY <1>2
      <4>3. Len(texts) = 0 => 1..Len(texts) = {}
        OBVIOUS
      <4> QED
        BY <4>1, <4>2, <4>3
    <3>4. packages = {} <=> ToSet(texts) = {}
      BY <2>3
    <3> QED
      BY <3>1, <3>2, <3>3, <3>4
  <2> HIDE DEF ts, specs
  <2> QED
    BY <2>1, <2>7, <2>8 DEF Reads
<1> QED
  BY <1>3, <1>4

\* Packages that flags name, and words with a scope.
LEMMA WithScopedIs ==
  ASSUME NEW values \in Seq(Texts), NEW words \in Seq(Texts)
  PROVE  /\ WithScoped(values, words) \in Seq(Texts)
         /\ ToSet(WithScoped(values, words))
              = ToSet(values) \cup {w \in ToSet(words) : IsScoped(w)}
<1> DEFINE n == Len(words)
           S == Seq(Texts)
           Sc(s, i) == IF IsScoped(words[i]) /\ words[i] \notin ToSet(s)
                       THEN Append(s, words[i]) ELSE s
           step == [i \in 1..n |-> [s \in S |-> Sc(s, i)]]
           P(f) == f = [i \in 0..n |-> IF i = 0 THEN values ELSE Sc(f[i - 1], i)]
<1>1. n \in Nat /\ DOMAIN words = 1..n /\ \A i \in 1..n : words[i] \in Texts
  OBVIOUS
<1>2. \A s \in S, i \in 1..n : Sc(s, i) \in S
  BY <1>1
<1>a. \A s \in S, i \in 1..n :
        ToSet(Sc(s, i)) = ToSet(s) \cup {w \in {words[i]} : IsScoped(w)}
  <2> SUFFICES ASSUME NEW s \in S, NEW i \in 1..n
               PROVE  ToSet(Sc(s, i)) = ToSet(s) \cup {w \in {words[i]} : IsScoped(w)}
    OBVIOUS
  <2>1. ToSet(Append(s, words[i])) = ToSet(s) \cup {words[i]}
    BY <1>1, ToSetAppend
  <2>2. CASE IsScoped(words[i]) /\ words[i] \notin ToSet(s)
    BY <2>1, <2>2
  <2>3. CASE ~(IsScoped(words[i]) /\ words[i] \notin ToSet(s))
    <3>1. Sc(s, i) = s
      BY <2>3
    <3> HIDE DEF Sc
    <3> QED
      BY <2>3, <3>1
  <2> QED
    BY <2>2, <2>3
<1> HIDE DEF Sc
<1>3. \A i \in 1..n, s \in S : step[i][s] = Sc(s, i) /\ step[i][s] \in S
  BY <1>2
<1>3s. step \in [1..n -> [S -> S]]
  BY <1>2
<1> HIDE DEF step, n, S
<1>e. PICK g : Steps(g, n, S, values, step)
  <2>1. n \in Nat /\ values \in S
    BY <1>1 DEF S
  <2> QED
    BY <1>3s, <2>1, StepsExist
<1>4. /\ g \in [0..n -> S] /\ g[0] = values
      /\ \A i \in 1..n : g[i] = step[i][g[i - 1]]
  BY <1>e DEF Steps
<1>5. \A i \in 1..n : g[i] = Sc(g[i - 1], i)
  BY <1>1, <1>3, <1>4
<1>6. P(g)
  <2> DEFINE K(i) == IF i = 0 THEN values ELSE Sc(g[i - 1], i)
  <2>1. \A i \in 0..n : g[i] = K(i)
    BY <1>4, <1>5
  <2>2. g = [i \in 0..n |-> g[i]]
    BY <1>4
  <2> HIDE DEF K
  <2>3. g = [i \in 0..n |-> K(i)]
    BY <2>1, <2>2
  <2> QED
    BY <2>3 DEF K
<1> DEFINE f == CHOOSE f : P(f)
<1> USE DEF n
<1>7. P(f)
  BY <1>6, Zenon
<1>8. WithScoped(values, words) = f[n]
  BY Zenon DEF WithScoped, Sc
<1> HIDE DEF f, n
<1>9. /\ f[0] = values /\ \A i \in 1..n : f[i] = Sc(f[i - 1], i)
      /\ DOMAIN f = 0..n
  <2> DEFINE K(i) == IF i = 0 THEN values ELSE Sc(f[i - 1], i)
  <2> HIDE DEF K
  <2>1. f = [i \in 0..n |-> K(i)]
    BY <1>7 DEF K
  <2>2. DOMAIN f = 0..n /\ \A i \in 0..n : f[i] = K(i)
    BY <2>1
  <2>3. K(0) = values /\ \A i \in 1..n : K(i) = Sc(f[i - 1], i)
    BY DEF K
  <2> QED
    BY <1>1, <2>2, <2>3
<1>10. \A i \in 0..n : f[i] \in S
                       /\ ToSet(f[i]) = ToSet(values) \cup {w \in {words[j] : j \in 1..i} : IsScoped(w)}
  <2> DEFINE W(i) == {w \in {words[j] : j \in 1..i} : IsScoped(w)}
             Good == {i \in 0..n : f[i] \in S /\ ToSet(f[i]) = ToSet(values) \cup W(i)}
  <2>1. 0 \in Good
    <3>1. 1..0 = {}
      OBVIOUS
    <3> QED
      BY <1>1, <1>9, <3>1 DEF S
  <2>2. ASSUME NEW i \in 1..n, i - 1 \in Good PROVE i \in Good
    <3>1. 1..i = (1..i - 1) \cup {i}
      BY <1>1
    <3>2. W(i) = W(i - 1) \cup {w \in {words[i]} : IsScoped(w)}
      BY <3>1
    <3>3. f[i] = Sc(f[i - 1], i) /\ f[i - 1] \in S /\ words[i] \in Texts
          /\ ToSet(f[i - 1]) = ToSet(values) \cup W(i - 1)
      BY <1>1, <1>9, <2>2
    <3> HIDE DEF W
    <3>4. f[i] \in S
      BY <1>2, <3>3
    <3>5. ToSet(f[i]) = ToSet(f[i - 1]) \cup {w \in {words[i]} : IsScoped(w)}
      BY <1>a, <3>3
    <3>6. ToSet(f[i]) = ToSet(values) \cup W(i)
      BY <3>2, <3>3, <3>5
    <3>7. i \in 0..n
      BY <1>1
    <3> QED
      BY <3>4, <3>6, <3>7
  <2> HIDE DEF Good
  <2>3. \A i \in 0..n : i \in Good
    BY <1>1, <2>1, <2>2, UpTo
  <2> QED
    BY <2>3 DEF Good
<1>11. {words[j] : j \in 1..n} = ToSet(words)
  BY <1>1 DEF ToSet
<1>12. f[n] \in S /\ ToSet(f[n]) = ToSet(values) \cup {w \in ToSet(words) : IsScoped(w)}
  BY <1>1, <1>10, <1>11
<1> QED
  BY <1>8, <1>12 DEF S

LEMMA EmptyIs ==
  ASSUME NEW X, NEW s \in Seq(X)
  PROVE  s = <<>> <=> ToSet(s) = {}
<1> DEFINE n == Len(s)
<1>1. n \in Nat /\ (s = <<>> <=> n = 0) /\ DOMAIN s = 1..n
  OBVIOUS
<1> HIDE DEF n
<1>2. ToSet(s) = {s[i] : i \in 1..n}
  BY <1>1 DEF ToSet
<1>3. n # 0 => 1 \in 1..n
  BY <1>1
<1>4. n = 0 => 1..n = {}
  OBVIOUS
<1> QED
  BY <1>1, <1>2, <1>3, <1>4

-----------------------------------------------------------------------------
(* The command of npm, pnpm, Yarn and Bun                                    *)

\* A command that means what is asked.
Understood(q, asked) ==
  /\ ~q.failed /\ AreTargets(q, asked.packages)
  /\ (q.manifest /\ q.targets = <<>>) = (asked.manifest /\ asked.packages = {})
  /\ q.harmless => ~asked.downloads

LEMMA NothingIs ==
  ASSUME NEW q, NEW packages, q.targets = <<>>, packages = {}
  PROVE  AreTargets(q, packages)
<1>1. ToSet(<<>>) = {}
  BY DEF ToSet
<1>2. ToSet(q.targets) = {}
  BY <1>1
<1> QED
  BY <1>2 DEF AreTargets, PackagesOf

\* A command without packages.
LEMMA PlainIs ==
  ASSUME NEW q, NEW asked, q.targets = <<>>, ~q.failed, asked.packages = {},
         ~q.harmless \/ ~asked.downloads, q.manifest \in BOOLEAN, q.manifest <=> asked.manifest
  PROVE  Understood(q, asked)
<1>1. AreTargets(q, asked.packages)
  BY NothingIs
<1>2. (q.manifest /\ q.targets = <<>>) = (asked.manifest /\ asked.packages = {})
  OBVIOUS
<1> QED
  BY <1>1, <1>2 DEF Understood

LEMMA PlainCommandIs ==
  /\ PlainCommand.targets = <<>> /\ ~PlainCommand.failed /\ ~PlainCommand.manifest
  /\ ~PlainCommand.harmless /\ PlainCommand.manifest \in BOOLEAN
  /\ \A x : LET q == [PlainCommand EXCEPT !.manifest = x]
            IN q.targets = <<>> /\ ~q.failed /\ q.manifest = x /\ ~q.harmless
  /\ \A x : LET q == [PlainCommand EXCEPT !.harmless = x]
            IN q.targets = <<>> /\ ~q.failed /\ ~q.manifest /\ q.harmless = x /\ q.manifest \in BOOLEAN
  BY DEF PlainCommand

LEMMA ParseNpmForms ==
  ASSUME NEW manager, NEW typed, NEW config, config = Config(manager),
         NEW args, args = OwnArgs(config, typed), NEW place, place = InstallAt(config, args),
         NEW flags, flags = ParseFlags(SubSeq(args, place + 1, Len(args)), config.valued, {"--global", "-g"})
  PROVE  LET q == ParseNpmCommand(manager, typed)
             yarn == manager = "yarn" /\ Is(args[place], {"install"}) /\ flags.words # <<>>
         IN /\ args = <<>> /\ place = 0 => q = [PlainCommand EXCEPT !.manifest = manager = "yarn"]
            /\ args # <<>> /\ place = 0 =>
                 q = [PlainCommand EXCEPT !.harmless = FirstWordInList(args, config.harmless)]
            /\ args # <<>> /\ place # 0 /\ flags.failed => q = PlainCommand
            /\ args # <<>> /\ place # 0 /\ ~flags.failed /\ yarn => q = PlainCommand
            /\ args # <<>> /\ place # 0 /\ ~flags.failed /\ ~yarn =>
                 q = NpmTargets(flags.words \o flags.values, flags.words = <<>>)
<1> DEFINE q == ParseNpmCommand(manager, typed)
           yarn == manager = "yarn" /\ Is(args[place], {"install"}) /\ flags.words # <<>>
<1>1. args = <<>> /\ place = 0 => q = [PlainCommand EXCEPT !.manifest = manager = "yarn"]
  BY Zenon DEF ParseNpmCommand
<1>2. args # <<>> /\ place = 0 =>
        q = [PlainCommand EXCEPT !.harmless = FirstWordInList(args, config.harmless)]
  BY Zenon DEF ParseNpmCommand
<1>3. args # <<>> /\ place # 0 /\ flags.failed => q = PlainCommand
  BY Zenon DEF ParseNpmCommand
<1>4. args # <<>> /\ place # 0 /\ ~flags.failed /\ yarn => q = PlainCommand
  BY Zenon DEF ParseNpmCommand
<1>5. args # <<>> /\ place # 0 /\ ~flags.failed /\ ~yarn =>
        q = NpmTargets(flags.words \o flags.values, flags.words = <<>>)
  BY Zenon DEF ParseNpmCommand
<1> QED
  BY <1>1, <1>2, <1>3, <1>4, <1>5

\* npmPackageManager.ParseCommand: what the package manager is asked, or refused.
LEMMA ParseNpmIs ==
  ASSUME NEW manager \in Npms, NEW typed \in Seq(Arguments), NEW asked,
         LineAsks(manager, typed, asked)
  PROVE  LET q == ParseNpmCommand(manager, typed) IN q.failed \/ Understood(q, asked)
<1> DEFINE q == ParseNpmCommand(manager, typed)
           config == Config(manager)
           args == OwnArgs(config, typed)
           place == InstallAt(config, args)
           behind == SubSeq(args, place + 1, Len(args))
           flags == ParseFlags(behind, config.valued, {"--global", "-g"})
           yarn == manager = "yarn" /\ Is(args[place], {"install"}) /\ flags.words # <<>>
<1>0. AsksNpm(manager, config, args, asked)
  <2>1. manager \notin Executors /\ manager \notin Pypis
    BY Zenon DEF Npms, Executors, Pypis
  <2> QED
    BY <2>1, Zenon DEF LineAsks
<1>1. /\ args = <<>> /\ place = 0 => q = [PlainCommand EXCEPT !.manifest = manager = "yarn"]
      /\ args # <<>> /\ place = 0 =>
           q = [PlainCommand EXCEPT !.harmless = FirstWordInList(args, config.harmless)]
      /\ args # <<>> /\ place # 0 /\ flags.failed => q = PlainCommand
      /\ args # <<>> /\ place # 0 /\ ~flags.failed /\ yarn => q = PlainCommand
      /\ args # <<>> /\ place # 0 /\ ~flags.failed /\ ~yarn =>
           q = NpmTargets(flags.words \o flags.values, flags.words = <<>>)
  <2>1. /\ config = Config(manager) /\ args = OwnArgs(config, typed) /\ place = InstallAt(config, args)
        /\ flags = ParseFlags(SubSeq(args, place + 1, Len(args)), config.valued, {"--global", "-g"})
        /\ q = ParseNpmCommand(manager, typed)
    OBVIOUS
  <2> HIDE DEF config, args, place, flags, q
  <2> QED
    BY <2>1, ParseNpmForms
<1>2. args \in Seq(Arguments) /\ Plainly(config.valued)
  BY OwnArgsAre, ConfigsArePlain DEF Managers
<1>3. /\ place \in 0..Len(args)
      /\ (\A i \in DOMAIN args : ~Is(args[i], config.install)) => place = 0
      /\ \A k \in DOMAIN args : InstallsAt(config, args, k) => place = k
  BY <1>2, InstallIs
<1> HIDE DEF q, config, args, place
<1>4. behind \in Seq(Arguments)
  BY <1>2, <1>3, BehindAre
<1> HIDE DEF behind, flags
<1>5. CASE args = <<>> /\ asked.packages = {} /\ asked.manifest = (manager = "yarn")
  <2>1. place = 0
    BY <1>2, <1>3, <1>5
  <2>2. q = [PlainCommand EXCEPT !.manifest = manager = "yarn"]
    BY <1>1, <1>5, <2>1
  <2>3. q.targets = <<>> /\ ~q.failed /\ q.manifest = (manager = "yarn") /\ ~q.harmless
    BY <2>2, PlainCommandIs
  <2>4. q.manifest \in BOOLEAN /\ (q.manifest <=> asked.manifest)
    BY <1>5, <2>3
  <2>5. Understood(q, asked)
    BY <1>5, <2>3, <2>4, PlainIs
  <2> QED
    BY <2>5 DEF q
<1>6. CASE args # <<>> /\ AsksOther(config, args, asked)
  <2>1. place = 0 /\ asked.packages = {} /\ ~asked.manifest
        /\ (asked.downloads => ~Runs(args, config.harmless))
    BY <1>3, <1>6 DEF AsksOther, AsksNothing
  <2>2. q = [PlainCommand EXCEPT !.harmless = FirstWordInList(args, config.harmless)]
    BY <1>1, <1>6, <2>1
  <2>3. FirstWordInList(args, config.harmless) <=> Runs(args, config.harmless)
    BY <1>2, FirstWordIs
  <2>4. q.targets = <<>> /\ ~q.failed /\ ~q.manifest /\ q.manifest \in BOOLEAN
        /\ q.harmless = FirstWordInList(args, config.harmless)
    BY <2>2, PlainCommandIs
  <2>5. Understood(q, asked)
    BY <2>1, <2>3, <2>4, PlainIs
  <2> QED
    BY <2>5 DEF q
<1>7. ASSUME NEW k \in DOMAIN args, InstallsAt(config, args, k),
             LET over   == SubSeq(args, k + 1, Len(args))
                 words  == WordsIn(over, asked.parts)
                 texts  == words \cup ValuesIn(over, asked.parts)
             IN /\ TakenFor(over, asked.parts, config.valued, {"--global", "-g"})
                /\ IF \/ NoPackages(asked.parts)
                      \/ manager = "yarn" /\ Is(args[k], {"install"}) /\ words # {}
                   THEN AsksNothing(asked)
                   ELSE AllNamed(manager, texts, asked.packages) /\ asked.manifest = (texts = {})
      PROVE  q.failed \/ Understood(q, asked)
  <2> DEFINE words == WordsIn(behind, asked.parts)
             texts == words \cup ValuesIn(behind, asked.parts)
  <2>1. place = k
    BY <1>3, <1>7
  <2>2. args # <<>> /\ place # 0
    BY <1>2, <2>1
  <2>3. /\ TakenFor(behind, asked.parts, config.valued, {"--global", "-g"})
        /\ \/ NoPackages(asked.parts)
           \/ manager = "yarn" /\ Is(args[place], {"install"}) /\ words # {}
           => AsksNothing(asked)
        /\ ~(\/ NoPackages(asked.parts)
             \/ manager = "yarn" /\ Is(args[place], {"install"}) /\ words # {})
           => AllNamed(manager, texts, asked.packages) /\ asked.manifest = (texts = {})
    BY <1>7, <2>1 DEF behind
  <2>4. /\ flags.words \in Seq(Texts) /\ flags.values \in Seq(Texts)
        /\ flags.failed <=> NoPackages(asked.parts)
        /\ ~flags.failed => ToSet(flags.words) = words /\ ToSet(flags.values) = ValuesIn(behind, asked.parts)
    BY <1>2, <1>4, <2>3, ParseIs DEF flags
  <2>5. flags.words = <<>> <=> ToSet(flags.words) = {}
    BY <2>4, EmptyIs
  <2>6. CASE flags.failed \/ yarn
    <3>1. AsksNothing(asked)
      <4>1. CASE flags.failed
        BY <2>3, <2>4, <4>1
      <4>2. CASE ~flags.failed
        BY <2>3, <2>4, <2>5, <2>6, <4>2
      <4> QED
        BY <4>1, <4>2
    <3>2. q = PlainCommand
      <4>1. CASE flags.failed
        BY <1>1, <2>2, <4>1
      <4>2. CASE ~flags.failed
        <5>1. yarn
          BY <2>6, <4>2
        <5> QED
          BY <1>1, <2>2, <4>2, <5>1
      <4> QED
        BY <4>1, <4>2
    <3>3. Understood(PlainCommand, asked)
      BY <3>1, PlainIs, PlainCommandIs DEF AsksNothing
    <3> QED
      BY <3>2, <3>3
  <2>7. CASE ~flags.failed /\ ~yarn
    <3> DEFINE all == flags.words \o flags.values
    <3>m. PICK manifest : manifest = (flags.words = <<>>)
      OBVIOUS
    <3>1. q = NpmTargets(all, manifest)
      BY <1>1, <2>2, <2>7, <3>m
    <3>2. all \in Seq(Texts) /\ ToSet(all) = texts
      <4>1. all \in Seq(Texts) /\ ToSet(all) = ToSet(flags.words) \cup ToSet(flags.values)
        BY <2>4, ConcatSets
      <4> QED
        BY <2>4, <2>7, <4>1
    <3>3. AllNamed(manager, texts, asked.packages) /\ asked.manifest = (texts = {})
      <4>1. ~NoPackages(asked.parts)
        BY <2>4, <2>7
      <4>2. ~(manager = "yarn" /\ Is(args[place], {"install"}) /\ words # {})
        BY <2>4, <2>5, <2>7
      <4> HIDE DEF words, texts
      <4> QED
        BY <2>3, <4>1, <4>2
    <3>4. all = <<>> <=> texts = {}
      BY <3>2, EmptyIs
    <3>5. manifest \in BOOLEAN /\ (all = <<>> => manifest)
      BY <2>4, <2>7, <2>5, <3>m, <3>4
    <3> HIDE DEF all, texts
    <3>6. q.failed \/ Reads(q, all, asked.packages, manifest)
      <4>1. AllNamed(manager, ToSet(all), asked.packages) /\ manager \in Npms \cup Executors
        BY <3>2, <3>3
      <4> QED
        BY <3>1, <3>2, <4>1, NpmTargetsAre
    <3> QED
      BY <3>3, <3>4, <3>5, <3>6 DEF Understood, Reads
  <2> QED
    BY <2>6, <2>7
<1>8. q.failed \/ Understood(q, asked)
  <2>1. \/ args = <<>> /\ asked.packages = {} /\ asked.manifest = (manager = "yarn")
        \/ args # <<>> /\ AsksOther(config, args, asked)
        \/ \E k \in DOMAIN args :
             LET over   == SubSeq(args, k + 1, Len(args))
                 words  == WordsIn(over, asked.parts)
                 texts  == words \cup ValuesIn(over, asked.parts)
             IN /\ InstallsAt(config, args, k)
                /\ TakenFor(over, asked.parts, config.valued, {"--global", "-g"})
                /\ IF \/ NoPackages(asked.parts)
                      \/ manager = "yarn" /\ Is(args[k], {"install"}) /\ words # {}
                   THEN AsksNothing(asked)
                   ELSE AllNamed(manager, texts, asked.packages) /\ asked.manifest = (texts = {})
    BY <1>0, Zenon DEF AsksNpm
  <2> QED
    BY <1>5, <1>6, <1>7, <2>1 DEF q
<1> QED
  BY <1>8 DEF q

-----------------------------------------------------------------------------
(* The command of npx and pnpx                                               *)

\* npmPackageExecutor.ParseCommand: what the executor is asked, or refused.
LEMMA ParseExecutorIs ==
  ASSUME NEW manager \in Executors, NEW typed \in Seq(Arguments), NEW asked,
         LineAsks(manager, typed, asked)
  PROVE  LET q == ParseExecutorCommand(manager, typed) IN q.failed \/ Understood(q, asked)
<1> DEFINE q == ParseExecutorCommand(manager, typed)
           config == Config(manager)
           args == OwnArgs(config, typed)
           flags == ParseFlags(args, config.valued, {})
           packages == WithScoped(flags.values, flags.words)
           all == IF packages = <<>> /\ flags.words # <<>> THEN <<flags.words[1]>> ELSE packages
           words == WordsIn(args, asked.parts)
           values == ValuesIn(args, asked.parts)
           run == {TextOf(args[i]) : i \in {j \in DOMAIN args :
                     asked.parts[j] = "word" /\ \A k \in 1..j - 1 : asked.parts[k] # "word"}}
<1>0. AsksExecutor(manager, config, args, asked)
  <2>1. manager \notin Npms /\ manager \notin Pypis
    BY Zenon DEF Npms, Executors, Pypis
  <2> QED
    BY <2>1, Zenon DEF LineAsks
<1>1. /\ flags.failed => q = PlainCommand
      /\ ~flags.failed => q = NpmTargets(all, FALSE)
  BY Zenon DEF ParseExecutorCommand
<1>2. args \in Seq(Arguments) /\ Plainly(config.valued)
  BY OwnArgsAre, ConfigsArePlain DEF Managers
<1>3. /\ TakenFor(args, asked.parts, config.valued, {}) /\ ~asked.manifest
      /\ NoPackages(asked.parts) => asked.packages = {}
      /\ ~NoPackages(asked.parts) =>
           /\ \A t \in words \ run : ~IsScoped(t)
           /\ AllNamed(manager, values \cup {t \in run : IsScoped(t) \/ values = {}}, asked.packages)
  BY <1>0 DEF AsksExecutor
<1> HIDE DEF q, config, args
<1>4. /\ flags.words \in Seq(Texts) /\ flags.values \in Seq(Texts)
      /\ flags.failed <=> NoPackages(asked.parts)
      /\ ~flags.failed =>
           /\ ToSet(flags.words) = words /\ ToSet(flags.values) = values
           /\ flags.words # <<>> => \E j \in DOMAIN args :
                /\ asked.parts[j] = "word" /\ flags.words[1] = TextOf(args[j])
                /\ \A k \in 1..j - 1 : asked.parts[k] # "word"
  BY <1>2, <1>3, ParseIs
<1> HIDE DEF flags
<1>5. CASE flags.failed
  <2>1. asked.packages = {} /\ q = PlainCommand
    BY <1>1, <1>3, <1>4, <1>5
  <2>2. Understood(PlainCommand, asked)
    BY <1>3, <2>1, PlainIs, PlainCommandIs
  <2> QED
    BY <2>1, <2>2 DEF q
<1>6. CASE ~flags.failed
  <2>1. flags.words # <<>> => run = {flags.words[1]}
    <3> SUFFICES ASSUME flags.words # <<>> PROVE run = {flags.words[1]}
      OBVIOUS
    <3>1. PICK j \in DOMAIN args : /\ asked.parts[j] = "word" /\ flags.words[1] = TextOf(args[j])
                                   /\ \A k \in 1..j - 1 : asked.parts[k] # "word"
      BY <1>4, <1>6
    <3>2. DOMAIN args = 1..Len(args) /\ Len(args) \in Nat
      BY <1>2
    <3>3. \A i \in DOMAIN args :
            asked.parts[i] = "word" /\ (\A k \in 1..i - 1 : asked.parts[k] # "word") => i = j
      <4> SUFFICES ASSUME NEW i \in DOMAIN args, asked.parts[i] = "word",
                          \A k \in 1..i - 1 : asked.parts[k] # "word"
                   PROVE  i = j
        OBVIOUS
      <4>1. i \notin 1..j - 1 /\ j \notin 1..i - 1
        BY <3>1
      <4> QED
        BY <3>2, <4>1
    <3>4. {i \in DOMAIN args : asked.parts[i] = "word" /\ \A k \in 1..i - 1 : asked.parts[k] # "word"} = {j}
      BY <3>1, <3>3
    <3> QED
      BY <3>1, <3>4
  <2>2. words = {} => run = {}
    BY DEF WordsIn
  <2>3. run \subseteq words
    BY DEF WordsIn
  <2>4. /\ packages \in Seq(Texts)
        /\ ToSet(packages) = values \cup {w \in words : IsScoped(w)}
    BY <1>4, <1>6, WithScopedIs
  <2>5. /\ \A t \in words \ run : ~IsScoped(t)
        /\ AllNamed(manager, values \cup {t \in run : IsScoped(t) \/ values = {}}, asked.packages)
    BY <1>3, <1>4, <1>6
  <2> HIDE DEF packages, words, values, run
  <2>6. ToSet(packages) = values \cup {w \in run : IsScoped(w)}
    BY <2>3, <2>4, <2>5
  <2>7. packages = <<>> <=> values \cup {w \in run : IsScoped(w)} = {}
    BY <2>4, <2>6, EmptyIs
  <2>8. all \in Seq(Texts) /\ ToSet(all) = values \cup {t \in run : IsScoped(t) \/ values = {}}
    <3>1. CASE packages = <<>> /\ flags.words # <<>>
      <4>1. flags.words[1] \in Texts
        BY <1>4, <3>1
      <4>2. all = <<flags.words[1]>>
        BY <3>1
      <4>3. all \in Seq(Texts) /\ Len(all) = 1 /\ all[1] = flags.words[1] /\ DOMAIN all = 1..1
        <5>1. ASSUME NEW e, e \in Texts
              PROVE  <<e>> \in Seq(Texts) /\ Len(<<e>>) = 1 /\ <<e>>[1] = e /\ DOMAIN <<e>> = 1..1
          BY <5>1
        <5> HIDE DEF all
        <5> QED
          BY <4>1, <4>2, <5>1
      <4> HIDE DEF all
      <4>4. ToSet(all) = {flags.words[1]}
        <5>1. ToSet(all) = {all[i] : i \in 1..1}
          BY <4>3 DEF ToSet
        <5>2. 1..1 = {1}
          OBVIOUS
        <5> QED
          BY <4>3, <5>1, <5>2
      <4>5. values = {} /\ run = {flags.words[1]}
        BY <2>1, <2>7, <3>1
      <4> QED
        BY <4>3, <4>4, <4>5
    <3>2. CASE ~(packages = <<>> /\ flags.words # <<>>)
      <4>1. all = packages
        BY <3>2
      <4>2. values = {} => \A t \in run : IsScoped(t)
        <5>1. flags.words = <<>> => run = {}
          BY <1>4, <1>6, <2>2, EmptyIs
        <5> QED
          BY <2>1, <2>7, <3>2, <5>1
      <4> HIDE DEF all
      <4>3. ToSet(all) = values \cup {w \in run : IsScoped(w)}
        BY <2>6, <4>1
      <4>4. {w \in run : IsScoped(w)} \cup values = {t \in run : IsScoped(t) \/ values = {}} \cup values
        BY <4>2
      <4> QED
        BY <2>4, <4>1, <4>3, <4>4
    <3> QED
      BY <3>1, <3>2
  <2>9. q = NpmTargets(all, FALSE)
    BY <1>1, <1>6
  <2> HIDE DEF all
  <2>10. q.failed \/ Reads(q, all, asked.packages, FALSE)
    <3>1. AllNamed(manager, ToSet(all), asked.packages) /\ manager \in Npms \cup Executors
      BY <2>5, <2>8
    <3> QED
      BY <2>8, <2>9, <3>1, NpmTargetsAre
  <2> QED
    BY <1>3, <2>10 DEF Understood, Reads, q
<1> QED
  BY <1>5, <1>6 DEF q

-----------------------------------------------------------------------------
(***************************************************************************)
(* What pip names: the ranges begin at the first operator, the extras at the *)
(* first bracket, so nothing but a name stands before both.                  *)
(***************************************************************************)

\* FirstOf is the least place of its tokens.
LEMMA FirstOfIs ==
  ASSUME NEW X, NEW text \in Seq(X), NEW tokens
  PROVE  /\ (\A i \in 1..Len(text) : text[i] \notin tokens) => FirstOf(text, tokens) = 0
         /\ \A place \in 1..Len(text) :
              text[place] \in tokens /\ (\A i \in 1..place - 1 : text[i] \notin tokens)
              => FirstOf(text, tokens) = place
<1> DEFINE I == {j \in 1..Len(text) : text[j] \in tokens}
           i == FirstOf(text, tokens)
<1>1. i = IF I # {} THEN Min(I) ELSE 0
  BY Zenon DEF SelectInSeq, FirstOf
<1> HIDE DEF i
<1>3. i \in 0..Len(text) /\ (i = 0 <=> I = {}) /\ (i # 0 => i \in I /\ \A j \in I : i <= j)
  <2>1. Len(text) \in Nat /\ I \subseteq 1..Len(text)
    OBVIOUS
  <2> HIDE DEF I
  <2> QED
    BY <1>1, <2>1, FirstIn
<1>4. (\A j \in 1..Len(text) : text[j] \notin tokens) => i = 0
  BY <1>3
<1>5. ASSUME NEW place \in 1..Len(text), text[place] \in tokens, \A j \in 1..place - 1 : text[j] \notin tokens
      PROVE  i = place
  <2>1. place \in I /\ \A j \in 1..place - 1 : j \notin I
    BY <1>5
  <2>2. i \in I /\ i <= place
    BY <1>3, <2>1
  <2> QED
    BY <2>1, <2>2
<1> QED
  BY <1>4, <1>5 DEF i

\* A package that is read.
SpecOf(spec, name, extras, constraint) ==
  spec.ok /\ spec.name = name /\ spec.extras = extras /\ spec.constraint = constraint

LEMMA SpecFields ==
  ASSUME NEW name, NEW extras, NEW constraint, NEW none, NEW spec,
         spec = [ok |-> TRUE, name |-> none, version |-> Blank, constraint |-> none, extras |-> extras]
  PROVE  /\ SpecOf([spec EXCEPT !.name = name], name, extras, none)
         /\ SpecOf([spec EXCEPT !.name = name, !.constraint = constraint], name, extras, constraint)
<1>1. spec.ok /\ spec.constraint = none /\ spec.extras = extras
  OBVIOUS
<1>2. SpecOf([spec EXCEPT !.name = name], name, extras, none)
  BY <1>1 DEF SpecOf
<1>3. SpecOf([spec EXCEPT !.name = name, !.constraint = constraint], name, extras, constraint)
  BY <1>1 DEF SpecOf
<1> QED
  BY <1>2, <1>3

\* The three ways a text is read: as a name, with extras, with ranges.
LEMMA SpecsAre ==
  ASSUME NEW name, NEW extras, NEW constraint, NEW spec,
         spec = [NoSpec EXCEPT !.ok = TRUE, !.extras = extras]
  PROVE  /\ SpecOf([spec EXCEPT !.name = name], name, extras, <<>>)
         /\ SpecOf([spec EXCEPT !.name = name, !.constraint = constraint], name, extras, constraint)
<1>0. PICK none : none = <<>>
  OBVIOUS
<1>1. spec = [ok |-> TRUE, name |-> none, version |-> Blank, constraint |-> none, extras |-> extras]
  BY <1>0 DEF NoSpec
<1>2. /\ SpecOf([spec EXCEPT !.name = name], name, extras, none)
      /\ SpecOf([spec EXCEPT !.name = name, !.constraint = constraint], name, extras, constraint)
  BY <1>1, SpecFields
<1> QED
  BY <1>0, <1>2

LEMMA PypiForms ==
  ASSUME NEW text,
         NEW open, open = FirstOf(text, {LeftBracket}), NEW close, close = FirstOf(text, {RightBracket}),
         NEW inside, NEW rest,
         \/ /\ open = 0 /\ close = 0 /\ inside = <<>> /\ rest = text
         \/ /\ open # 0 /\ close # 0 /\ open < close /\ inside = SubSeq(text, open + 1, close - 1)
            /\ rest = SubSeq(text, 1, open - 1) \o SubSeq(text, close + 1, Len(text)),
         NEW place, place = FirstOf(rest, Operators),
         NEW extras, extras = ToSet(inside) \ {Comma},
         NEW read, read = PypiParsePackageInfo(text)
  PROVE  /\ place = 0 => SpecOf(read, rest, extras, <<>>)
         /\ place # 0 /\ place # 1 =>
              SpecOf(read, SubSeq(rest, 1, place - 1), extras, SubSeq(rest, place, Len(rest)))
<1> DEFINE paired == open # 0 /\ close # 0 /\ open < close
           ins == IF paired THEN SubSeq(text, open + 1, close - 1) ELSE <<>>
           res == IF paired THEN SubSeq(text, 1, open - 1) \o SubSeq(text, close + 1, Len(text))
                  ELSE text
           a == FirstOf(res, Operators)
           s == [NoSpec EXCEPT !.ok = TRUE, !.extras = ToSet(ins) \ {Comma}]
<1>1. ins = inside /\ res = rest
  OBVIOUS
<1>2. (open = 0) = (close = 0)
  OBVIOUS
<1>3. 0 # 1
  OBVIOUS
<1>4. a = place /\ s = [NoSpec EXCEPT !.ok = TRUE, !.extras = extras]
  BY <1>1, Zenon
<1>5. a = 0 => PypiParsePackageInfo(text) = [s EXCEPT !.name = res]
  BY <1>2, <1>3, Zenon DEF PypiParsePackageInfo
<1>6. a # 0 /\ a # 1 =>
        PypiParsePackageInfo(text) = [s EXCEPT !.name = SubSeq(res, 1, a - 1),
                                               !.constraint = SubSeq(res, a, Len(res))]
  BY <1>2, <1>3, Zenon DEF PypiParsePackageInfo
<1> HIDE DEF a, s, ins, res, paired
<1>7. \A name, constraint :
        /\ SpecOf([s EXCEPT !.name = name], name, extras, <<>>)
        /\ SpecOf([s EXCEPT !.name = name, !.constraint = constraint], name, extras, constraint)
  BY <1>4, SpecsAre
<1>8. ASSUME place = 0 PROVE SpecOf(read, rest, extras, <<>>)
  <2>1. read = [s EXCEPT !.name = rest]
    BY <1>1, <1>4, <1>5, <1>8
  <2>2. SpecOf([s EXCEPT !.name = rest], rest, extras, <<>>)
    BY <1>7, Zenon
  <2> QED
    BY <2>1, <2>2, Zenon
<1>9. ASSUME place # 0, place # 1
      PROVE  SpecOf(read, SubSeq(rest, 1, place - 1), extras, SubSeq(rest, place, Len(rest)))
  <2>1. read = [s EXCEPT !.name = SubSeq(rest, 1, place - 1), !.constraint = SubSeq(rest, place, Len(rest))]
    BY <1>1, <1>4, <1>6, <1>9, Zenon
  <2> DEFINE name == SubSeq(rest, 1, place - 1)
             constraint == SubSeq(rest, place, Len(rest))
  <2>2. SpecOf([s EXCEPT !.name = name, !.constraint = constraint], name, extras, constraint)
    BY <1>7, Zenon
  <2> QED
    BY <2>1, <2>2, Zenon
<1> QED
  BY <1>8, <1>9

LEMMA SubSeqIs ==
  ASSUME NEW X, NEW s \in Seq(X), NEW m \in 1..Len(s) + 1, NEW n \in 0..Len(s), m <= n + 1
  PROVE  /\ SubSeq(s, m, n) \in Seq(X) /\ Len(SubSeq(s, m, n)) = n - m + 1
         /\ \A i \in 1..(n - m + 1) : SubSeq(s, m, n)[i] = s[m + i - 1]
<1>1. m \in Int /\ n \in Int /\ \A i \in m..n : s[i] \in X
  OBVIOUS
<1>2. /\ SubSeq(s, m, n) \in Seq(X)
      /\ Len(SubSeq(s, m, n)) = IF m <= n THEN n - m + 1 ELSE 0
      /\ \A i \in 1..(n - m + 1) : SubSeq(s, m, n)[i] = s[m + i - 1]
  BY <1>1, SubSeqProperties
<1>3. (IF m <= n THEN n - m + 1 ELSE 0) = n - m + 1
  OBVIOUS
<1> QED
  BY <1>2, <1>3

LEMMA SubSeqSet ==
  ASSUME NEW X, NEW s \in Seq(X), NEW m \in 1..Len(s) + 1, NEW n \in 0..Len(s), m <= n + 1
  PROVE  ToSet(SubSeq(s, m, n)) = {s[j] : j \in m..n}
<1> DEFINE t == SubSeq(s, m, n)
           k == n - m + 1
<1>0. m \in Int /\ n \in Int /\ k \in Nat /\ k = n - m + 1
  OBVIOUS
<1>1. t \in Seq(X) /\ Len(t) = k /\ \A i \in 1..k : t[i] = s[m + i - 1]
  BY SubSeqIs
<1>2. DOMAIN t = 1..k
  BY <1>1
<1> HIDE DEF t, k
<1>3. ToSet(t) = {t[i] : i \in 1..k}
  BY <1>2 DEF ToSet
<1>4. \A i \in 1..k : m + i - 1 \in m..n
  BY <1>0
<1>5. \A j \in m..n : j - m + 1 \in 1..k /\ m + (j - m + 1) - 1 = j
  BY <1>0
<1>6. \A e \in ToSet(t) : e \in {s[j] : j \in m..n}
  BY <1>1, <1>3, <1>4
<1>7. \A j \in m..n : s[j] \in ToSet(t)
  <2> SUFFICES ASSUME NEW j \in m..n PROVE s[j] \in ToSet(t)
    OBVIOUS
  <2> DEFINE i == j - m + 1
  <2>1. i \in 1..k /\ m + i - 1 = j
    BY <1>5
  <2> HIDE DEF i
  <2>2. t[i] = s[j]
    BY <1>1, <2>1
  <2> QED
    BY <1>3, <2>1, <2>2
<1>8. ToSet(t) = {s[j] : j \in m..n}
  BY <1>6, <1>7
<1> QED
  BY <1>8 DEF t

\* A text without what stands from a + 1 to b.
CutsTo(text, X, a, b, name, tail, rest) ==
  /\ name \in Seq(X) /\ Len(name) = a /\ tail \in Seq(X) /\ Len(tail) = Len(text) - b
  /\ \A i \in 1..(Len(text) - b) : tail[i] = text[b + i]
  /\ rest \in Seq(X) /\ Len(rest) = a + (Len(text) - b)
  /\ \A i \in 1..a : rest[i] = text[i]
  /\ \A i \in 1..(Len(text) - b) : rest[a + i] = text[b + i]
  /\ SubSeq(rest, 1, a) = name /\ SubSeq(rest, a + 1, Len(rest)) = tail
  /\ a = b => rest = text

\* The extras are cut out of the text with their brackets.
LEMMA CutOut ==
  ASSUME NEW X, NEW text \in Seq(X), NEW a \in 1..Len(text), NEW b \in 1..Len(text), a <= b,
         NEW name, name = SubSeq(text, 1, a), NEW tail, tail = SubSeq(text, b + 1, Len(text)),
         NEW rest, rest = name \o tail
  PROVE  CutsTo(text, X, a, b, name, tail, rest)
<1> DEFINE n == Len(text)
           m == n - b
<1>0. n \in Nat /\ a \in 1..n /\ b \in 1..n /\ m \in Nat /\ m = n - b /\ n = Len(text)
  OBVIOUS
<1> HIDE DEF m, n
<1>n. n - (b + 1) + 1 = m /\ a - 1 + 1 = a /\ b + 1 \in 1..n + 1 /\ n \in 0..n /\ b + 1 <= n + 1
      /\ 1 \in 1..n + 1 /\ a \in 0..n /\ 1 <= a + 1
  BY <1>0
<1>m. (\A i \in 1..m : b + 1 + i - 1 = b + i) /\ (\A i \in 1..a : 1 + i - 1 = i)
  BY <1>0
<1>1. tail \in Seq(X) /\ Len(tail) = m /\ \A i \in 1..m : tail[i] = text[b + i]
  <2>1. /\ tail \in Seq(X) /\ Len(tail) = n - (b + 1) + 1
        /\ \A i \in 1..(n - (b + 1) + 1) : tail[i] = text[b + 1 + i - 1]
    BY <1>0, <1>n, SubSeqIs
  <2> QED
    BY <1>n, <1>m, <2>1
<1>2. name \in Seq(X) /\ Len(name) = a /\ \A i \in 1..a : name[i] = text[i]
  <2>1. /\ name \in Seq(X) /\ Len(name) = a - 1 + 1
        /\ \A i \in 1..(a - 1 + 1) : name[i] = text[1 + i - 1]
    BY <1>0, <1>n, SubSeqIs
  <2> QED
    BY <1>n, <1>m, <2>1
<1>3. /\ rest \in Seq(X) /\ Len(rest) = a + m
      /\ \A i \in 1..a + m : rest[i] = IF i <= a THEN name[i] ELSE tail[i - a]
  <2>1. /\ name \o tail \in Seq(X) /\ Len(name \o tail) = Len(name) + Len(tail)
        /\ \A i \in 1..Len(name) + Len(tail) :
             (name \o tail)[i] = IF i <= Len(name) THEN name[i] ELSE tail[i - Len(name)]
    <3> HIDE DEF m, n
    <3>1. name \in Seq(X) /\ tail \in Seq(X)
      BY <1>1, <1>2
    <3> QED
      BY <3>1, ConcatProperties
  <2>2. Len(name) = a /\ Len(tail) = m
    BY <1>1, <1>2
  <2> QED
    BY <2>1, <2>2
<1>4. (\A i \in 1..a : rest[i] = name[i]) /\ (\A i \in 1..m : rest[a + i] = tail[i])
  <2>1. \A i \in 1..a : i \in 1..a + m /\ i <= a
    BY <1>0
  <2>2. ASSUME NEW i \in 1..m PROVE rest[a + i] = tail[i]
    <3> DEFINE j == a + i
    <3>1. j \in 1..a + m /\ ~(j <= a) /\ j - a = i
      BY <1>0
    <3> HIDE DEF j
    <3>2. rest[j] = tail[i]
      BY <1>3, <3>1
    <3> QED
      BY <3>2 DEF j
  <2> QED
    BY <1>3, <2>1, <2>2
<1>5. SubSeq(rest, 1, a) = name
  <2> DEFINE r == SubSeq(rest, 1, a)
  <2>1. 1 \in 1..Len(rest) + 1 /\ a \in 0..Len(rest) /\ 1 <= a + 1
    BY <1>0, <1>3
  <2>2. r \in Seq(X) /\ Len(r) = a - 1 + 1 /\ \A i \in 1..(a - 1 + 1) : r[i] = rest[1 + i - 1]
    BY <1>3, <2>1, SubSeqIs
  <2> HIDE DEF r
  <2>3. Len(r) = a /\ \A i \in 1..a : r[i] = name[i]
    BY <1>n, <1>m, <1>4, <2>2
  <2>4. r = name
    BY <1>2, <2>2, <2>3, SeqEqual
  <2> QED
    BY <2>4 DEF r
<1>6. SubSeq(rest, a + 1, Len(rest)) = tail
  <2> DEFINE l == Len(rest)
             r == SubSeq(rest, a + 1, l)
  <2>1. l = a + m /\ l \in Nat
    BY <1>0, <1>3
  <2> HIDE DEF l
  <2>2. a + 1 \in 1..l + 1 /\ l \in 0..l /\ a + 1 <= l + 1 /\ l - (a + 1) + 1 = m
        /\ \A i \in 1..m : a + 1 + i - 1 = a + i
    BY <1>0, <2>1
  <2>3. r \in Seq(X) /\ Len(r) = l - (a + 1) + 1
        /\ \A i \in 1..(l - (a + 1) + 1) : r[i] = rest[a + 1 + i - 1]
    BY <1>3, <2>2, SubSeqIs DEF l
  <2> HIDE DEF r
  <2>4. Len(r) = m /\ \A i \in 1..m : r[i] = tail[i]
    BY <1>4, <2>2, <2>3
  <2>5. r = tail
    BY <1>1, <2>3, <2>4, SeqEqual
  <2> QED
    BY <2>5 DEF r, l
<1>7. ASSUME a = b PROVE rest = text
  <2>1. Len(rest) = Len(text) /\ \A i \in 1..n : rest[i] = text[i]
    <3>1. Len(rest) = n
      BY <1>0, <1>3, <1>7
    <3>2. ASSUME NEW i \in 1..n PROVE rest[i] = text[i]
      <4>1. CASE i <= a
        BY <1>0, <1>2, <1>4, <4>1
      <4>2. CASE ~(i <= a)
        <5> DEFINE j == i - a
        <5>1. j \in 1..m /\ a + j = i /\ b + j = i
          BY <1>0, <1>7, <4>2
        <5> HIDE DEF j
        <5>2. rest[a + j] = tail[j] /\ tail[j] = text[b + j]
          BY <1>1, <1>4, <5>1
        <5> QED
          BY <5>1, <5>2
      <4> QED
        BY <4>1, <4>2
    <3> QED
      BY <1>0, <3>1, <3>2
  <2> QED
    BY <1>0, <1>3, <2>1, SeqEqual
<1>8. (\A i \in 1..a : rest[i] = text[i]) /\ (\A i \in 1..m : rest[a + i] = text[b + i])
  BY <1>1, <1>2, <1>4
<1> QED
  BY <1>0, <1>1, <1>2, <1>3, <1>5, <1>6, <1>7, <1>8 DEF CutsTo

LEMMA TokensDiffer ==
  /\ LeftBracket \notin Operators /\ RightBracket \notin Operators /\ LeftBracket # RightBracket
  /\ LeftBracket \in Brackets /\ RightBracket \in Brackets
  BY Zenon DEF Operators, Brackets, LeftBracket, RightBracket

\* Where the brackets are.
LEMMA BracketsAre ==
  ASSUME NEW text \in Seq(STRING), NEW a \in 1..Len(text), NEW b \in 1..Len(text),
         \A i \in 1..a : text[i] \notin Brackets,
         \A i \in b + 1..Len(text) : text[i] \notin Brackets
  PROVE  /\ a = b => FirstOf(text, {LeftBracket}) = 0 /\ FirstOf(text, {RightBracket}) = 0
         /\ /\ a + 1 < b /\ text[a + 1] = LeftBracket /\ text[b] = RightBracket
            /\ \A i \in a + 2..b - 1 : text[i] \notin Brackets
            => FirstOf(text, {LeftBracket}) = a + 1 /\ FirstOf(text, {RightBracket}) = b
<1> DEFINE n == Len(text)
<1>0. n \in Nat /\ a \in 1..n /\ b \in 1..n /\ n = Len(text)
  OBVIOUS
<1> HIDE DEF n
<1>1. ASSUME a = b
      PROVE  FirstOf(text, {LeftBracket}) = 0 /\ FirstOf(text, {RightBracket}) = 0
  <2>1. \A i \in 1..n : i \in 1..a \/ i \in b + 1..n
    BY <1>0, <1>1
  <2>2. \A i \in 1..n : text[i] \notin Brackets
    BY <1>0, <2>1
  <2>3. \A i \in 1..n : text[i] \notin {LeftBracket} /\ text[i] \notin {RightBracket}
    BY <2>2, TokensDiffer
  <2> QED
    BY <1>0, <2>3, FirstOfIs
<1>2. ASSUME a + 1 < b, text[a + 1] = LeftBracket, text[b] = RightBracket,
             \A i \in a + 2..b - 1 : text[i] \notin Brackets
      PROVE  FirstOf(text, {LeftBracket}) = a + 1 /\ FirstOf(text, {RightBracket}) = b
  <2>1. FirstOf(text, {LeftBracket}) = a + 1
    <3>1. a + 1 \in 1..n /\ (a + 1) - 1 = a
      BY <1>0, <1>2
    <3>2. text[a + 1] \in {LeftBracket} /\ \A i \in 1..(a + 1) - 1 : text[i] \notin {LeftBracket}
      BY <1>2, <3>1, TokensDiffer
    <3> QED
      BY <1>0, <3>1, <3>2, FirstOfIs
  <2>2. FirstOf(text, {RightBracket}) = b
    <3>1. \A i \in 1..b - 1 : i \in 1..a \/ i = a + 1 \/ i \in a + 2..b - 1
      BY <1>0, <1>2
    <3>2. \A i \in 1..b - 1 : text[i] \notin {RightBracket}
      BY <1>2, <3>1, TokensDiffer
    <3>3. b \in 1..n /\ text[b] \in {RightBracket}
      BY <1>0, <1>2
    <3> QED
      BY <1>0, <3>2, <3>3, FirstOfIs
  <2> QED
    BY <2>1, <2>2
<1> QED
  BY <1>1, <1>2

\* What PMG reads where pip reads a name up to a, extras up to b and ranges behind.
LEMMA PypiRead ==
  ASSUME NEW text \in Seq(STRING), NEW a \in 1..Len(text), NEW b \in 1..Len(text), NEW extras,
         \A i \in 1..a : text[i] \notin Operators /\ text[i] \notin Brackets,
         \/ a = b /\ extras = {}
         \/ /\ a + 1 < b /\ text[a + 1] = LeftBracket /\ text[b] = RightBracket
            /\ \A i \in a + 2..b - 1 : text[i] \notin Brackets
            /\ extras = {text[i] : i \in a + 2..b - 1} \ {Comma},
         b < Len(text) => text[b + 1] \in Operators,
         \A i \in b + 1..Len(text) : text[i] \notin Brackets
  PROVE  SpecOf(PypiParsePackageInfo(text), SubSeq(text, 1, a), extras,
                SubSeq(text, b + 1, Len(text)))
<1> DEFINE n == Len(text)
           name == SubSeq(text, 1, a)
           tail == SubSeq(text, b + 1, n)
           rest == name \o tail
           inside == IF a = b THEN <<>> ELSE SubSeq(text, a + 2, b - 1)
           place == FirstOf(rest, Operators)
           read == PypiParsePackageInfo(text)
           open == FirstOf(text, {LeftBracket})
           close == FirstOf(text, {RightBracket})
<1>0. n \in Nat /\ a \in 1..n /\ b \in 1..n /\ a <= b /\ n = Len(text)
  OBVIOUS
<1>1. /\ name \in Seq(STRING) /\ Len(name) = a /\ tail \in Seq(STRING) /\ Len(tail) = n - b
      /\ \A i \in 1..(n - b) : tail[i] = text[b + i]
      /\ rest \in Seq(STRING) /\ Len(rest) = a + (n - b)
      /\ \A i \in 1..a : rest[i] = text[i]
      /\ \A i \in 1..(n - b) : rest[a + i] = text[b + i]
      /\ SubSeq(rest, 1, a) = name /\ SubSeq(rest, a + 1, Len(rest)) = tail
      /\ a = b => rest = text
  <2>1. /\ name = SubSeq(text, 1, a) /\ tail = SubSeq(text, b + 1, Len(text)) /\ rest = name \o tail
        /\ n = Len(text) /\ a <= b
    BY <1>0
  <2> HIDE DEF name, tail, rest, n
  <2>2. CutsTo(text, STRING, a, b, name, tail, rest)
    BY <2>1, CutOut
  <2> QED
    BY <2>1, <2>2 DEF CutsTo
<1>2. /\ a = b => open = 0 /\ close = 0
      /\ a # b => open = a + 1 /\ close = b
  BY BracketsAre
<1>3. a # b => a + 1 < b
  OBVIOUS
<1>4. extras = ToSet(inside) \ {Comma}
  <2>1. CASE a = b
    <3>1. inside = <<>> /\ extras = {}
      BY <1>0, <2>1
    <3>2. ToSet(<<>>) = {}
      BY DEF ToSet
    <3> HIDE DEF inside
    <3> QED
      BY <3>1, <3>2
  <2>2. CASE a # b
    <3>1. a + 2 \in 1..n + 1 /\ b - 1 \in 0..n /\ a + 2 <= b - 1 + 1
      BY <1>0, <1>3, <2>2
    <3>2. inside = SubSeq(text, a + 2, b - 1)
      BY <2>2
    <3> HIDE DEF inside
    <3>3. ToSet(inside) = {text[j] : j \in a + 2..b - 1}
      BY <1>0, <3>1, <3>2, SubSeqSet
    <3> QED
      BY <2>2, <3>3
  <2> QED
    BY <2>1, <2>2
<1>5. \/ /\ open = 0 /\ close = 0 /\ inside = <<>> /\ rest = text
      \/ /\ open # 0 /\ close # 0 /\ open < close /\ inside = SubSeq(text, open + 1, close - 1)
         /\ rest = SubSeq(text, 1, open - 1) \o SubSeq(text, close + 1, n)
  <2>1. CASE a = b
    BY <1>1, <1>2, <2>1
  <2>2. CASE a # b
    <3> HIDE DEF open, close, n
    <3>1. open + 1 = a + 2 /\ open - 1 = a /\ close = b /\ open # 0 /\ close # 0 /\ open < close
      BY <1>0, <1>2, <1>3, <2>2
    <3>2. inside = SubSeq(text, a + 2, b - 1)
      BY <2>2
    <3> QED
      BY <3>1, <3>2
  <2> QED
    BY <2>1, <2>2
<1>o. /\ \A i \in 1..a : text[i] \notin Operators
      /\ b # n => text[b + 1] \in Operators
  BY <1>0
<1> HIDE DEF n, rest, inside, open, close, read, name, tail
<1>6. place = IF b = n THEN 0 ELSE a + 1
  <2>1. \A i \in 1..a : rest[i] \notin Operators
    BY <1>1, <1>o
  <2>2. CASE b = n
    <3>1. Len(rest) = a
      BY <1>0, <1>1, <2>2
    <3>2. \A i \in 1..Len(rest) : rest[i] \notin Operators
      BY <2>1, <3>1
    <3> QED
      BY <1>1, <2>2, <3>2, FirstOfIs
  <2>3. CASE b # n
    <3>0. 1 \in 1..(n - b)
      BY <1>0, <2>3
    <3>1. rest[a + 1] = text[b + 1]
      BY <1>1, <3>0
    <3>2. a + 1 \in 1..Len(rest) /\ (a + 1) - 1 = a
      BY <1>0, <1>1, <3>0
    <3>3. rest[a + 1] \in Operators /\ \A i \in 1..(a + 1) - 1 : rest[i] \notin Operators
      BY <1>o, <2>1, <2>3, <3>1, <3>2
    <3> QED
      BY <1>1, <2>3, <3>2, <3>3, FirstOfIs
  <2> QED
    BY <2>2, <2>3
<1>7. /\ place = 0 => SpecOf(read, rest, extras, <<>>)
      /\ place # 0 /\ place # 1 =>
           SpecOf(read, SubSeq(rest, 1, place - 1), extras, SubSeq(rest, place, Len(rest)))
  <2>1. open = FirstOf(text, {LeftBracket}) /\ close = FirstOf(text, {RightBracket})
        /\ place = FirstOf(rest, Operators) /\ read = PypiParsePackageInfo(text)
    BY DEF open, close, read
  <2>2. \/ /\ open = 0 /\ close = 0 /\ inside = <<>> /\ rest = text
        \/ /\ open # 0 /\ close # 0 /\ open < close /\ inside = SubSeq(text, open + 1, close - 1)
           /\ rest = SubSeq(text, 1, open - 1) \o SubSeq(text, close + 1, Len(text))
    BY <1>0, <1>5
  <2> QED
    BY <1>4, <2>1, <2>2, PypiForms
<1> HIDE DEF place
<1>8. SpecOf(read, name, extras, tail)
  <2>1. CASE b = n
    <3>1. place = 0
      BY <1>6, <2>1
    <3>2. tail = <<>>
      BY <1>0, <1>1, <2>1
    <3>3. rest = name
      <4>1. Len(rest) = a /\ SubSeq(rest, 1, a) = name
        BY <1>0, <1>1, <2>1
      <4>2. SubSeq(rest, 1, Len(rest)) = rest
        BY <1>1
      <4> QED
        BY <4>1, <4>2
    <3> QED
      BY <1>7, <3>1, <3>2, <3>3
  <2>2. CASE b # n
    <3>1. place = a + 1 /\ place # 0 /\ place # 1 /\ place - 1 = a
      BY <1>0, <1>6, <2>2
    <3> QED
      BY <1>1, <1>7, <3>1
  <2> QED
    BY <2>1, <2>2
<1> QED
  BY <1>0, <1>8 DEF name, tail, read

-----------------------------------------------------------------------------
(* What a version has to meet, and the release that is chosen                *)

\* What a wanted version gets is the latest release within the ranges.
ServesRanges(wanted, ranges) ==
  \A v \in Matching(wanted) :
    /\ \A r \in ranges : Allows(r, v)
    /\ \/ v \notin Releases
       \/ \A u \in Releases : (\A r \in ranges : Allows(r, u)) => ~Before(v, u)

\* LinesAssumption.
LEMMA ReleasesAre == \A v \in Releases : v \in Release
  BY LinesAssumption DEF Release

\* BestMatching: no release within the bounds is later.
LEMMA FitServes ==
  ASSUME NEW wanted, NEW ranges, NEW set, wanted.exact = <<>>,
         (wanted.latest /\ set = {}) \/ (~wanted.latest /\ wanted.bounds = set),
         \A v \in Releases : Fit(set, v) <=> \A r \in ranges : Allows(r, v)
  PROVE  ServesRanges(wanted, ranges)
<1>1. Matching(wanted) = BestMatching(Releases, set)
  <2>1. CASE wanted.latest /\ set = {}
    BY <2>1, Zenon DEF Matching
  <2>2. CASE ~wanted.latest /\ wanted.bounds = set
    BY <2>2, Zenon DEF Matching
  <2> QED
    BY <2>1, <2>2
<1>2. \A v \in BestMatching(Releases, set) :
        v \in Releases /\ Fit(set, v) /\ \A u \in Releases : Fit(set, u) => ~Before(v, u)
  BY DEF BestMatching, Fit
<1> QED
  BY <1>1, <1>2 DEF ServesRanges

\* An exact version is its own, whether or not PyPI has it.
LEMMA ExactServes ==
  ASSUME NEW wanted, NEW ranges, NEW w \in Release, w # <<>>, wanted.exact = w,
         ranges = {[op |-> "==", version |-> w]}
  PROVE  ServesRanges(wanted, ranges)
<1>1. Matching(wanted) = {w}
  BY Zenon DEF Matching
<1>2. \A v, r : r \in ranges => (Allows(r, v) <=> Same(v, w))
  <2>1. \A v : Allows([op |-> "==", version |-> w], v) <=> Same(v, w)
    <3> DEFINE r == [op |-> "==", version |-> w]
    <3>1. r.op = "==" /\ r.version = w
      OBVIOUS
    <3> HIDE DEF r
    <3>2. \A v : Allows(r, v) <=> Same(v, w)
      BY <3>1, Zenon DEF Allows
    <3> QED
      BY <3>2 DEF r
  <2> QED
    BY <2>1
<1>3. Same(w, w)
  BY DEF Same
<1>4. ASSUME NEW u \in Releases, Same(u, w) PROVE ~Before(w, u)
  <2>1. /\ At(w, 1) \in Nat /\ At(w, 2) \in Nat /\ At(w, 3) \in Nat /\ At(w, 4) \in Nat
    BY AtIsNat
  <2>2. At(u, 1) = At(w, 1) /\ At(u, 2) = At(w, 2) /\ At(u, 3) = At(w, 3) /\ At(u, 4) = At(w, 4)
    BY <1>4, OrderIs
  <2>3. Before(w, u) <=>
          \/ At(w, 1) < At(u, 1)
          \/ At(w, 1) = At(u, 1) /\ At(w, 2) < At(u, 2)
          \/ At(w, 1) = At(u, 1) /\ At(w, 2) = At(u, 2) /\ At(w, 3) < At(u, 3)
          \/ /\ At(w, 1) = At(u, 1) /\ At(w, 2) = At(u, 2) /\ At(w, 3) = At(u, 3)
             /\ At(w, 4) < At(u, 4)
    BY OrderIs
  <2> QED
    BY <2>1, <2>2, <2>3
<1>5. \E r : r \in ranges
  OBVIOUS
<1> QED
  BY <1>1, <1>2, <1>3, <1>4, <1>5 DEF ServesRanges

Plains == {">=", "<=", "!=", ">", "<"}

LEMMA PlainIsMeant ==
  ASSUME NEW op \in Plains, NEW w, NEW v
  PROVE  Allows([op |-> op, version |-> w], v) <=> Meets(v, Bound(op, w))
<1> DEFINE r == [op |-> op, version |-> w]
<1>1. r.op = op
  OBVIOUS
<1>2. r = Bound(op, w)
  BY DEF Bound
<1>3. op # "^" /\ op # "~" /\ op # "~=" /\ op # "*" /\ op # "=="
  BY Zenon DEF Plains
<1> HIDE DEF r
<1>4. Allows(r, v) = Meets(v, r)
  BY <1>1, <1>3, Zenon DEF Allows
<1> QED
  BY <1>2, <1>4 DEF r

WantedFrom(wanted, c, more) ==
  /\ c # <<>> /\ c[1] = "==" => wanted.exact = Numbers[c[2]]
  /\ c # <<>> /\ c[1] # "==" =>
       /\ wanted.exact = <<>> /\ wanted.bounds = BoundsOf(c) /\ wanted.latest = (BoundsOf(c) = {})
  /\ c = <<>> =>
       wanted.exact = <<>> /\ wanted.bounds = more /\ wanted.latest = (more = {})

LEMMA WantedForms ==
  ASSUME NEW spec, NEW c, spec.constraint = c, NEW more
  PROVE  WantedFrom(Wanted(spec, more), c, more)
<1>1. ASSUME c # <<>>, c[1] = "==" PROVE Wanted(spec, more).exact = Numbers[c[2]]
  <2>1. Wanted(spec, more) = [exact |-> Numbers[c[2]], bounds |-> {}, latest |-> FALSE]
    BY <1>1, Zenon DEF Wanted
  <2> QED
    BY <2>1
<1>2. ASSUME c # <<>>, c[1] # "=="
      PROVE  /\ Wanted(spec, more).exact = <<>> /\ Wanted(spec, more).bounds = BoundsOf(c)
             /\ Wanted(spec, more).latest = (BoundsOf(c) = {})
  <2>1. Wanted(spec, more) = [exact |-> <<>>, bounds |-> BoundsOf(c), latest |-> BoundsOf(c) = {}]
    BY <1>2, Zenon DEF Wanted
  <2> QED
    BY <2>1
<1>3. ASSUME c = <<>>
      PROVE  /\ Wanted(spec, more).exact = <<>> /\ Wanted(spec, more).bounds = more
             /\ Wanted(spec, more).latest = (more = {})
  <2>1. Wanted(spec, more) = [exact |-> <<>>, bounds |-> more, latest |-> more = {}]
    BY <1>3, Zenon DEF Wanted
  <2> QED
    BY <2>1
<1> QED
  BY <1>1, <1>2, <1>3 DEF WantedFrom

-----------------------------------------------------------------------------
(* The ranges of pip                                                         *)

\* The ranges behind b.
RangesFrom(text, b) ==
  {[op |-> text[i], version |-> Numbers[text[i + 1]]] :
     i \in {j \in b + 1..Len(text) : text[j] \in Operators}}

\* The ranges of a text serve as bounds: Wanted.
LEMMA RangesServe ==
  ASSUME NEW text \in Seq(STRING), NEW b \in 1..Len(text),
         b < Len(text) => text[b + 1] \in Operators,
         \A i \in b + 1..Len(text) : text[i] \in Operators =>
           /\ i < Len(text) /\ text[i + 1] \in DOMAIN Numbers
           /\ text[i] \in {"==", "~="} => i = b + 1 /\ Len(text) = b + 2
           /\ text[i] = "==" => Numbers[text[i + 1]] # <<>>
           /\ text[i] = "~=" => Len(Numbers[text[i + 1]]) \in 2..4,
         NEW c, c = SubSeq(text, b + 1, Len(text)), NEW spec, spec.constraint = c, NEW more
  PROVE  /\ c = <<>> <=> RangesFrom(text, b) = {}
         /\ c # <<>> => ServesRanges(Wanted(spec, more), RangesFrom(text, b))
<1> DEFINE n == Len(text)
           m == n - b
           J == {j \in b + 1..n : text[j] \in Operators}
           R(i) == [op |-> text[i], version |-> Numbers[text[i + 1]]]
           ranges == RangesFrom(text, b)
           wanted == Wanted(spec, more)
<1>0. n \in Nat /\ b \in 1..n /\ m \in Nat /\ m = n - b /\ n = Len(text)
  OBVIOUS
<1>r. ranges = {R(i) : i \in J}
  BY DEF RangesFrom
<1>w. /\ c # <<>> /\ c[1] = "==" => wanted.exact = Numbers[c[2]]
      /\ c # <<>> /\ c[1] # "==" =>
           /\ wanted.exact = <<>> /\ wanted.bounds = BoundsOf(c)
           /\ wanted.latest = (BoundsOf(c) = {})
  <2>1. WantedFrom(wanted, c, more)
    BY WantedForms
  <2> HIDE DEF wanted
  <2> QED
    BY <2>1 DEF WantedFrom
<1> HIDE DEF n, m, ranges, wanted
<1>1. c \in Seq(STRING) /\ Len(c) = m /\ \A i \in 1..m : c[i] = text[b + i]
  <2>0. b + 1 \in 1..n + 1 /\ n \in 0..n /\ b + 1 <= n + 1
    BY <1>0
  <2>1. /\ c \in Seq(STRING) /\ Len(c) = n - (b + 1) + 1
        /\ \A i \in 1..(n - (b + 1) + 1) : c[i] = text[b + 1 + i - 1]
    BY <1>0, <2>0, SubSeqIs
  <2>2. n - (b + 1) + 1 = m /\ \A i \in 1..m : b + 1 + i - 1 = b + i
    BY <1>0
  <2> QED
    BY <2>1, <2>2
<1>2. \A w \in DOMAIN Numbers : Numbers[w] \in Release
  BY LinesAssumption DEF Release
<1>3. \A i \in J : /\ i \in b + 1..n /\ text[i] \in Operators /\ i < n /\ text[i + 1] \in DOMAIN Numbers
                   /\ text[i] \in {"==", "~="} => i = b + 1 /\ n = b + 2
                   /\ text[i] = "==" => Numbers[text[i + 1]] # <<>>
                   /\ text[i] = "~=" => Len(Numbers[text[i + 1]]) \in 2..4
  BY <1>0
<1>4. b # n => b + 1 \in J
  BY <1>0
<1>5. b = n => J = {}
  BY <1>0
<1> HIDE DEF J
<1>6. CASE b = n
  <2>1. c = <<>>
    BY <1>0, <1>1, <1>6
  <2>2. ranges = {}
    BY <1>5, <1>6, <1>r
  <2> QED
    BY <2>1, <2>2 DEF ranges
<1>7. CASE b # n
  <2>1. c # <<>> /\ ranges # {} /\ c[1] = text[b + 1]
    <3>1. 1 \in 1..m /\ m # 0
      BY <1>0, <1>7
    <3>2. c # <<>> /\ c[1] = text[b + 1]
      BY <1>1, <3>1
    <3>3. ranges # {}
      BY <1>4, <1>7, <1>r
    <3> QED
      BY <3>2, <3>3
  <2>2. c[1] \in {"==", "~="} => c[2] = text[b + 2] /\ J = {b + 1} /\ b + 1 + 1 = b + 2
    <3> SUFFICES ASSUME c[1] \in {"==", "~="} PROVE c[2] = text[b + 2] /\ J = {b + 1} /\ b + 1 + 1 = b + 2
      OBVIOUS
    <3>1. n = b + 2
      BY <1>3, <1>4, <1>7, <2>1
    <3>2. 2 \in 1..m
      BY <1>0, <3>1
    <3>3. \A i \in J : i = b + 1
      BY <1>0, <1>3, <3>1
    <3> QED
      <4>1. c[2] = text[b + 2]
        BY <1>1, <3>2
      <4>2. J = {b + 1}
        BY <1>4, <1>7, <3>3
      <4>3. b + 1 + 1 = b + 2
        BY <1>0
      <4> QED
        BY <4>1, <4>2, <4>3
  <2>3. CASE c[1] = "=="
    <3> DEFINE w == Numbers[text[b + 2]]
    <3>1. w \in Release /\ w # <<>>
      BY <1>2, <1>3, <1>4, <1>7, <2>1, <2>2, <2>3
    <3>2. wanted.exact = w
      BY <1>w, <2>1, <2>2, <2>3
    <3>3. ranges = {[op |-> "==", version |-> w]}
      BY <1>r, <2>1, <2>2, <2>3
    <3> HIDE DEF w
    <3>4. ServesRanges(wanted, ranges)
      BY <3>1, <3>2, <3>3, ExactServes
    <3> QED
      BY <2>1, <3>4 DEF ranges, wanted
  <2>4. CASE c[1] = "~="
    <3> DEFINE w == Numbers[text[b + 2]]
               set == CompatibleRelease(w)
    <3>1. w \in Release /\ Len(w) \in 2..4
      BY <1>2, <1>3, <1>4, <1>7, <2>1, <2>2, <2>4
    <3>2. BoundsOf(c) = set
      BY <2>2, <2>4 DEF BoundsOf
    <3>3. "~=" # "=="
      OBVIOUS
    <3>4. wanted.exact = <<>> /\ wanted.bounds = BoundsOf(c) /\ wanted.latest = (BoundsOf(c) = {})
      BY <1>w, <2>1, <2>4, <3>3
    <3>5. ranges = {[op |-> "~=", version |-> w]}
      BY <1>r, <2>1, <2>2, <2>4
    <3> HIDE DEF w, set
    <3>6. \A v \in Releases : Fit(set, v) <=> Meant("~=", w, v)
      BY <3>1, ReleasesAre, CompatibleIsMeant DEF set
    <3>7. \A v \in Releases : Fit(set, v) <=> \A r \in ranges : Allows(r, v)
      BY <3>5, <3>6 DEF Meant
    <3>8. (wanted.latest /\ set = {}) \/ (~wanted.latest /\ wanted.bounds = set)
      BY <3>2, <3>4
    <3>9. ServesRanges(wanted, ranges)
      BY <3>4, <3>7, <3>8, FitServes
    <3> QED
      BY <2>1, <3>9 DEF ranges, wanted
  <2>5. CASE c[1] # "==" /\ c[1] # "~="
    <3> DEFINE B(i) == Bound(text[i], Numbers[text[i + 1]])
               set == {B(i) : i \in J}
    <3>1. \A i \in J : text[i] \in Plains
      <4>1. \A i \in J : text[i] # "==" /\ text[i] # "~="
        BY <1>3, <2>1, <2>5
      <4>2. \A op \in Operators : op # "==" /\ op # "~=" => op \in Plains
        BY Zenon DEF Operators, Plains
      <4> QED
        BY <1>3, <4>1, <4>2
    <3>2. BoundsOf(c) = set
      <4> DEFINE K == {j \in 1..m : c[j] \in Operators}
                 C(i) == Bound(c[i], Numbers[c[i + 1]])
      <4>1. BoundsOf(c) = {C(i) : i \in K}
        BY <1>1, <2>5, Zenon DEF BoundsOf
      <4>2. \A i \in K : b + i \in J
        BY <1>0, <1>1 DEF J
      <4>3. \A j \in J : j - b \in K /\ b + (j - b) = j
        <5> SUFFICES ASSUME NEW j \in J PROVE j - b \in K /\ b + (j - b) = j
          OBVIOUS
        <5> DEFINE i == j - b
        <5>1. i \in 1..m /\ b + i = j
          <6>1. j \in b + 1..n
            BY <1>3
          <6> QED
            BY <1>0, <6>1
        <5> HIDE DEF i
        <5>2. c[i] \in Operators
          BY <1>1, <1>3, <5>1
        <5> QED
          BY <5>1, <5>2 DEF i
      <4>4. \A i \in K : C(i) = B(b + i)
        <5> SUFFICES ASSUME NEW i \in K PROVE C(i) = B(b + i)
          OBVIOUS
        <5>1. i \in 1..m /\ b + i \in J
          BY <4>2
        <5>2. b + i < n
          BY <1>3, <5>1
        <5>3. i + 1 \in 1..m /\ b + (i + 1) = b + i + 1
          BY <1>0, <5>1, <5>2
        <5>4. c[i] = text[b + i] /\ c[i + 1] = text[b + (i + 1)]
          BY <1>1, <5>1, <5>3
        <5> QED
          BY <5>3, <5>4
      <4> HIDE DEF B, C, K
      <4>5. \A j \in J : \E i \in K : C(i) = B(j)
        <5> SUFFICES ASSUME NEW j \in J PROVE \E i \in K : C(i) = B(j)
          OBVIOUS
        <5>1. j - b \in K /\ b + (j - b) = j
          BY <4>3
        <5>2. C(j - b) = B(b + (j - b))
          BY <4>4, <5>1
        <5> QED
          BY <5>1, <5>2
      <4>6. {C(i) : i \in K} = {B(j) : j \in J}
        BY <4>2, <4>4, <4>5
      <4> QED
        BY <4>1, <4>6
    <3>4. wanted.exact = <<>> /\ wanted.bounds = BoundsOf(c) /\ wanted.latest = (BoundsOf(c) = {})
      BY <1>w, <2>1, <2>5
    <3>5. \A v, i : i \in J => (Allows(R(i), v) <=> Meets(v, B(i)))
      BY <3>1, PlainIsMeant
    <3> HIDE DEF B, R
    <3>6. \A v : Fit(set, v) <=> \A i \in J : Meets(v, B(i))
      BY DEF Fit
    <3>7. \A v \in Releases : Fit(set, v) <=> \A r \in ranges : Allows(r, v)
      BY <1>r, <3>5, <3>6
    <3> HIDE DEF set
    <3>8. (wanted.latest /\ set = {}) \/ (~wanted.latest /\ wanted.bounds = set)
      BY <3>2, <3>4
    <3>9. ServesRanges(wanted, ranges)
      BY <3>4, <3>7, <3>8, FitServes
    <3> QED
      BY <2>1, <3>9 DEF ranges, wanted
  <2> QED
    BY <2>3, <2>4, <2>5
<1> QED
  BY <1>6, <1>7

\* What is read of a package, and what its version has to meet.
ReadAs(spec, more, name, extras, ranges) ==
  /\ spec.ok /\ spec.name = name /\ spec.extras = extras
  /\ (spec.constraint # <<>> \/ more # {}) <=> ranges # {}
  /\ ServesRanges(Wanted(spec, more), ranges)

\* What pip names is read so, and its version wanted within its ranges.
LEMMA PipIs ==
  ASSUME NEW text \in Seq(STRING), NEW name, NEW extras, NEW ranges,
         NamedByPip(text, name, extras, ranges), NEW spec, spec = PypiParsePackageInfo(text)
  PROVE  /\ ReadAs(spec, {}, name, extras, ranges)
         /\ ranges = {} => spec.constraint = <<>>
<1>0. DOMAIN text = 1..Len(text) /\ Len(text) \in Nat
  OBVIOUS
<1>1. PICK a \in 1..Len(text), b \in 1..Len(text) :
    /\ name = SubSeq(text, 1, a) /\ \A i \in 1..a : text[i] \notin Operators \cup Brackets
    /\ \/ a = b /\ extras = {}
       \/ /\ a + 1 < b /\ text[a + 1] = LeftBracket /\ text[b] = RightBracket
          /\ \A i \in a + 2..b - 1 : text[i] \notin Brackets
          /\ extras = {text[i] : i \in a + 2..b - 1} \ {Comma}
    /\ b < Len(text) => text[b + 1] \in Operators
    /\ \A i \in b + 1..Len(text) :
         /\ text[i] \notin Brackets
         /\ text[i] \in Operators =>
              /\ i < Len(text) /\ text[i + 1] \in DOMAIN Numbers
              /\ text[i] \in {"==", "~="} => i = b + 1 /\ Len(text) = b + 2
              /\ text[i] = "==" => Numbers[text[i + 1]] # <<>>
              /\ text[i] = "~=" => Len(Numbers[text[i + 1]]) \in 2..4
    /\ ranges = {[op |-> text[i], version |-> Numbers[text[i + 1]]] :
                   i \in {j \in b + 1..Len(text) : text[j] \in Operators}}
  BY <1>0, Zenon DEF NamedByPip
<1> DEFINE c == SubSeq(text, b + 1, Len(text))
<1>2. SpecOf(spec, name, extras, c)
  <2>1. \A i \in 1..a : text[i] \notin Operators /\ text[i] \notin Brackets
    BY <1>1
  <2>2. \A i \in b + 1..Len(text) : text[i] \notin Brackets
    BY <1>1
  <2> QED
    BY <1>1, <2>1, <2>2, PypiRead
<1>3. spec.ok /\ spec.name = name /\ spec.extras = extras /\ spec.constraint = c
  BY <1>2 DEF SpecOf
<1>4. /\ c = <<>> <=> RangesFrom(text, b) = {}
      /\ \A more : c # <<>> => ServesRanges(Wanted(spec, more), RangesFrom(text, b))
  BY <1>1, <1>3, RangesServe
<1>5. ranges = RangesFrom(text, b)
  BY <1>1 DEF RangesFrom
<1> HIDE DEF c
<1>6. ServesRanges(Wanted(spec, {}), ranges)
  <2>1. CASE c # <<>>
    BY <1>4, <1>5, <2>1
  <2>2. CASE c = <<>>
    <3>1. ranges = {}
      BY <1>4, <1>5, <2>2
    <3>2. Wanted(spec, {}).exact = <<>> /\ Wanted(spec, {}).latest = ({} = {})
      <4>1. WantedFrom(Wanted(spec, {}), c, {})
        BY <1>3, WantedForms
      <4> QED
        BY <2>2, <4>1 DEF WantedFrom
    <3>3. \A v \in Releases : Fit({}, v) <=> \A r \in ranges : Allows(r, v)
      BY <3>1 DEF Fit
    <3>4. Wanted(spec, {}).latest
      BY <3>2
    <3> DEFINE wanted == Wanted(spec, {})
               set == {}
    <3>5. wanted.exact = <<>> /\ wanted.latest /\ set = {}
          /\ \A v \in Releases : Fit(set, v) <=> \A r \in ranges : Allows(r, v)
      BY <3>2, <3>3, <3>4
    <3> HIDE DEF wanted, set
    <3>6. ServesRanges(wanted, ranges)
      BY <3>5, FitServes
    <3> QED
      BY <3>6 DEF wanted
  <2> QED
    BY <2>1, <2>2
<1>7. (spec.constraint # <<>> \/ {} # {}) <=> ranges # {}
  BY <1>3, <1>4, <1>5
<1> QED
  BY <1>3, <1>4, <1>5, <1>6, <1>7 DEF ReadAs

-----------------------------------------------------------------------------
(* The ranges of Poetry                                                      *)

LEMMA PoetryForms ==
  ASSUME NEW text, NEW place, place = FirstOf(text, {"^", "~", "*"}), NEW end,
         end = IF place > 1 /\ text[place - 1] = "@" THEN place - 2 ELSE place - 1,
         NEW s, s = PoetrySpec(text), s.spec.ok
  PROVE  /\ place = 0 => s.spec = PypiParsePackageInfo(text) /\ s.bounds = {}
         /\ place # 0 => /\ s.spec = PypiParsePackageInfo(SubSeq(text, 1, end))
                      /\ s.bounds = PoetryBounds(text[place], text[place + 1]) /\ s.bounds # {}
<1> DEFINE bad == text[1] \in {"@", "^", "~", "*"} \cup DOMAIN Numbers \/ "~=" \in ToSet(text)
           bounded == PoetryBounds(text[place], text[place + 1])
           front == PypiParsePackageInfo(SubSeq(text, 1, end))
<1>1. s = IF bad THEN [spec |-> NoSpec, bounds |-> {}]
          ELSE IF place = 0 THEN [spec |-> PypiParsePackageInfo(text), bounds |-> {}]
          ELSE [spec |-> IF bounded = {} THEN NoSpec ELSE front, bounds |-> bounded]
  BY Zenon DEF PoetrySpec
<1>2. ~NoSpec.ok
  BY DEF NoSpec
<1> HIDE DEF bad, bounded, front
<1>3. ~bad
  BY <1>1, <1>2
<1>4. CASE place = 0
  <2>1. s = [spec |-> PypiParsePackageInfo(text), bounds |-> {}]
    BY <1>1, <1>3, <1>4
  <2> QED
    BY <1>4, <2>1
<1>5. CASE place # 0
  <2>1. s = [spec |-> IF bounded = {} THEN NoSpec ELSE front, bounds |-> bounded]
    BY <1>1, <1>3, <1>5
  <2>2. s.bounds = bounded /\ s.spec = IF bounded = {} THEN NoSpec ELSE front
    BY <2>1
  <2>3. bounded # {}
    BY <1>2, <2>2
  <2> QED
    BY <1>5, <2>2, <2>3 DEF bounded, front
<1> QED
  BY <1>4, <1>5

\* Poetry's ranges are those of their bounds.
LEMMA PoetryBoundsMeant ==
  ASSUME NEW op \in PoetryOperators, NEW word, NEW w \in Release, w = Numbers[word],
         op = "^" => Len(w) > 0 /\ (w[1] = 0 => Len(w) = 3 \/ (Len(w) = 2 /\ w[2] # 0)),
         op = "~" => Len(w) > 0, op = "*" => Len(w) < 3, NEW v \in Release
  PROVE  Fit(PoetryBounds(op, word), v) <=> Meant(op, w, v)
<1>0. Len(w) \in Nat
  BY DEF Release
<1>1. /\ "^" # "~" /\ "^" # "*" /\ "~" # "^" /\ "~" # "*" /\ "*" # "^" /\ "*" # "~"
      /\ op = "^" \/ op = "~" \/ op = "*"
  BY DEF PoetryOperators
<1>2. CASE op = "^"
  <2>1. PoetryBounds(op, word) = Caret(w)
    BY <1>1, <1>2, Zenon DEF PoetryBounds
  <2> DEFINE n == Len(w)
  <2>2. n \in Nat \ {0} /\ (w[1] = 0 => n = 3 \/ (n = 2 /\ w[2] # 0))
    BY <1>0, <1>2
  <2> HIDE DEF n
  <2>3. Len(w) = n
    BY DEF n
  <2>4. Fit(Caret(w), v) <=> Meant("^", w, v)
    BY <2>2, <2>3, CaretIsMeant
  <2> QED
    BY <1>2, <2>1, <2>4
<1>3. CASE op = "~"
  <2>1. PoetryBounds(op, word) = Tilde(w)
    BY <1>1, <1>3, Zenon DEF PoetryBounds
  <2> DEFINE n == Len(w)
  <2>2. n \in Nat \ {0}
    BY <1>0, <1>3
  <2> HIDE DEF n
  <2>3. Len(w) = n
    BY DEF n
  <2>4. Fit(Tilde(w), v) <=> Meant("~", w, v)
    BY <2>2, <2>3, TildeIsMeant
  <2> QED
    BY <1>3, <2>1, <2>4
<1>4. CASE op = "*"
  <2>1. PoetryBounds(op, word) = Wildcard(w)
    BY <1>1, <1>4, Zenon DEF PoetryBounds
  <2> DEFINE n == Len(w)
  <2>a. n < 3
    BY <1>4, Zenon
  <2>b. n \in Nat
    BY <1>0
  <2> HIDE DEF n
  <2>2. n \in 0..2
    BY <2>a, <2>b
  <2>3. Len(w) = n
    BY DEF n
  <2>4. Fit(Wildcard(w), v) <=> Meant("*", w, v)
    BY <2>2, <2>3, WildcardIsMeant
  <2> QED
    BY <1>4, <2>1, <2>4
<1> QED
  BY <1>1, <1>2, <1>3, <1>4

\* The same of Poetry, which has ranges of its own.
LEMMA PoetryIs ==
  ASSUME NEW text \in Seq(STRING), NEW p, NamedByPoetry(text, p), NEW s, s = PoetrySpec(text),
         s.spec.ok
  PROVE  ReadAs(s.spec, s.bounds, p.name, p.extras, p.ranges)
<1>0. DOMAIN text = 1..Len(text) /\ Len(text) \in Nat /\ PoetryOperators = {"^", "~", "*"}
  BY DEF PoetryOperators
<1>1. CASE /\ \A i \in DOMAIN text : text[i] \notin PoetryOperators
           /\ NamedByPip(text, p.name, p.extras, p.ranges)
  <2>1. FirstOf(text, PoetryOperators) = 0
    BY <1>0, <1>1, FirstOfIs
  <2>2. s.spec = PypiParsePackageInfo(text) /\ s.bounds = {}
    BY <1>0, <2>1, PoetryForms
  <2> QED
    BY <1>1, <2>2, PipIs
<1>2. ASSUME NEW place \in 2..Len(text), place + 1 = Len(text), text[place] \in PoetryOperators,
             text[place + 1] \in DOMAIN Numbers, \A i \in 1..place - 1 : text[i] \notin PoetryOperators,
             NEW end, end = IF text[place - 1] = "@" THEN place - 2 ELSE place - 1,
             NamedByPip(SubSeq(text, 1, end), p.name, p.extras, {}),
             p.ranges = {[op |-> text[place], version |-> Numbers[text[place + 1]]]},
             NEW w, w = Numbers[text[place + 1]],
             text[place] = "^" => Len(w) > 0 /\ (w[1] = 0 => Len(w) = 3 \/ (Len(w) = 2 /\ w[2] # 0)),
             text[place] = "~" => Len(w) > 0,
             text[place] = "*" => Len(w) < 3
      PROVE  ReadAs(s.spec, s.bounds, p.name, p.extras, p.ranges)
  <2> DEFINE front == SubSeq(text, 1, end)
             op == text[place]
  <2>1. FirstOf(text, PoetryOperators) = place /\ place # 0 /\ place > 1
    <3>1. place \in 1..Len(text) /\ place # 0 /\ place > 1
      BY <1>0
    <3> QED
      BY <1>2, <3>1, FirstOfIs
  <2>2. s.spec = PypiParsePackageInfo(front) /\ s.bounds = PoetryBounds(text[place], text[place + 1])
        /\ s.bounds # {}
    <3>1. end = IF place > 1 /\ text[place - 1] = "@" THEN place - 2 ELSE place - 1
      BY <1>2, <2>1
    <3> QED
      BY <1>0, <2>1, <3>1, PoetryForms
  <2>3. front \in Seq(STRING)
    <3>1. 1 \in 1..Len(text) + 1 /\ end \in 0..Len(text) /\ 1 <= end + 1
      BY <1>0, <1>2
    <3> QED
      BY <3>1, SubSeqIs
  <2> HIDE DEF front
  <2>4. ReadAs(s.spec, {}, p.name, p.extras, {}) /\ s.spec.constraint = <<>>
    <3>1. NamedByPip(front, p.name, p.extras, {})
      BY <1>2 DEF front
    <3> DEFINE spec == PypiParsePackageInfo(front)
    <3>2. spec.ok /\ s.spec = spec
      BY <2>2
    <3> HIDE DEF spec
    <3>3. spec = PypiParsePackageInfo(front)
      BY DEF spec
    <3>4. ReadAs(spec, {}, p.name, p.extras, {}) /\ ({} = {} => spec.constraint = <<>>)
      BY <2>3, <3>1, <3>2, <3>3, PipIs
    <3> QED
      BY <3>2, <3>4
  <2>5. w \in Release
    BY <1>2, LinesAssumption DEF Release
  <2>6. \A v \in Releases : Fit(s.bounds, v) <=> Meant(op, w, v)
    BY <1>2, <2>2, <2>5, ReleasesAre, PoetryBoundsMeant
  <2>7. p.ranges = {[op |-> op, version |-> w]}
    BY <1>2
  <2> HIDE DEF op
  <2>8. \A v \in Releases : Fit(s.bounds, v) <=> \A r \in p.ranges : Allows(r, v)
    BY <2>6, <2>7 DEF Meant
  <2>9. WantedFrom(Wanted(s.spec, s.bounds), <<>>, s.bounds)
    BY <2>4, WantedForms
  <2> DEFINE wanted == Wanted(s.spec, s.bounds)
             set == s.bounds
             ranges == p.ranges
  <2> HIDE DEF wanted, set, ranges
  <2>10. wanted.exact = <<>> /\ ~wanted.latest /\ wanted.bounds = set
    BY <2>2, <2>9 DEF WantedFrom, wanted, set
  <2>11. \A v \in Releases : Fit(set, v) <=> \A r \in ranges : Allows(r, v)
    BY <2>8 DEF set, ranges
  <2>12. ServesRanges(wanted, ranges)
    BY <2>10, <2>11, FitServes
  <2>13. s.bounds # {} /\ p.ranges # {}
    BY <2>2, <2>7
  <2> QED
    BY <2>4, <2>12, <2>13 DEF ReadAs, wanted, ranges
<1>3. \/ /\ \A i \in DOMAIN text : text[i] \notin PoetryOperators
         /\ NamedByPip(text, p.name, p.extras, p.ranges)
      \/ \E place \in 2..Len(text) :
           /\ place + 1 = Len(text) /\ text[place] \in PoetryOperators /\ text[place + 1] \in DOMAIN Numbers
           /\ \A i \in 1..place - 1 : text[i] \notin PoetryOperators
           /\ NamedByPip(SubSeq(text, 1, IF text[place - 1] = "@" THEN place - 2 ELSE place - 1),
                         p.name, p.extras, {})
           /\ p.ranges = {[op |-> text[place], version |-> Numbers[text[place + 1]]]}
           /\ LET w == Numbers[text[place + 1]]
              IN /\ text[place] = "^" => Len(w) > 0 /\ (w[1] = 0 => Len(w) = 3 \/ (Len(w) = 2 /\ w[2] # 0))
                 /\ text[place] = "~" => Len(w) > 0
                 /\ text[place] = "*" => Len(w) < 3
  BY Zenon DEF NamedByPoetry
<1> QED
  BY <1>1, <1>2, <1>3

-----------------------------------------------------------------------------
(* Lockfiles, and the texts of PyPI's package managers                       *)

LEMMA LockForms ==
  ASSUME NEW manager, NEW args
  PROVE  LET uv     == manager = "uv" /\ args # <<>> /\ Is(args[1], {"sync"})
             pip    == /\ manager = "uv" /\ Len(args) >= 3 /\ Is(args[1], {"pip"})
                       /\ Is(args[2], {"sync"})
             poetry == manager = "poetry" /\ args # <<>> /\ Is(args[1], {"install"})
         IN /\ uv => FromLockfile(manager, args) = Lockfile("uv.lock")
            /\ pip /\ ~uv => FromLockfile(manager, args) =
                 [PlainCommand EXCEPT !.manifest = TRUE, !.files = {TextOf(args[3])}]
            /\ poetry => FromLockfile(manager, args) = Lockfile("poetry.lock")
            /\ ~uv /\ ~pip /\ ~poetry => FromLockfile(manager, args) = PlainCommand
<1> DEFINE uv     == manager = "uv" /\ args # <<>> /\ Is(args[1], {"sync"})
           pip    == manager = "uv" /\ Len(args) >= 3 /\ Is(args[1], {"pip"}) /\ Is(args[2], {"sync"})
           poetry == manager = "poetry" /\ args # <<>> /\ Is(args[1], {"install"})
           lock   == FromLockfile(manager, args)
<1>1. uv => lock = Lockfile("uv.lock")
  <2>1. "uv" # "poetry"
    OBVIOUS
  <2>2. Is(args[1], {"sync"}) => ~Is(args[1], {"pip"})
    BY DEF Is
  <2> QED
    BY <2>1, <2>2, Zenon DEF FromLockfile
<1>2. pip /\ ~uv => lock = [PlainCommand EXCEPT !.manifest = TRUE, !.files = {TextOf(args[3])}]
  <2>1. "uv" # "poetry"
    OBVIOUS
  <2> QED
    BY <2>1, Zenon DEF FromLockfile
<1>3. poetry => lock = Lockfile("poetry.lock")
  <2>1. "uv" # "poetry"
    OBVIOUS
  <2> QED
    BY <2>1, Zenon DEF FromLockfile
<1>4. ~uv /\ ~pip /\ ~poetry => lock = PlainCommand
  BY Zenon DEF FromLockfile
<1> QED
  BY <1>1, <1>2, <1>3, <1>4

\* A lockfile is what the package manager installs from.
LEMMA LockIs ==
  ASSUME NEW manager, NEW args \in Seq(Arguments), NEW lock, lock = FromLockfile(manager, args)
  PROVE  /\ lock.manifest \in BOOLEAN /\ (lock.manifest <=> IsLocked(manager, args))
         /\ lock.targets = <<>> /\ ~lock.failed /\ ~lock.harmless
<1> DEFINE uv     == manager = "uv" /\ args # <<>> /\ Is(args[1], {"sync"})
           pip    == manager = "uv" /\ Len(args) >= 3 /\ Is(args[1], {"pip"}) /\ Is(args[2], {"sync"})
           poetry == manager = "poetry" /\ args # <<>> /\ Is(args[1], {"install"})
<1>1. IsLocked(manager, args) <=> uv \/ pip \/ poetry
  <2>1. Len(args) > 2 <=> Len(args) >= 3
    OBVIOUS
  <2>2. Len(args) >= 3 => args # <<>>
    OBVIOUS
  <2> QED
    BY <2>1, <2>2, Zenon DEF IsLocked
<1>2. \A files : LET q == [PlainCommand EXCEPT !.manifest = TRUE, !.files = files]
                 IN q.manifest = TRUE /\ q.targets = <<>> /\ ~q.failed /\ ~q.harmless
  BY DEF PlainCommand
<1>3. \A name : LET q == Lockfile(name)
                IN q.manifest = TRUE /\ q.targets = <<>> /\ ~q.failed /\ ~q.harmless
  BY DEF PlainCommand, Lockfile
<1>4. /\ uv => lock = Lockfile("uv.lock")
      /\ pip /\ ~uv => lock = [PlainCommand EXCEPT !.manifest = TRUE, !.files = {TextOf(args[3])}]
      /\ poetry => lock = Lockfile("poetry.lock")
      /\ ~uv /\ ~pip /\ ~poetry => lock = PlainCommand
  BY LockForms
<1> HIDE DEF uv, pip, poetry
<1>5. CASE uv \/ pip \/ poetry
  BY <1>1, <1>2, <1>3, <1>4, <1>5
<1>6. CASE ~(uv \/ pip \/ poetry)
  BY <1>1, <1>4, <1>6, PlainCommandIs
<1> QED
  BY <1>5, <1>6

\* Who reads by which grammar.
LEMMA PypiNames ==
  ASSUME NEW manager \in Pypis, NEW text
  PROVE  /\ \A p : NamedBy(manager, text, p) <=>
              IF manager = "poetry" THEN NamedByPoetry(text, p)
              ELSE NamedByPip(text, p.name, p.extras, p.ranges)
         /\ Refuses(manager, text) <=>
              IF manager = "poetry" THEN ~PoetrySpec(text).spec.ok
              ELSE ~PypiParsePackageInfo(text).ok
<1>1. manager \notin Npms \cup Executors
  BY Zenon DEF Npms, Executors, Pypis
<1>2. CASE manager = "poetry"
  <2>1. "poetry" \notin {"pip", "pip3", "uv"}
    OBVIOUS
  <2> QED
    BY <1>1, <1>2, <2>1, Zenon DEF NamedBy, Refuses
<1>3. CASE manager # "poetry"
  <2>1. manager \in {"pip", "pip3", "uv"}
    BY <1>3 DEF Pypis
  <2> QED
    BY <1>1, <1>3, <2>1, Zenon DEF NamedBy, Refuses
<1> QED
  BY <1>2, <1>3

\* What pip, uv and Poetry name is what PMG reads.
LEMMA PypiSpecIs ==
  ASSUME NEW manager \in Pypis, NEW text \in Seq(STRING),
         NEW s, s = IF manager = "poetry" THEN PoetrySpec(text)
                    ELSE [spec |-> PypiParsePackageInfo(text), bounds |-> {}]
  PROVE  /\ s.spec.ok <=> ~Refuses(manager, text)
         /\ \A p : s.spec.ok /\ NamedBy(manager, text, p) =>
              ReadAs(s.spec, s.bounds, p.name, p.extras, p.ranges)
<1>1. CASE manager = "poetry"
  <2>1. s = PoetrySpec(text)
    BY <1>1
  <2>2. s.spec.ok <=> ~Refuses(manager, text)
    BY <1>1, <2>1, PypiNames
  <2>3. ASSUME NEW p, s.spec.ok, NamedBy(manager, text, p)
        PROVE  ReadAs(s.spec, s.bounds, p.name, p.extras, p.ranges)
    <3>1. NamedByPoetry(text, p)
      BY <1>1, <2>3, PypiNames
    <3> QED
      BY <2>1, <2>3, <3>1, PoetryIs
  <2> QED
    BY <2>2, <2>3
<1>2. CASE manager # "poetry"
  <2> DEFINE spec == PypiParsePackageInfo(text)
  <2>1. s.spec = spec /\ s.bounds = {}
    BY <1>2
  <2>2. s.spec.ok <=> ~Refuses(manager, text)
    BY <1>2, <2>1, PypiNames
  <2>3. ASSUME NEW p, s.spec.ok, NamedBy(manager, text, p)
        PROVE  ReadAs(s.spec, s.bounds, p.name, p.extras, p.ranges)
    <3>1. NamedByPip(text, p.name, p.extras, p.ranges)
      BY <1>2, <2>3, PypiNames
    <3>2. ReadAs(spec, {}, p.name, p.extras, p.ranges)
      BY <3>1, PipIs
    <3> QED
      BY <2>1, <3>2
  <2> QED
    BY <2>2, <2>3
<1> QED
  BY <1>1, <1>2

-----------------------------------------------------------------------------
(***************************************************************************)
(* The command of pip, uv and Poetry.  Its targets stand for the packages that *)
(* are asked for before they have versions, and still do with each that gets one. *)
(***************************************************************************)

Fielded(q) == DOMAIN q = {"failed", "targets", "manifest", "files", "harmless"}

\* A target that is one of the packages, and what its version has to meet.
Stands(t, wanted, packages) ==
  /\ DOMAIN t = {"name", "extras", "version", "explicit"}
  /\ t.version = <<>> \/ t.version \in Matching(wanted)
  /\ \E p \in packages : /\ p.name = t.name /\ p.extras = t.extras
                         /\ t.explicit = (p.ranges # {}) /\ ServesRanges(wanted, p.ranges)

\* A command of PyPI that means what is asked, its versions apart.
Standing(q, wants, asked) ==
  /\ Fielded(q) /\ ~q.failed
  /\ q.targets \in Seq(ToSet(q.targets))
  /\ \A i \in DOMAIN q.targets : Stands(q.targets[i], wants[i], asked.packages)
  /\ \A p \in asked.packages : \E i \in DOMAIN q.targets :
       p.name = q.targets[i].name /\ p.extras = q.targets[i].extras
  /\ (q.manifest /\ q.targets = <<>>) <=> (asked.manifest /\ asked.packages = {})
  /\ q.harmless => ~asked.downloads

LEMMA PlainFields ==
  /\ Fielded(PlainCommand)
  /\ \A h : Fielded([PlainCommand EXCEPT !.harmless = h])
  /\ \A m, f : Fielded([PlainCommand EXCEPT !.manifest = m, !.files = f])
<1>1. Fielded(PlainCommand)
  BY DEF PlainCommand, Fielded
<1>2. \A h : Fielded([PlainCommand EXCEPT !.harmless = h])
  BY <1>1 DEF Fielded
<1>3. \A m, f : Fielded([PlainCommand EXCEPT !.manifest = m, !.files = f])
  BY <1>1 DEF Fielded
<1> QED
  BY <1>1, <1>2, <1>3

\* A command that names no packages.
LEMMA StandingPlainly ==
  ASSUME NEW q, NEW wants, NEW asked, Fielded(q), ~q.failed, q.targets = <<>>,
         asked.packages = {}, q.manifest <=> asked.manifest, q.harmless => ~asked.downloads
  PROVE  Standing(q, wants, asked)
<1>1. <<>> \in Seq(ToSet(<<>>)) /\ DOMAIN <<>> = {}
  OBVIOUS
<1>2. q.targets \in Seq(ToSet(q.targets)) /\ DOMAIN q.targets = {}
  BY <1>1
<1> QED
  BY <1>2, Zenon DEF Standing, Fielded

LEMMA PypiTargetNames ==
  ASSUME NEW spec, NEW more, NEW name, NEW extras, NEW ranges, ReadAs(spec, more, name, extras, ranges)
  PROVE  PypiTarget(spec, more).name = name /\ PypiTarget(spec, more).extras = extras
  BY DEF PypiTarget, ReadAs

\* A text that is not refused is a target that stands.
LEMMA PypiTargetIs ==
  ASSUME NEW spec, NEW more, NEW packages, NEW p \in packages,
         ReadAs(spec, more, p.name, p.extras, p.ranges)
  PROVE  Stands(PypiTarget(spec, more), Wanted(spec, more), packages)
<1> PICK none : none = <<>>
  OBVIOUS
<1> PICK e : e = (spec.constraint # <<>> \/ more # {})
  OBVIOUS
<1> DEFINE t == PypiTarget(spec, more)
<1>1. t = [name |-> spec.name, extras |-> spec.extras, version |-> none, explicit |-> e]
  BY DEF PypiTarget
<1> HIDE DEF t
<1>2. t.name = spec.name /\ t.extras = spec.extras /\ t.version = none /\ t.explicit = e
  BY <1>1
<1>3. e = (p.ranges # {}) /\ spec.name = p.name /\ spec.extras = p.extras
      /\ ServesRanges(Wanted(spec, more), p.ranges)
  BY DEF ReadAs
<1>4. DOMAIN t = {"name", "extras", "version", "explicit"}
  BY <1>1
<1> QED
  BY <1>2, <1>3, <1>4 DEF Stands, t

\* The targets of some texts.
LEMMA PypiTargetsStand ==
  ASSUME NEW manager \in Pypis, NEW texts \in Seq(Texts), NEW asked,
         AllNamed(manager, ToSet(texts), asked.packages),
         NEW specs, specs = PypiSpecs(manager, texts),
         \A i \in DOMAIN specs : specs[i].spec.ok,
         NEW ts, ts = [i \in DOMAIN specs |-> PypiTarget(specs[i].spec, specs[i].bounds)],
         NEW q, Fielded(q), ~q.failed, q.targets = ts, q.manifest <=> asked.manifest, ~q.harmless,
         NEW wants, wants = [i \in DOMAIN ts |-> Wanted(specs[i].spec, specs[i].bounds)]
  PROVE  Standing(q, wants, asked)
<1> DEFINE n == Len(texts)
           S(text) == IF manager = "poetry" THEN PoetrySpec(text)
                      ELSE [spec |-> PypiParsePackageInfo(text), bounds |-> {}]
<1>1. n \in Nat /\ DOMAIN texts = 1..n /\ DOMAIN specs = 1..n /\ DOMAIN ts = 1..n
      /\ \A i \in 1..n : texts[i] \in Texts /\ texts[i] \in Seq(STRING)
  BY DEF PypiSpecs, Texts
<1>2. \A i \in 1..n : specs[i] = S(texts[i])
  BY <1>1 DEF PypiSpecs
<1>3. \A i \in 1..n : /\ ts[i] = PypiTarget(specs[i].spec, specs[i].bounds)
                      /\ wants[i] = Wanted(specs[i].spec, specs[i].bounds)
  BY <1>1
<1>4. ts \in Seq({ts[i] : i \in 1..n})
  BY <1>1
<1>5. ToSet(texts) = {texts[i] : i \in 1..n} /\ ToSet(ts) = {ts[i] : i \in 1..n}
  BY <1>1 DEF ToSet
<1> HIDE DEF n
<1>6. \A i \in 1..n : /\ specs[i].spec.ok /\ ~Refuses(manager, texts[i])
                      /\ \A p : NamedBy(manager, texts[i], p) =>
                           ReadAs(specs[i].spec, specs[i].bounds, p.name, p.extras, p.ranges)
  <2> SUFFICES ASSUME NEW i \in 1..n
               PROVE  /\ specs[i].spec.ok /\ ~Refuses(manager, texts[i])
                      /\ \A p : NamedBy(manager, texts[i], p) =>
                           ReadAs(specs[i].spec, specs[i].bounds, p.name, p.extras, p.ranges)
    OBVIOUS
  <2>1. specs[i] = S(texts[i]) /\ specs[i].spec.ok /\ texts[i] \in Seq(STRING)
    BY <1>1, <1>2
  <2> QED
    BY <2>1, PypiSpecIs
<1> HIDE DEF S
<1>7. /\ \A t \in ToSet(texts) : \E p \in asked.packages : NamedBy(manager, t, p)
      /\ \A p \in asked.packages : \E t \in ToSet(texts) : NamedBy(manager, t, p)
  BY <1>5, <1>6, Zenon DEF AllNamed
<1>8. ASSUME NEW i \in 1..n PROVE Stands(ts[i], wants[i], asked.packages)
  <2>1. PICK p \in asked.packages : NamedBy(manager, texts[i], p)
    BY <1>5, <1>7
  <2>2. ReadAs(specs[i].spec, specs[i].bounds, p.name, p.extras, p.ranges)
    BY <1>6, <2>1
  <2> QED
    BY <1>3, <2>2, PypiTargetIs
<1>9. ASSUME NEW p \in asked.packages
      PROVE  \E i \in 1..n : p.name = ts[i].name /\ p.extras = ts[i].extras
  <2>1. PICK i \in 1..n : NamedBy(manager, texts[i], p)
    BY <1>5, <1>7
  <2>2. ReadAs(specs[i].spec, specs[i].bounds, p.name, p.extras, p.ranges)
    BY <1>6, <2>1
  <2>3. ts[i].name = p.name /\ ts[i].extras = p.extras
    <3> PICK spec, more : spec = specs[i].spec /\ more = specs[i].bounds
      OBVIOUS
    <3>1. ReadAs(spec, more, p.name, p.extras, p.ranges)
      BY <2>2
    <3>2. PypiTarget(spec, more).name = p.name /\ PypiTarget(spec, more).extras = p.extras
      BY <3>1, PypiTargetNames
    <3> QED
      BY <1>3, <3>2
  <2> QED
    BY <2>3
<1>12. ts = <<>> <=> asked.packages = {}
  <2>1. ts = <<>> <=> ToSet(ts) = {}
    BY <1>4, EmptyIs
  <2>2. ToSet(ts) = {} <=> asked.packages = {}
    <3>1. ASSUME asked.packages # {} PROVE ToSet(ts) # {}
      <4>1. PICK i \in 1..n : TRUE
        BY <1>9, <3>1
      <4>2. ts[i] \in ToSet(ts)
        BY <1>5
      <4> QED
        BY <4>2
    <3>2. ASSUME ToSet(ts) # {} PROVE asked.packages # {}
      <4>1. PICK i \in 1..n : TRUE
        BY <1>5, <3>2
      <4>2. \E p \in asked.packages : NamedBy(manager, texts[i], p)
        BY <1>5, <1>7
      <4> QED
        BY <4>2
    <3> QED
      BY <3>1, <3>2
  <2> QED
    BY <2>1, <2>2
<1>14. ts \in Seq(ToSet(ts)) /\ DOMAIN ts = 1..n
  BY <1>1, <1>4, <1>5
<1>15. q.targets \in Seq(ToSet(q.targets)) /\ DOMAIN q.targets = 1..n
  BY <1>14
<1>16. \A i \in DOMAIN q.targets : Stands(q.targets[i], wants[i], asked.packages)
  BY <1>8, <1>14
<1>17. \A p \in asked.packages : \E i \in DOMAIN q.targets :
         p.name = q.targets[i].name /\ p.extras = q.targets[i].extras
  BY <1>9, <1>14
<1>18. (q.manifest /\ q.targets = <<>>) <=> (asked.manifest /\ asked.packages = {})
  BY <1>12
<1> QED
  BY <1>15, <1>16, <1>17, <1>18 DEF Standing

LEMMA LockFields ==
  ASSUME NEW manager, NEW args, NEW lock, lock = FromLockfile(manager, args)
  PROVE  Fielded(lock)
<1> DEFINE uv     == manager = "uv" /\ args # <<>> /\ Is(args[1], {"sync"})
           pip    == manager = "uv" /\ Len(args) >= 3 /\ Is(args[1], {"pip"}) /\ Is(args[2], {"sync"})
           poetry == manager = "poetry" /\ args # <<>> /\ Is(args[1], {"install"})
<1>1. /\ uv => lock = Lockfile("uv.lock")
      /\ pip /\ ~uv => lock = [PlainCommand EXCEPT !.manifest = TRUE, !.files = {TextOf(args[3])}]
      /\ poetry => lock = Lockfile("poetry.lock")
      /\ ~uv /\ ~pip /\ ~poetry => lock = PlainCommand
  BY LockForms
<1>2. \A name : Fielded(Lockfile(name))
  BY PlainFields DEF Lockfile
<1>3. \A f : Fielded([PlainCommand EXCEPT !.manifest = TRUE, !.files = f])
  BY PlainFields, Zenon
<1>4. Fielded(PlainCommand)
  BY PlainFields
<1> HIDE DEF uv, pip, poetry
<1> QED
  BY <1>1, <1>2, <1>3, <1>4, Zenon

Filled(filled, files, values) == filled = (values # <<>>) /\ files = ToSet(values)

WithTargets(ts, m, f) == [PlainCommand EXCEPT !.targets = ts, !.manifest = m, !.files = f]

ParsedFrom(q, lock, args, place, flags, harmless, specs, ts, filled, files) ==
  /\ lock.manifest => q = lock
  /\ ~lock.manifest /\ place = 0 =>
       q = [PlainCommand EXCEPT !.harmless = FirstWordInList(args, harmless)]
  /\ ~lock.manifest /\ place # 0 /\ flags.failed => q = PlainCommand
  /\ ~lock.manifest /\ place # 0 /\ ~flags.failed =>
       q = IF \E i \in DOMAIN specs : ~specs[i].spec.ok THEN Refused
           ELSE WithTargets(ts, filled, files)

LEMMA ParsePypiForms ==
  ASSUME NEW manager, NEW typed, NEW t, t = PypiTexts(manager, typed),
         NEW lock, lock = FromLockfile(manager, t.args),
         NEW specs, specs = PypiSpecs(manager, t.flags.words),
         NEW filled, NEW files, Filled(filled, files, t.flags.values),
         NEW ts, ts = [i \in DOMAIN specs |-> PypiTarget(specs[i].spec, specs[i].bounds)],
         NEW q, q = ParsePypiCommand(manager, typed)
  PROVE  ParsedFrom(q, lock, t.args, t.at, t.flags, Config(manager).harmless, specs, ts, filled, files)
<1>1. lock.manifest => q = lock
  BY Zenon DEF ParsePypiCommand
<1>2. ~lock.manifest /\ t.at = 0 =>
        q = [PlainCommand EXCEPT !.harmless = FirstWordInList(t.args, Config(manager).harmless)]
  BY Zenon DEF ParsePypiCommand
<1>3. ~lock.manifest /\ t.at # 0 /\ t.flags.failed => q = PlainCommand
  BY Zenon DEF ParsePypiCommand
<1>4. ~lock.manifest /\ t.at # 0 /\ ~t.flags.failed =>
        q = IF \E i \in DOMAIN specs : ~specs[i].spec.ok THEN Refused
            ELSE WithTargets(ts, filled, files)
  BY Zenon DEF ParsePypiCommand, Filled, WithTargets
<1> QED
  BY <1>1, <1>2, <1>3, <1>4, Zenon DEF ParsedFrom

LEMMA WithTargetsIs ==
  ASSUME NEW ts, NEW m, NEW f, NEW q, q = WithTargets(ts, m, f)
  PROVE  Fielded(q) /\ ~q.failed /\ q.targets = ts /\ q.manifest = m /\ ~q.harmless
<1>1. Fielded(PlainCommand)
  BY PlainFields
<1>2. Fielded(q)
  BY <1>1 DEF Fielded, WithTargets
<1>3. ~q.failed /\ ~q.harmless
  BY DEF PlainCommand, WithTargets
<1>4. q.targets = ts /\ q.manifest = m
  BY <1>1 DEF Fielded, WithTargets
<1> QED
  BY <1>2, <1>3, <1>4

LEMMA PypiTextsAre ==
  ASSUME NEW manager, NEW typed, NEW config, config = Config(manager),
         NEW args, args = OwnArgs(config, typed), NEW place, place = InstallAt(config, args),
         NEW flags, flags = ParseFlags(SubSeq(args, place + 1, Len(args)), config.valued, {})
  PROVE  /\ PypiTexts(manager, typed).args = args /\ PypiTexts(manager, typed).at = place
         /\ PypiTexts(manager, typed).flags = flags
<1>1. PypiTexts(manager, typed) = [args |-> args, at |-> place, flags |-> flags]
  BY Zenon DEF PypiTexts
<1> QED
  BY <1>1

\* The wants of a parsed command, as ParsePypiLine computes them.
WantsOf(q, manager, typed) ==
  LET specs == PypiSpecs(manager, PypiTexts(manager, typed).flags.words)
  IN [i \in DOMAIN q.targets |-> Wanted(specs[i].spec, specs[i].bounds)]

\* ParseCommand of pip, uv and Poetry: the targets stand, or the command is refused.
LEMMA ParsePypiIs ==
  ASSUME NEW manager \in Pypis, NEW typed \in Seq(Arguments), NEW asked,
         LineAsks(manager, typed, asked), NEW q, q = ParsePypiCommand(manager, typed),
         NEW wants, wants = WantsOf(q, manager, typed)
  PROVE  q.failed \/ Standing(q, wants, asked)
<1> DEFINE config == Config(manager)
           args == OwnArgs(config, typed)
           place == InstallAt(config, args)
           behind == SubSeq(args, place + 1, Len(args))
           flags == ParseFlags(behind, config.valued, {})
           lock == FromLockfile(manager, args)
           specs == PypiSpecs(manager, flags.words)
           ts == [i \in DOMAIN specs |-> PypiTarget(specs[i].spec, specs[i].bounds)]
<1>0. AsksPypi(manager, config, args, asked)
  <2>1. manager \notin Executors /\ manager \notin Npms
    BY Zenon DEF Npms, Executors, Pypis
  <2> QED
    BY <2>1, Zenon DEF LineAsks
<1>t. /\ PypiTexts(manager, typed).args = args /\ PypiTexts(manager, typed).at = place
      /\ PypiTexts(manager, typed).flags = flags
  BY PypiTextsAre
<1> PICK filled, files : Filled(filled, files, flags.values)
  BY Zenon DEF Filled
<1>1. ParsedFrom(q, lock, args, place, flags, config.harmless, specs, ts, filled, files)
  <2> PICK t : t = PypiTexts(manager, typed)
    OBVIOUS
  <2>1. /\ t.args = args /\ t.at = place /\ t.flags = flags
    BY <1>t
  <2> HIDE DEF config, args, place, behind, flags
  <2>2. /\ lock = FromLockfile(manager, t.args) /\ specs = PypiSpecs(manager, t.flags.words)
        /\ Filled(filled, files, t.flags.values)
    BY <2>1
  <2>c. config = Config(manager)
    BY Zenon DEF config
  <2>4. ts = [i \in DOMAIN specs |-> PypiTarget(specs[i].spec, specs[i].bounds)]
    OBVIOUS
  <2> HIDE DEF lock, specs, ts
  <2>3. ParsedFrom(q, lock, t.args, t.at, t.flags, Config(manager).harmless, specs, ts, filled, files)
    BY <2>2, <2>4, ParsePypiForms
  <2> QED
    BY <2>1, <2>c, <2>3, Zenon
<1>w. wants = [i \in DOMAIN q.targets |-> Wanted(specs[i].spec, specs[i].bounds)]
  BY <1>t, Zenon DEF WantsOf
<1>2. args \in Seq(Arguments) /\ Plainly(config.valued)
  BY OwnArgsAre, ConfigsArePlain DEF Managers
<1>3. /\ place \in 0..Len(args)
      /\ (\A i \in DOMAIN args : ~Is(args[i], config.install)) => place = 0
      /\ \A k \in DOMAIN args : InstallsAt(config, args, k) => place = k
  BY <1>2, InstallIs
<1> HIDE DEF config, args, place
<1>4. behind \in Seq(Arguments)
  BY <1>2, <1>3, BehindAre
<1>l. /\ lock.manifest <=> IsLocked(manager, args)
      /\ lock.targets = <<>> /\ ~lock.failed /\ ~lock.harmless /\ Fielded(lock)
  <2>1. PICK l : l = FromLockfile(manager, args)
    OBVIOUS
  <2>2. /\ l.manifest <=> IsLocked(manager, args)
        /\ l.targets = <<>> /\ ~l.failed /\ ~l.harmless
    BY <1>2, <2>1, LockIs
  <2>3. Fielded(l)
    BY <2>1, LockFields
  <2> QED
    BY <2>1, <2>2, <2>3
<1> HIDE DEF behind, flags, lock
<1>5. CASE IsLocked(manager, args) /\ asked.packages = {} /\ asked.manifest
  <2>1. q = lock /\ lock.manifest
    BY <1>1, <1>5, <1>l DEF ParsedFrom
  <2> QED
    BY <1>5, <1>l, <2>1, StandingPlainly
<1>6. CASE ~IsLocked(manager, args) /\ AsksOther(config, args, asked)
  <2>1. place = 0 /\ asked.packages = {} /\ ~asked.manifest
        /\ (asked.downloads => ~Runs(args, config.harmless))
    BY <1>3, <1>6 DEF AsksOther, AsksNothing
  <2>2. q = [PlainCommand EXCEPT !.harmless = FirstWordInList(args, config.harmless)]
    BY <1>1, <1>6, <1>l, <2>1 DEF ParsedFrom
  <2>3. FirstWordInList(args, config.harmless) <=> Runs(args, config.harmless)
    BY <1>2, FirstWordIs
  <2>4. q.targets = <<>> /\ ~q.failed /\ ~q.manifest
        /\ q.harmless = FirstWordInList(args, config.harmless)
    BY <2>2, PlainCommandIs
  <2>5. Fielded(q)
    BY <2>2, PlainFields
  <2> QED
    BY <2>1, <2>3, <2>4, <2>5, StandingPlainly
<1>7. ASSUME ~IsLocked(manager, args), NEW k \in DOMAIN args, InstallsAt(config, args, k),
             LET over == SubSeq(args, k + 1, Len(args))
             IN /\ TakenFor(over, asked.parts, config.valued, {})
                /\ IF NoPackages(asked.parts) THEN AsksNothing(asked)
                   ELSE /\ AllNamed(manager, WordsIn(over, asked.parts), asked.packages)
                        /\ asked.manifest = (ValuesIn(over, asked.parts) # {})
      PROVE  q.failed \/ Standing(q, wants, asked)
  <2> DEFINE words == WordsIn(behind, asked.parts)
             values == ValuesIn(behind, asked.parts)
  <2>1. place = k /\ place # 0 /\ ~lock.manifest
    BY <1>2, <1>3, <1>7, <1>l
  <2>2. /\ TakenFor(behind, asked.parts, config.valued, {})
        /\ NoPackages(asked.parts) => AsksNothing(asked)
        /\ ~NoPackages(asked.parts) =>
             AllNamed(manager, words, asked.packages) /\ asked.manifest = (values # {})
    BY <1>7, <2>1 DEF behind
  <2>3. /\ flags.words \in Seq(Texts) /\ flags.values \in Seq(Texts)
        /\ flags.failed <=> NoPackages(asked.parts)
        /\ ~flags.failed => ToSet(flags.words) = words /\ ToSet(flags.values) = values
    BY <1>2, <1>4, <2>2, ParseIs DEF flags
  <2>4. flags.values = <<>> <=> ToSet(flags.values) = {}
    BY <2>3, EmptyIs
  <2> HIDE DEF words, values
  <2>5. CASE flags.failed
    <3>1. q = PlainCommand /\ asked.packages = {} /\ ~asked.manifest
      BY <1>1, <2>1, <2>2, <2>3, <2>5 DEF AsksNothing, ParsedFrom
    <3>2. Fielded(q)
      BY <3>1, PlainFields
    <3>3. q.targets = <<>> /\ ~q.failed /\ ~q.manifest /\ ~q.harmless
      BY <3>1, PlainCommandIs
    <3> QED
      BY <3>1, <3>2, <3>3, StandingPlainly
  <2>6. CASE ~flags.failed
    <3>0. q = IF \E i \in DOMAIN specs : ~specs[i].spec.ok THEN Refused
              ELSE WithTargets(ts, filled, files)
      BY <1>1, <2>1, <2>6 DEF ParsedFrom
    <3> HIDE DEF ts
    <3>1. CASE \E i \in DOMAIN specs : ~specs[i].spec.ok
      <4>1. q = Refused
        BY <3>0, <3>1
      <4> QED
        BY <4>1 DEF Refused, PlainCommand
    <3>2. CASE \A i \in DOMAIN specs : specs[i].spec.ok
      <4>1. q = WithTargets(ts, filled, files)
        BY <3>0, <3>2
      <4>2. Fielded(q) /\ ~q.failed /\ q.targets = ts /\ q.manifest = filled /\ ~q.harmless
        BY <4>1, WithTargetsIs
      <4>3. filled <=> asked.manifest
        BY <2>2, <2>3, <2>4, <2>6 DEF Filled
      <4>4. AllNamed(manager, ToSet(flags.words), asked.packages)
        BY <2>2, <2>3, <2>6
      <4>5. wants = [i \in DOMAIN ts |-> Wanted(specs[i].spec, specs[i].bounds)]
        BY <1>w, <4>2
      <4>6. /\ specs = PypiSpecs(manager, flags.words)
            /\ ts = [i \in DOMAIN specs |-> PypiTarget(specs[i].spec, specs[i].bounds)]
            /\ flags.words \in Seq(Texts)
        BY <2>3 DEF ts
      <4>7. q.manifest <=> asked.manifest
        BY <4>2, <4>3
      <4> HIDE DEF specs
      <4>8. Standing(q, wants, asked)
        BY <3>2, <4>2, <4>4, <4>5, <4>6, <4>7, PypiTargetsStand
      <4> QED
        BY <4>8
    <3> QED
      BY <3>1, <3>2
  <2> QED
    BY <2>5, <2>6
<1> QED
  <2>1. \/ IsLocked(manager, args) /\ asked.packages = {} /\ asked.manifest
        \/ ~IsLocked(manager, args) /\ AsksOther(config, args, asked)
        \/ /\ ~IsLocked(manager, args)
           /\ \E k \in DOMAIN args :
                LET over == SubSeq(args, k + 1, Len(args))
                IN /\ InstallsAt(config, args, k) /\ TakenFor(over, asked.parts, config.valued, {})
                   /\ IF NoPackages(asked.parts) THEN AsksNothing(asked)
                      ELSE /\ AllNamed(manager, WordsIn(over, asked.parts), asked.packages)
                           /\ asked.manifest = (ValuesIn(over, asked.parts) # {})
    BY <1>0, Zenon DEF AsksPypi
  <2> QED
    BY <1>5, <1>6, <1>7, <2>1

-----------------------------------------------------------------------------
(* Versions, one target after the other                                      *)

\* A target that gets its version.
LEMMA VersionIsSet ==
  ASSUME NEW q, NEW wants, NEW asked, Standing(q, wants, asked), NEW i \in DOMAIN q.targets,
         NEW v \in Matching(wants[i]), NEW r, r = [q EXCEPT !.targets[i].version = v]
  PROVE  Standing(r, wants, asked)
<1> DEFINE ts == q.targets
           t == [ts[i] EXCEPT !.version = v]
           us == [ts EXCEPT ![i] = t]
           n == Len(ts)
<1>1. /\ Fielded(q) /\ ~q.failed /\ ts \in Seq(ToSet(ts)) /\ i \in DOMAIN ts
      /\ \A j \in DOMAIN ts : Stands(ts[j], wants[j], asked.packages)
      /\ \A p \in asked.packages : \E j \in DOMAIN ts : p.name = ts[j].name /\ p.extras = ts[j].extras
      /\ (q.manifest /\ ts = <<>>) <=> (asked.manifest /\ asked.packages = {})
      /\ q.harmless => ~asked.downloads
  BY DEF Standing
<1>2. r = [q EXCEPT !.targets = us]
  OBVIOUS
<1>3. /\ Fielded(r) /\ r.targets = us /\ r.failed = q.failed /\ r.manifest = q.manifest
      /\ r.harmless = q.harmless
  <2> HIDE DEF us
  <2> QED
    BY <1>1, <1>2 DEF Fielded
<1>4. n \in Nat /\ DOMAIN ts = 1..n /\ i \in 1..n
  BY <1>1
<1>5. /\ DOMAIN us = 1..n /\ us[i] = t /\ \A j \in 1..n : j # i => us[j] = ts[j]
      /\ us \in Seq(ToSet(us)) /\ us # <<>> /\ ts # <<>>
  <2>1. DOMAIN us = 1..n /\ us[i] = t /\ \A j \in 1..n : j # i => us[j] = ts[j]
    <3> HIDE DEF t
    <3> QED
      BY <1>4
  <2> DEFINE X == ToSet(ts) \cup {t}
  <2>2. ts \in Seq(X) /\ t \in X
    BY <1>1, <1>4
  <2> HIDE DEF t, ts, X
  <2>3. us \in Seq(X) /\ Len(us) = n
    BY <1>4, <2>2, ExceptSeq DEF n
  <2> HIDE DEF us
  <2>4. ToSet(us) = {us[j] : j \in 1..n}
    BY <2>1 DEF ToSet
  <2>5. us \in Seq(ToSet(us))
    <3>1. \A j \in 1..n : us[j] \in ToSet(us)
      BY <2>4
    <3> HIDE DEF n
    <3> QED
      BY <1>4, <2>3, <3>1
  <2> QED
    BY <1>1, <1>4, <2>1, <2>3, <2>5 DEF n
<1>6. Stands(t, wants[i], asked.packages) /\ t.name = ts[i].name /\ t.extras = ts[i].extras
  <2>1. Stands(ts[i], wants[i], asked.packages)
    BY <1>1
  <2> DEFINE s == ts[i]
  <2>2. DOMAIN s = {"name", "extras", "version", "explicit"}
    BY <2>1 DEF Stands
  <2> HIDE DEF s
  <2>3. /\ DOMAIN [s EXCEPT !.version = v] = {"name", "extras", "version", "explicit"}
        /\ [s EXCEPT !.version = v].name = s.name /\ [s EXCEPT !.version = v].extras = s.extras
        /\ [s EXCEPT !.version = v].explicit = s.explicit /\ [s EXCEPT !.version = v].version = v
    BY <2>2
  <2>4. /\ DOMAIN t = {"name", "extras", "version", "explicit"} /\ t.name = s.name
        /\ t.extras = s.extras /\ t.explicit = s.explicit /\ t.version = v
    BY <2>3 DEF s
  <2> HIDE DEF t
  <2>5. Stands(s, wants[i], asked.packages)
    BY <2>1 DEF s
  <2>6. Stands(t, wants[i], asked.packages)
    BY <2>4, <2>5 DEF Stands
  <2> QED
    BY <2>4, <2>6 DEF s
<1> HIDE DEF t, us, ts, n
<1>7. \A j \in DOMAIN us : Stands(us[j], wants[j], asked.packages)
  BY <1>1, <1>4, <1>5, <1>6
<1>8. ASSUME NEW p \in asked.packages
      PROVE  \E j \in DOMAIN us : p.name = us[j].name /\ p.extras = us[j].extras
  <2>1. PICK j \in 1..n : p.name = ts[j].name /\ p.extras = ts[j].extras
    BY <1>1, <1>4
  <2>2. us[j].name = ts[j].name /\ us[j].extras = ts[j].extras
    BY <1>5, <1>6
  <2> QED
    BY <1>5, <2>1, <2>2
<1>9. (r.manifest /\ us = <<>>) <=> (asked.manifest /\ asked.packages = {})
  BY <1>1, <1>5
<1> QED
  BY <1>1, <1>3, <1>5, <1>7, <1>8, <1>9 DEF Standing

\* The target that is resolved next.
LEMMA NextTarget ==
  ASSUME NEW q, NEW wants, NEW asked, Standing(q, wants, asked),
         NEW i, i = SelectInSeq(q.targets, LAMBDA t : t.version = <<>>)
  PROVE  /\ i = 0 => \A j \in DOMAIN q.targets : q.targets[j].version # <<>>
         /\ i # 0 => i \in DOMAIN q.targets
<1> DEFINE ts == q.targets
           I == {j \in 1..Len(ts) : ts[j].version = <<>>}
<1>1. i = IF I # {} THEN Min(I) ELSE 0
  BY Zenon DEF SelectInSeq
<1>2. ts \in Seq(ToSet(ts))
  BY DEF Standing
<1>3. Len(ts) \in Nat /\ DOMAIN ts = 1..Len(ts) /\ I \subseteq 1..Len(ts)
  BY <1>2
<1>4. \A j \in 1..Len(ts) : ts[j].version = <<>> => j \in I
  OBVIOUS
<1> HIDE DEF I
<1>5. (i = 0 <=> I = {}) /\ (i # 0 => i \in I)
  BY <1>1, <1>3, FirstIn
<1> QED
  BY <1>3, <1>4, <1>5

\* What the targets of a command that stands are.
LEMMA StandingNames ==
  ASSUME NEW q, NEW wants, NEW asked, Standing(q, wants, asked)
  PROVE  PackagesOf(ToSet(q.targets)) = PackagesOf(asked.packages)
<1> DEFINE ts == q.targets
<1>1. /\ \A j \in DOMAIN ts : \E p \in asked.packages :
           p.name = ts[j].name /\ p.extras = ts[j].extras
      /\ \A p \in asked.packages : \E j \in DOMAIN ts :
           p.name = ts[j].name /\ p.extras = ts[j].extras
  BY DEF Standing, Stands
<1>2. ToSet(ts) = {ts[j] : j \in DOMAIN ts}
  BY DEF ToSet
<1> HIDE DEF ts
<1>3. /\ \A t \in ToSet(ts) : \E p \in asked.packages : p.name = t.name /\ p.extras = t.extras
      /\ \A p \in asked.packages : \E t \in ToSet(ts) : p.name = t.name /\ p.extras = t.extras
  BY <1>1, <1>2
<1>4. PackagesOf(ToSet(ts)) = PackagesOf(asked.packages)
  BY <1>3 DEF PackagesOf
<1> QED
  BY <1>4 DEF ts

\* Every version of a command that stands.
LEMMA StandingVersions ==
  ASSUME NEW q, NEW wants, NEW asked, Standing(q, wants, asked),
         \A i \in DOMAIN q.targets : q.targets[i].version # <<>>, NEW t \in ToSet(q.targets)
  PROVE  \E p \in asked.packages :
           /\ p.name = t.name /\ t.explicit = (p.ranges # {})
           /\ \A r \in p.ranges : Allows(r, t.version)
           /\ \/ t.version \notin Releases
              \/ \A u \in Releases : (\A r \in p.ranges : Allows(r, u)) => ~Before(t.version, u)
<1>1. PICK i \in DOMAIN q.targets : t = q.targets[i]
  BY DEF ToSet
<1>2. Stands(t, wants[i], asked.packages) /\ t.version # <<>>
  BY <1>1 DEF Standing
<1>3. t.version \in Matching(wants[i])
  BY <1>2 DEF Stands
<1>4. PICK p \in asked.packages : /\ p.name = t.name /\ t.explicit = (p.ranges # {})
                                  /\ ServesRanges(wants[i], p.ranges)
  BY <1>2 DEF Stands
<1> QED
  BY <1>3, <1>4 DEF ServesRanges

-----------------------------------------------------------------------------
(* The invariant, from the words to the flow                                 *)

\* What is parsed means what is asked, of PyPI with versions still open; nothing is
\* understood wrong after that, since no step changes it.
CommandInv ==
  /\ line \in CommandLines
  /\ cpc \notin {"handed", "learnt"} => handed = NotHanded
  /\ cpc = "resolving" => line.manager \in Pypis
  /\ cpc = "parsed" /\ line.manager \notin Pypis => Understood(parsed, line.asked)
  /\ cpc \in {"resolving", "parsed"} /\ line.manager \in Pypis => Standing(parsed, bounds, line.asked)
  /\ cpc = "parsed" /\ line.manager \in Pypis =>
       \A i \in DOMAIN parsed.targets : parsed.targets[i].version # <<>>
  /\ DownloadsAreWatched

\* LinesAssumption of the line that was typed.
LEMMA LineIs ==
  ASSUME NEW l \in CommandLines
  PROVE  /\ l.manager \in Npms \cup Executors \cup Pypis /\ l.args \in Seq(Arguments)
         /\ LineAsks(l.manager, l.args, l.asked)
  BY LinesAssumption, Zenon

LEMMA ManagersDiffer == /\ Npms \cap Executors = {} /\ Npms \cap Pypis = {}
                        /\ Executors \cap Pypis = {}
  BY DEF Npms, Executors, Pypis

LEMMA NotWatched == NotHanded.flow = "none"
  BY DEF NotHanded

LEMMA InitCommand == CommandInit => CommandInv
<1> SUFFICES ASSUME CommandInit PROVE CommandInv
  OBVIOUS
<1>1. line \in CommandLines /\ cpc = "typed" /\ handed = NotHanded
  BY DEF CommandInit
<1>2. DownloadsAreWatched
  BY <1>1, NotWatched DEF DownloadsAreWatched
<1> QED
  BY <1>1, <1>2 DEF CommandInv

\* A step before the command is handed over has nothing to watch.
LEMMA StillNotHanded ==
  ASSUME handed = NotHanded, handed' = handed
  PROVE  DownloadsAreWatched'
  BY NotWatched DEF DownloadsAreWatched

LEMMA ParseNpmKeeps ==
  ASSUME CommandInv, ParseNpmLine
  PROVE  CommandInv'
<1>1. /\ cpc = "typed" /\ line.manager \in Npms \cup Executors
      /\ parsed' = IF line.manager \in Executors THEN ParseExecutorCommand(line.manager, line.args)
                   ELSE ParseNpmCommand(line.manager, line.args)
      /\ cpc' = (IF parsed'.failed THEN "refused" ELSE "parsed")
      /\ line' = line /\ handed' = handed
  BY DEF ParseNpmLine
<1>2. line \in CommandLines /\ handed = NotHanded
  BY <1>1 DEF CommandInv
<1>3. line.manager \notin Pypis
  BY <1>1, ManagersDiffer
<1>4. parsed'.failed \/ Understood(parsed', line.asked)
  <2>1. line.args \in Seq(Arguments) /\ LineAsks(line.manager, line.args, line.asked)
    BY <1>2, LineIs
  <2>2. CASE line.manager \in Executors
    BY <1>1, <2>1, <2>2, ParseExecutorIs
  <2>3. CASE line.manager \notin Executors
    BY <1>1, <2>1, <2>3, ParseNpmIs
  <2> QED
    BY <2>2, <2>3
<1>5. DownloadsAreWatched'
  BY <1>1, <1>2, StillNotHanded
<1>6. cpc' = "refused" \/ (cpc' = "parsed" /\ Understood(parsed', line.asked))
  BY <1>1, <1>4
<1> QED
  BY <1>1, <1>2, <1>3, <1>5, <1>6 DEF CommandInv

LEMMA ParsePypiKeeps ==
  ASSUME CommandInv, ParsePypiLine
  PROVE  CommandInv'
<1>1. /\ cpc = "typed" /\ line.manager \in Pypis
      /\ parsed' = ParsePypiCommand(line.manager, line.args)
      /\ bounds' = WantsOf(parsed', line.manager, line.args)
      /\ cpc' = (IF parsed'.failed THEN "refused" ELSE "resolving")
      /\ line' = line /\ handed' = handed
  BY Zenon DEF ParsePypiLine, WantsOf
<1>2. line \in CommandLines /\ handed = NotHanded
  BY <1>1 DEF CommandInv
<1>3. parsed'.failed \/ Standing(parsed', bounds', line.asked)
  <2>1. line.args \in Seq(Arguments) /\ LineAsks(line.manager, line.args, line.asked)
    BY <1>2, LineIs
  <2> QED
    BY <1>1, <2>1, ParsePypiIs
<1>4. DownloadsAreWatched'
  BY <1>1, <1>2, StillNotHanded
<1>5. cpc' = "refused" \/ (cpc' = "resolving" /\ Standing(parsed', bounds', line.asked))
  BY <1>1, <1>3
<1> QED
  BY <1>1, <1>2, <1>4, <1>5 DEF CommandInv

LEMMA ResolveKeeps ==
  ASSUME CommandInv, ResolveVersion
  PROVE  CommandInv'
<1> PICK i : i = SelectInSeq(parsed.targets, LAMBDA t : t.version = <<>>)
  OBVIOUS
<1>1. /\ cpc = "resolving" /\ line' = line /\ bounds' = bounds /\ handed' = handed
      /\ \/ i = 0 /\ cpc' = "parsed" /\ parsed' = parsed
         \/ /\ i # 0
            /\ \E v \in Matching(bounds[i]) : parsed' = [parsed EXCEPT !.targets[i].version = v]
            /\ cpc' = cpc
         \/ cpc' = "refused"
  BY Zenon DEF ResolveVersion
<1>2. /\ line \in CommandLines /\ handed = NotHanded /\ line.manager \in Pypis
      /\ Standing(parsed, bounds, line.asked)
  BY <1>1 DEF CommandInv
<1>3. DownloadsAreWatched'
  BY <1>1, <1>2, StillNotHanded
<1>4. CASE i = 0 /\ cpc' = "parsed" /\ parsed' = parsed
  <2>1. \A j \in DOMAIN parsed.targets : parsed.targets[j].version # <<>>
    BY <1>2, <1>4, NextTarget
  <2> QED
    BY <1>1, <1>2, <1>3, <1>4, <2>1 DEF CommandInv
<1>5. ASSUME i # 0, cpc' = cpc, NEW v \in Matching(bounds[i]),
             parsed' = [parsed EXCEPT !.targets[i].version = v]
      PROVE  CommandInv'
  <2>1. i \in DOMAIN parsed.targets
    BY <1>2, <1>5, NextTarget
  <2>2. Standing(parsed', bounds, line.asked)
    BY <1>2, <1>5, <2>1, VersionIsSet
  <2> QED
    BY <1>1, <1>2, <1>3, <1>5, <2>2 DEF CommandInv
<1>6. CASE cpc' = "refused"
  BY <1>1, <1>2, <1>3, <1>6 DEF CommandInv
<1> QED
  BY <1>1, <1>4, <1>5, <1>6

\* What is handed over is what is asked for.
LEMMA HandOverKeeps ==
  ASSUME CommandInv, HandOver
  PROVE  CommandInv'
<1>1. /\ cpc = "parsed" /\ cpc' = "handed" /\ line' = line /\ setting' = setting
      /\ handed' = [flow |-> IF setting.proxy THEN ProxyFlow ELSE GuardFlow,
                    sandboxed |-> setting.sandbox /\ (setting.always \/ Installs \/ MayDownload)]
  BY DEF HandOver
<1>2. /\ PackagesOf(ToSet(parsed.targets)) = PackagesOf(line.asked.packages)
      /\ (parsed.manifest /\ parsed.targets = <<>>)
           <=> (line.asked.manifest /\ line.asked.packages = {})
      /\ parsed.harmless => ~line.asked.downloads
  <2>1. CASE line.manager \in Pypis
    <3>1. Standing(parsed, bounds, line.asked)
      BY <1>1, <2>1 DEF CommandInv
    <3> QED
      BY <3>1, StandingNames DEF Standing
  <2>2. CASE line.manager \notin Pypis
    <3>1. Understood(parsed, line.asked)
      BY <1>1, <2>2 DEF CommandInv
    <3> QED
      BY <3>1 DEF Understood, AreTargets
  <2> QED
    BY <2>1, <2>2
<1>3. line.asked.packages # {} => parsed.targets # <<>>
  <2>1. parsed.targets = <<>> => ToSet(parsed.targets) = {}
    BY DEF ToSet
  <2>2. ToSet(parsed.targets) = {} => line.asked.packages = {}
    BY <1>2 DEF PackagesOf
  <2> QED
    BY <2>1, <2>2
<1>4. /\ handed'.flow = IF setting.proxy THEN ProxyFlow ELSE GuardFlow
      /\ handed'.sandboxed <=> setting.sandbox /\ (setting.always \/ Installs \/ MayDownload)
  BY <1>1
<1>5. ASSUME line.asked.downloads
      PROVE  /\ ProxyFlow = "bare" => setting.installOnly
                  /\ FirstWordInList(OwnArgs(Config(line.manager), line.args), setting.skip)
             /\ line.asked.packages # {} => GuardFlow = "targets"
             /\ line.asked.manifest => GuardFlow \in {"targets", "manifest"}
             /\ setting.sandbox => handed'.sandboxed
  <2>1. MayDownload
    BY <1>2, <1>5 DEF MayDownload
  <2>2. ProxyFlow = "bare" => setting.installOnly
          /\ FirstWordInList(OwnArgs(Config(line.manager), line.args), setting.skip)
    BY <2>1, Zenon DEF ProxyFlow
  <2>3. line.asked.packages # {} => GuardFlow = "targets"
    BY <1>3, Zenon DEF GuardFlow
  <2>4. line.asked.manifest => GuardFlow \in {"targets", "manifest"}
    BY <1>2, <1>3 DEF GuardFlow
  <2> QED
    BY <1>4, <2>1, <2>2, <2>3, <2>4
<1>6. DownloadsAreWatched'
  BY <1>1, <1>4, <1>5 DEF DownloadsAreWatched, Asked
<1> QED
  BY <1>1, <1>6 DEF CommandInv

LEMMA LearnKeeps ==
  ASSUME CommandInv, LearnDependencies
  PROVE  CommandInv'
<1>1. cpc = "handed" /\ cpc' = "learnt" /\ line' = line /\ setting' = setting /\ handed' = handed
  BY DEF LearnDependencies
<1>2. line \in CommandLines /\ DownloadsAreWatched
  BY DEF CommandInv
<1>3. DownloadsAreWatched'
  BY <1>1, <1>2 DEF DownloadsAreWatched, Asked
<1> QED
  BY <1>1, <1>2, <1>3 DEF CommandInv

LEMMA CommandStutters ==
  ASSUME CommandInv, UNCHANGED commandVars
  PROVE  CommandInv'
<1>1. /\ cpc' = cpc /\ line' = line /\ setting' = setting /\ parsed' = parsed /\ bounds' = bounds
      /\ handed' = handed
  BY DEF commandVars
<1>2. DownloadsAreWatched'
  BY <1>1 DEF CommandInv, DownloadsAreWatched, Asked
<1> QED
  BY <1>1, <1>2 DEF CommandInv

LEMMA CommandIsInvariant == CommandSpec => []CommandInv
<1>1. CommandInv /\ [CommandNext]_commandVars => CommandInv'
  BY ParseNpmKeeps, ParsePypiKeeps, ResolveKeeps, HandOverKeeps, LearnKeeps, CommandStutters
     DEF CommandNext
<1> QED
  BY <1>1, InitCommand, PTL DEF CommandSpec

LEMMA InvIsUnderstood == CommandInv => CommandIsUnderstood
<1> SUFFICES ASSUME CommandInv PROVE CommandIsUnderstood
  OBVIOUS
<1>1. TargetsAreNamed
  <2>1. ASSUME cpc = "parsed", line.manager \notin Pypis PROVE TargetsAreNamed
    <3>1. Understood(parsed, line.asked)
      BY <2>1 DEF CommandInv
    <3> QED
      BY <3>1 DEF TargetsAreNamed, Understood, AreTargets, PackagesOf, Asked
  <2>2. ASSUME cpc \in {"resolving", "parsed"}, line.manager \in Pypis PROVE TargetsAreNamed
    <3>1. Standing(parsed, bounds, line.asked)
      BY <2>2 DEF CommandInv
    <3>2. PackagesOf(ToSet(parsed.targets)) = PackagesOf(line.asked.packages)
      BY <3>1, StandingNames
    <3>3. (parsed.manifest /\ parsed.targets = <<>>)
            = (line.asked.manifest /\ line.asked.packages = {})
      BY <3>1 DEF Standing
    <3> QED
      BY <2>2, <3>2, <3>3 DEF TargetsAreNamed, PackagesOf, Asked
  <2>3. ASSUME cpc \notin {"resolving", "parsed"} PROVE TargetsAreNamed
    BY <2>3 DEF TargetsAreNamed
  <2> QED
    BY <2>1, <2>2, <2>3 DEF CommandInv
<1>2. RangeIsHonoured
  <2> SUFFICES ASSUME cpc = "parsed", line.manager \in Pypis, NEW t \in ToSet(parsed.targets)
               PROVE  \E p \in Asked :
                        /\ p.name = t.name /\ t.explicit = (p.ranges # {})
                        /\ \A r \in p.ranges : Allows(r, t.version)
                        /\ t.version \notin Releases \/ \A v \in AllowedFor(p) : ~Before(t.version, v)
    BY DEF RangeIsHonoured
  <2>1. /\ Standing(parsed, bounds, line.asked)
        /\ \A i \in DOMAIN parsed.targets : parsed.targets[i].version # <<>>
    BY DEF CommandInv
  <2>2. PICK p \in line.asked.packages :
           /\ p.name = t.name /\ t.explicit = (p.ranges # {})
           /\ \A r \in p.ranges : Allows(r, t.version)
           /\ \/ t.version \notin Releases
              \/ \A u \in Releases : (\A r \in p.ranges : Allows(r, u)) => ~Before(t.version, u)
    BY <2>1, StandingVersions
  <2>3. t.version \notin Releases \/ \A v \in AllowedFor(p) : ~Before(t.version, v)
    BY <2>2 DEF AllowedFor
  <2> QED
    BY <2>2, <2>3 DEF Asked
<1> QED
  BY <1>1, <1>2 DEF CommandIsUnderstood

\* Whatever is typed, PMG either refuses it or takes it for the packages its package
\* manager would install, and chooses the latest release within their ranges: the parsers
\* of npm.go, npm_executor.go and pypi.go, and findBestMatchingVersion.
THEOREM CommandsAreUnderstood == CommandSpec => []CommandIsUnderstood
  BY CommandIsInvariant, InvIsUnderstood, PTL

\* Whatever is typed and whatever is configured, a command that may download packages
\* goes through the proxy or the guard and stays in its sandbox, unless the user has
\* listed it: FirstWordInList never finds a harmless word in it that is not its command.
THEOREM CommandsAreWatched == CommandSpec => []DownloadsAreWatched
<1>1. CommandInv => DownloadsAreWatched
  BY DEF CommandInv
<1> QED
  BY <1>1, CommandIsInvariant, PTL
=============================================================================
