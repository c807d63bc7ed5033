----------------------------- MODULE AikidoFeed -----------------------------
(***************************************************************************)
(* The malware feed of one ecosystem (analyzer/aikido_intel.go): the        *)
(* snapshot in memory that every analysis of the process reads, loaded once *)
(* by the first caller, replaced in the background once its TTL is over,    *)
(* and the copy on disk that a load falls back to.                          *)
(*                                                                         *)
(* Callers are the analyses of one pmg process, Refreshers the background   *)
(* goroutines they start, and Command the "pmg aikido refresh" of another   *)
(* process, which shares the copy on disk only.  A feed is its edition, the *)
(* number of times upstream has published one; 0 is "no feed", and on disk  *)
(* a file that is missing, truncated or does not parse.                     *)
(***************************************************************************)
EXTENDS Naturals, FiniteSets

CONSTANTS
  Callers,      \* goroutines in Analyze
  Refreshers,   \* background goroutines of getSnapshot
  Command,      \* the process of "pmg aikido refresh"
  Editions,     \* bound: editions upstream publishes
  Restarts      \* bound: times the pmg process ends and is started again

Loaders == Callers \cup Refreshers \cup {Command}

ASSUME FeedAssumption ==
  /\ Editions \in Nat \ {0}
  /\ Restarts \in Nat
  /\ Callers \cap Refreshers = {}
  /\ Command \notin Callers \cup Refreshers

VARIABLES
  pc,           \* where each goroutine is
  got,          \* the edition it has in hand: a caller's answer, a loader's entries
  upstream,     \* the edition the feed's URL serves
  disk,         \* the edition of aikido-<ecosystem>.json
  snapshot,     \* eco.snapshot: an edition, and whether it is within CacheTTL
  once,         \* eco.once
  refreshing,   \* eco.refreshing
  restarts

goVars   == <<pc, got>>
memVars  == <<snapshot, once, refreshing>>
vars == <<goVars, memVars, upstream, disk, restarts>>

\* In loadSnapshot, with the feed not published yet.
Loading == {"fetching", "saving", "writing", "reading", "publishing"}

Phases == Loading \cup {"idle", "once", "stale", "leaving", "reread", "answered"}

EditionOrNone == 0..Editions

TypeOK ==
  /\ pc \in [Loaders -> Phases]
  /\ got \in [Loaders -> EditionOrNone]
  /\ upstream \in 1..Editions
  /\ disk \in EditionOrNone
  /\ snapshot \in [ed : EditionOrNone, fresh : BOOLEAN]
  /\ once \in {"new", "running", "done"}
  /\ refreshing \in BOOLEAN
  /\ restarts \in 0..Restarts

NoSnapshot == [ed |-> 0, fresh |-> FALSE]

Init ==
  /\ pc = [l \in Loaders |-> "idle"]
  /\ got = [l \in Loaders |-> 0]
  /\ upstream = 1
  /\ disk \in {0, 1}
  /\ snapshot = NoSnapshot
  /\ once = "new"
  /\ refreshing = FALSE
  /\ restarts = 0

Goto(l, from, to) == pc[l] = from /\ pc' = [pc EXCEPT ![l] = to]
Hold(l, e) == got' = [got EXCEPT ![l] = e]

-----------------------------------------------------------------------------
(* getSnapshot                                                              *)

\* The first read under the lock decides which way the call goes.
LookFresh(c) ==
  /\ Goto(c, "idle", "answered")
  /\ snapshot.ed # 0 /\ snapshot.fresh
  /\ Hold(c, snapshot.ed)
  /\ UNCHANGED <<memVars, upstream, disk, restarts>>

LookStale(c) ==
  /\ Goto(c, "idle", "stale")
  /\ snapshot.ed # 0 /\ ~snapshot.fresh
  /\ Hold(c, snapshot.ed)
  /\ UNCHANGED <<memVars, upstream, disk, restarts>>

LookNone(c) ==
  /\ Goto(c, "idle", "once")
  /\ snapshot.ed = 0
  /\ UNCHANGED <<got, memVars, upstream, disk, restarts>>

\* once.Do: the first caller loads, with its own context.
EnterOnce(c) ==
  /\ Goto(c, "once", "fetching")
  /\ once = "new"
  /\ once' = "running"
  /\ UNCHANGED <<got, snapshot, refreshing, upstream, disk, restarts>>

\* Fault: the other callers do not wait for the first.
PassOnceAtOnce(c) ==
  /\ Goto(c, "once", "reread")
  /\ once # "new"
  /\ UNCHANGED <<got, memVars, upstream, disk, restarts>>

\* once.Do returns to everybody else only when the first caller is done.
PassOnce(c) ==
  /\ Goto(c, "once", "reread")
  /\ once = "done"
  /\ UNCHANGED <<got, memVars, upstream, disk, restarts>>

\* The first caller leaves once.Do, whether it has loaded anything or not.
LeaveOnce(c) ==
  /\ Goto(c, "leaving", "reread")
  /\ once' = "done"
  /\ UNCHANGED <<got, snapshot, refreshing, upstream, disk, restarts>>

\* The second read under the lock; without a snapshot the answer is Degraded.
Reread(c) ==
  /\ Goto(c, "reread", "answered")
  /\ Hold(c, snapshot.ed)
  /\ UNCHANGED <<memVars, upstream, disk, restarts>>

\* Fault: every stale read starts a refresh.
StartRefreshAlways(c) ==
  /\ pc[c] = "stale"
  /\ refreshing' = TRUE
  /\ \E r \in Refreshers :
       /\ pc[r] = "idle"
       /\ pc' = [pc EXCEPT ![c] = "answered", ![r] = "fetching"]
  /\ UNCHANGED <<got, snapshot, once, upstream, disk, restarts>>

\* The compare-and-swap, and the goroutine its winner starts.  The stale
\* snapshot read before is the answer in any case.
StartRefresh(c) ==
  /\ pc[c] = "stale"
  /\ ~refreshing
  /\ refreshing' = TRUE
  /\ \E r \in Refreshers :
       /\ pc[r] = "idle"
       /\ pc' = [pc EXCEPT ![c] = "answered", ![r] = "fetching"]
  /\ UNCHANGED <<got, snapshot, once, upstream, disk, restarts>>

RefreshRuns(c) ==
  /\ Goto(c, "stale", "answered")
  /\ refreshing
  /\ UNCHANGED <<got, memVars, upstream, disk, restarts>>

\* The deferred refreshing.Store(false).
EndRefresh(r) ==
  /\ Goto(r, "leaving", "idle")
  /\ refreshing' = FALSE
  /\ Hold(r, 0)
  /\ UNCHANGED <<snapshot, once, upstream, disk, restarts>>

-----------------------------------------------------------------------------
(* loadSnapshot, by a caller in once.Do, a refresher or the command         *)

Fetched(l) ==
  /\ Goto(l, "fetching", "saving")
  /\ Hold(l, upstream)
  /\ UNCHANGED <<memVars, upstream, disk, restarts>>

\* No network, a status other than 200, a body that is no JSON, a timeout, or the
\* end of the context of the caller that happened to be first.
FetchFailed(l) ==
  /\ Goto(l, "fetching", "reading")
  /\ UNCHANGED <<got, memVars, upstream, disk, restarts>>

\* readDiskCache, whatever the age of the file.
ReadDisk(l) ==
  /\ Goto(l, "reading", "publishing")
  /\ disk # 0
  /\ Hold(l, disk)
  /\ UNCHANGED <<memVars, upstream, disk, restarts>>

NoDisk(l) ==
  /\ Goto(l, "reading", "leaving")
  /\ disk = 0
  /\ UNCHANGED <<got, memVars, upstream, disk, restarts>>

\* writeDiskCache: os.WriteFile truncates the file before it writes it.
Truncate(l) ==
  /\ Goto(l, "saving", "writing")
  /\ disk' = 0
  /\ UNCHANGED <<got, memVars, upstream, restarts>>

\* The directory or the file cannot be had; loadSnapshot goes on without.
SaveFailed(l) ==
  /\ Goto(l, "saving", "publishing")
  /\ UNCHANGED <<got, memVars, upstream, disk, restarts>>

\* Two writers at once may leave a mixture of both, and a full disk a part.
Write(l) ==
  /\ Goto(l, "writing", "publishing")
  /\ disk' \in {0, got[l]}
  /\ UNCHANGED <<got, memVars, upstream, restarts>>

\* The loaded snapshot replaces the one there is, under the lock; its age counts
\* from the load, also if it came from the disk.
Publish(l) ==
  /\ l # Command
  /\ Goto(l, "publishing", "leaving")
  /\ snapshot' = [ed |-> got[l], fresh |-> TRUE]
  /\ UNCHANGED <<got, once, refreshing, upstream, disk, restarts>>

\* Refresh of the command: the snapshot it publishes dies with its process.
RunCommand ==
  /\ Goto(Command, "idle", "fetching")
  /\ UNCHANGED <<got, memVars, upstream, disk, restarts>>

EndCommand ==
  /\ pc[Command] \in {"publishing", "leaving"}
  /\ pc' = [pc EXCEPT ![Command] = "idle"]
  /\ Hold(Command, 0)
  /\ UNCHANGED <<memVars, upstream, disk, restarts>>

Load(l) ==
  \/ Fetched(l) \/ FetchFailed(l) \/ ReadDisk(l) \/ NoDisk(l)
  \/ Truncate(l) \/ SaveFailed(l) \/ Write(l) \/ Publish(l)

-----------------------------------------------------------------------------
(* The environment                                                          *)

\* CacheTTL has passed since fetchedAt.
Expire ==
  /\ snapshot.fresh
  /\ snapshot' = [snapshot EXCEPT !.fresh = FALSE]
  /\ UNCHANGED <<goVars, once, refreshing, upstream, disk, restarts>>

NewEdition ==
  /\ upstream < Editions
  /\ upstream' = upstream + 1
  /\ UNCHANGED <<goVars, memVars, disk, restarts>>

\* The package manager is done: the pmg process ends, a refresh of the feed with
\* it wherever it is, and the next one starts with the file on disk.
Restart ==
  /\ restarts < Restarts
  /\ restarts' = restarts + 1
  /\ pc' = [l \in Loaders |-> IF l = Command THEN pc[l] ELSE "idle"]
  /\ got' = [l \in Loaders |-> IF l = Command THEN got[l] ELSE 0]
  /\ snapshot' = NoSnapshot
  /\ once' = "new"
  /\ refreshing' = FALSE
  /\ UNCHANGED <<upstream, disk>>

\* The next analysis of a goroutine of the pool.
NextCall(c) ==
  /\ Goto(c, "answered", "idle")
  /\ Hold(c, 0)
  /\ UNCHANGED <<memVars, upstream, disk, restarts>>

-----------------------------------------------------------------------------
Call(c) == LookFresh(c) \/ LookStale(c) \/ LookNone(c)

Progress(c) ==
  \/ Call(c) \/ EnterOnce(c) \/ PassOnce(c) \/ LeaveOnce(c) \/ Reread(c)
  \/ StartRefresh(c) \/ RefreshRuns(c)

Next ==
  \/ \E c \in Callers : Progress(c) \/ NextCall(c)
  \/ \E r \in Refreshers : EndRefresh(r)
  \/ \E l \in Loaders : Load(l)
  \/ RunCommand \/ EndCommand
  \/ Expire \/ NewEdition \/ Restart

Spec == Init /\ [][Next]_vars

\* Goroutines are scheduled and the HTTP client has a timeout.
FairSpec ==
  /\ Spec
  /\ \A c \in Callers : WF_vars(Progress(c) \/ Load(c))
  /\ \A r \in Refreshers : WF_vars(Load(r) \/ EndRefresh(r))

-----------------------------------------------------------------------------
(* Properties                                                               *)

\* However many analyses run at once, and however late one acts on the snapshot
\* it saw, at most one of the process's goroutines is loading the feed:
\* TestAikidoIntel_ConcurrentAnalyzeTriggersOneFetch, for every interleaving.
OneLoadAtATime ==
  \A l, m \in Callers \cup Refreshers :
    pc[l] \in Loading /\ pc[m] \in Loading => l = m

\* The analyses of a process agree on whether there is a feed.  Once one of them
\* was answered without it, and so may be blocked in paranoid mode, no other is
\* answered from a feed that came a moment later: none was let past a load that
\* was still under way, and none starts a second one.
DegradedMeansUnloaded ==
  (\E c \in Callers : pc[c] = "answered" /\ got[c] = 0) => snapshot.ed = 0

\* A lookup finds an index that one load has put there whole, or says that it has none.
LoadsAreSound == OneLoadAtATime /\ DegradedMeansUnloaded

\* A process that has the feed keeps it: a refresh that finds neither network nor
\* disk leaves the old snapshot in place.
LoadedStaysLoaded ==
  [][snapshot.ed # 0 => snapshot'.ed # 0 \/ restarts' # restarts]_vars

\* The feed goes back to an older edition only by way of the disk: what a load
\* has fetched is never older than what it replaces, however slow it was.
FetchNeverRegresses ==
  \A l \in Callers \cup Refreshers : pc[l] \in {"saving", "writing"} => got[l] >= snapshot.ed

\* Every analysis gets an answer, those that wait in once.Do included.
EveryCallAnswered ==
  \A c \in Callers : pc[c] = "once" ~> pc[c] \in {"answered", "idle"}

\* A background refresh ends, whatever becomes of it, so that the next stale
\* snapshot can start another.
RefreshEnds == refreshing ~> ~refreshing

\* Neither waits for ever, for the other or for the feed.
FeedWorkEnds == EveryCallAnswered /\ RefreshEnds
=============================================================================
