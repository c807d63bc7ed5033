--------------------------- MODULE LandlockSandbox ---------------------------
(***************************************************************************)
(* A package manager run in the Landlock sandbox (sandbox/executor,          *)
(* sandbox/platform/landlock_*, internal/runner).  pmg decides whether the    *)
(* command is confined, leaves the policy in a temporary file and starts a    *)
(* helper; the helper starts a shim in a user namespace; the shim installs a  *)
(* seccomp filter, sends its notification descriptor back to the helper,      *)
(* restricts itself with Landlock and becomes the command.  From then on the  *)
(* kernel stops every open and exec of the command and of its descendants     *)
(* until a goroutine of the helper, the supervisor loop, has answered it.     *)
(*                                                                           *)
(* A task has one thread.  A path, with the access asked for, is only denied  *)
(* or not.  The kernel is modelled from how the code uses it.                 *)
(***************************************************************************)
EXTENDS Naturals, FiniteSets

CONSTANTS
  Child,        \* the task that is the shim and then the command
  Descendants,  \* the process ids of its descendants
  Nobody,
  Configs,      \* what config, policy and platform may be
  MaxCalls,     \* bound: opens and execs of the command and its descendants
  MaxForks,     \* bound: forks of the command and its descendants
  MaxKills      \* bound: kills of pmg or of the helper

Tasks == {Child} \cup Descendants

ConfigType == [enabled : BOOLEAN, override : BOOLEAN, listed : BOOLEAN, on : BOOLEAN,
               loads : BOOLEAN, applies : BOOLEAN, available : BOOLEAN,
               denies : BOOLEAN, pidNs : BOOLEAN]

ASSUME LandlockAssumption ==
  /\ Child \notin Descendants /\ Nobody \notin Tasks
  /\ Configs \subseteq ConfigType
  /\ MaxCalls \in Nat /\ MaxForks \in Nat /\ MaxKills \in Nat

VARIABLES
  cfg,
  parent,      \* where pmg is
  files,       \* of the policy file and the audit socket, what is on disk
  helper,      \* where the helper is
  tied,        \* the helper is killed with pmg
  shimEnd,     \* the shim holds its end of the socket pair
  listener,    \* who holds the notification descriptor
  enforcing,   \* the supervisor has got the deny lists
  stop,        \* the event descriptor that ends the loop
  loop,        \* where the supervisor loop is, with the call it is at
  memFd,       \* what the helper's descriptor of the child's memory is worth
  cache,       \* what the cached descriptor of each task's memory is worth
  task,        \* where each task is
  call,        \* the call of each task that waits for an answer
  readable,    \* the tasks whose memory the helper may open
  confined,    \* what the shim has put on itself, and all its descendants inherit
  isolated,    \* the child is the init of a PID namespace
  spent        \* history: calls, forks and kills so far

parentVars == <<cfg, parent, files>>
helperVars == <<helper, tied, enforcing, stop, isolated>>
taskVars   == <<task, call, readable, confined, shimEnd, listener>>
memVars    == <<memFd, cache>>
vars == <<parentVars, helperVars, loop, taskVars, memVars, spent>>

NoCall == [kind |-> "none", denied |-> FALSE, at |-> "none"]
Calls  == {NoCall} \cup
          [kind : {"open", "exec"}, denied : BOOLEAN, at : {"sent", "taken"}]
Fds    == {"none", "current", "stale"}
Idle   == [at |-> "off", pid |-> Nobody, kind |-> "none", denied |-> FALSE,
           looked |-> FALSE, deny |-> FALSE]

ParentTypes ==
  /\ cfg \in ConfigType
  /\ parent \in {"apply", "write", "listen", "start", "wait", "close", "done", "killed"}
  /\ files \subseteq {"policy", "socket"}

HelperTypes ==
  /\ helper \in {"none", "read", "tie", "spawn", "receive", "open", "enforce", "wait",
                 "stop", "join", "gone"}
  /\ tied \in BOOLEAN /\ enforcing \in BOOLEAN /\ stop \in BOOLEAN /\ isolated \in BOOLEAN

LoopTypes ==
  loop \in [at : {"off", "poll", "receive", "load", "look", "respond", "drop", "done"},
            pid : Tasks \cup {Nobody}, kind : {"none", "open", "exec"},
            denied : BOOLEAN, looked : BOOLEAN, deny : BOOLEAN]

TaskTypes ==
  /\ task \in [Tasks -> {"free", "read", "filter", "send", "restrict", "exec", "run", "dead"}]
  /\ call \in [Tasks -> Calls]
  /\ readable \subseteq Tasks
  /\ confined \subseteq {"filter", "landlock"}
  /\ shimEnd \in BOOLEAN
  /\ listener \subseteq {"shim", "message", "helper"}

MemTypes ==
  /\ memFd \in Fds \cup {"closed"}
  /\ cache \in [Tasks -> Fds \cup {"helper", "foreign"}]

TypeOK ==
  /\ ParentTypes /\ HelperTypes /\ LoopTypes /\ TaskTypes /\ MemTypes
  /\ spent \in [calls : Nat, forks : Nat, kills : Nat]

Init ==
  /\ cfg \in Configs
  /\ parent = "apply" /\ files = {}
  /\ helper = "none" /\ tied = FALSE /\ isolated = FALSE
  /\ shimEnd = FALSE /\ listener = {}
  /\ enforcing = FALSE /\ stop = FALSE
  /\ loop = Idle
  /\ memFd = "none" /\ cache = [t \in Tasks |-> "none"]
  /\ task = [t \in Tasks |-> "free"] /\ call = [t \in Tasks |-> NoCall]
  /\ readable = {} /\ confined = {}
  /\ spent = [calls |-> 0, forks |-> 0, kills |-> 0]

Alive(t) == task[t] \notin {"free", "dead"}

-----------------------------------------------------------------------------
(* pmg                                                                      *)

GotoParent(from, to) == parent = from /\ parent' = to

\* The user has said that this package manager runs without a sandbox.
DisabledByUser(c) == ~c.enabled \/ (~c.override /\ c.listed /\ ~c.on)

\* ApplySandbox returns an empty result, and the caller runs the command as it is.
RunsBare(c) == DisabledByUser(c)

\* ApplySandbox reaches sb.Execute.
RunsSandboxed(c) ==
  /\ ~RunsBare(c)
  /\ c.override \/ c.listed
  /\ c.loads /\ c.applies /\ c.available

ApplyBare ==
  /\ RunsBare(cfg)
  /\ GotoParent("apply", "wait")
  /\ task' = [task EXCEPT ![Child] = "run"]
  /\ readable' = {Child}
  /\ UNCHANGED <<cfg, files, helperVars, loop, call, confined, shimEnd, listener, memVars, spent>>

ApplyRefused ==
  /\ ~RunsBare(cfg) /\ ~RunsSandboxed(cfg)
  /\ GotoParent("apply", "done")
  /\ UNCHANGED <<cfg, files, helperVars, loop, taskVars, memVars, spent>>

ApplySandboxed ==
  /\ RunsSandboxed(cfg)
  /\ GotoParent("apply", "write")
  /\ UNCHANGED <<cfg, files, helperVars, loop, taskVars, memVars, spent>>

\* Execute: the policy is translated and written; what fails leaves no file.
WritePolicy ==
  /\ \/ GotoParent("write", "listen") /\ files' = {"policy"}
     \/ GotoParent("write", "done") /\ UNCHANGED files
  /\ UNCHANGED <<cfg, helperVars, loop, taskVars, memVars, spent>>

Listen ==
  /\ GotoParent("listen", "start")
  /\ files' = files \cup {"socket"}
  /\ UNCHANGED <<cfg, helperVars, loop, taskVars, memVars, spent>>

\* Fault: a socket that cannot be opened is returned as an error and nothing else.
ListenFailsAtOnce ==
  /\ GotoParent("listen", "done")
  /\ UNCHANGED <<cfg, files, helperVars, loop, taskVars, memVars, spent>>

\* The caller has no result to close: Execute itself removes what it has made, for a
\* socket that cannot be opened as for an executable that cannot be found.
ListenFails ==
  /\ GotoParent("listen", "done")
  /\ files' = {}
  /\ UNCHANGED <<cfg, helperVars, loop, taskVars, memVars, spent>>

StartHelper ==
  /\ \/ GotoParent("start", "wait") /\ helper' = "read"
     \/ GotoParent("start", "close") /\ UNCHANGED helper
  /\ UNCHANGED <<cfg, files, tied, enforcing, stop, isolated, loop, taskVars, memVars, spent>>

\* cmd.Run and Session.Wait return when the process that was started has ended.
Waited ==
  /\ GotoParent("wait", "close")
  /\ IF RunsBare(cfg) THEN task[Child] = "dead" ELSE helper = "gone"
  /\ UNCHANGED <<cfg, files, helperVars, loop, taskVars, memVars, spent>>

\* The deferred result.Close.
Close ==
  /\ GotoParent("close", "done")
  /\ files' = {}
  /\ UNCHANGED <<cfg, helperVars, loop, taskVars, memVars, spent>>

Parent ==
  \/ ApplyBare \/ ApplyRefused \/ ApplySandboxed
  \/ WritePolicy \/ Listen \/ ListenFails \/ StartHelper \/ Waited \/ Close

-----------------------------------------------------------------------------
(* The kernel                                                               *)

\* The filter notifies execs, and opens only if the policy denies some path.
Notified(kind) == "filter" \in confined /\ (kind = "exec" \/ cfg.denies)

\* The end of the init of a PID namespace is the end of every task in it.
EndingWith(t) == IF t = Child /\ isolated THEN {u \in Tasks : Alive(u)} ELSE {t}

End(S) ==
  /\ task' = [t \in Tasks |-> IF t \in S THEN "dead" ELSE task[t]]
  /\ call' = [t \in Tasks |-> IF t \in S THEN NoCall ELSE call[t]]
  /\ shimEnd' = (shimEnd /\ Child \notin S)
  /\ listener' = IF Child \in S THEN listener \ {"shim"} ELSE listener
  /\ UNCHANGED <<readable, confined>>

Returned(t) ==
  /\ call' = [call EXCEPT ![t] = NoCall]
  /\ UNCHANGED <<task, readable, confined, shimEnd, listener>>

\* EACCES for a denied call, ENOSYS for one nobody listens to: the shim gives up.
Refused(t) ==
  /\ IF task[t] = "run" THEN Returned(t) ELSE End({t})
  /\ UNCHANGED memVars

\* A new image: a descriptor of the old one's memory reads nothing.
Execed(t) ==
  /\ call' = [call EXCEPT ![t] = NoCall]
  /\ task' = [task EXCEPT ![t] = "run"]
  /\ readable' \in {readable \cup {t}, readable \ {t}}
  /\ cache' = [cache EXCEPT ![t] = IF @ = "current" THEN "stale" ELSE @]
  /\ memFd' = IF t = Child /\ memFd = "current" THEN "stale" ELSE memFd
  /\ UNCHANGED <<confined, shimEnd, listener>>

Opened(t) ==
  /\ call' = [call EXCEPT ![t] = NoCall]
  /\ IF task[t] = "restrict"
       THEN task' = [task EXCEPT ![t] = "exec"] /\ confined' = confined \cup {"landlock"}
       ELSE UNCHANGED <<task, confined>>
  /\ UNCHANGED <<readable, shimEnd, listener, memVars>>

\* The call goes on as if there were no filter, and may still fail.
LetThrough(t) ==
  \/ call[t].kind = "open" /\ Opened(t)
  \/ call[t].kind = "exec" /\ Execed(t)
  \/ call[t].kind = "exec" /\ Refused(t)

Unanswerable(t) ==
  /\ call[t] # NoCall /\ listener = {}
  /\ Refused(t)
  /\ UNCHANGED <<parentVars, helperVars, loop, spent>>

-----------------------------------------------------------------------------
(* The shim, the command and its descendants                                *)

Move(from, to) == task[Child] = from /\ task' = [task EXCEPT ![Child] = to]

Call(t, kind) ==
  \E denied \in BOOLEAN :
    call' = [call EXCEPT ![t] = [kind |-> kind, denied |-> denied, at |-> "sent"]]

\* The shim reads the policy for itself, after the helper has.
ShimRead ==
  /\ "policy" \in files
  /\ Move("read", "filter")
  /\ UNCHANGED <<parentVars, helperVars, loop, call, readable, confined, shimEnd, listener, memVars, spent>>

ShimFilter ==
  /\ Move("filter", "send")
  /\ confined' = confined \cup {"filter"}
  /\ listener' = {"shim"}
  /\ UNCHANGED <<parentVars, helperVars, loop, call, readable, shimEnd, memVars, spent>>

\* sendFdToSocket, and the shim closes its own copy and its end of the pair.
ShimSend ==
  /\ helper # "gone"
  /\ Move("send", "restrict")
  /\ listener' = (listener \ {"shim"}) \cup {"message"}
  /\ shimEnd' = FALSE
  /\ UNCHANGED <<parentVars, helperVars, loop, call, readable, confined, memVars, spent>>

\* RestrictPaths opens the paths of its rules, which the filter notifies.
ShimRestrict ==
  /\ task[Child] = "restrict" /\ call[Child] = NoCall
  /\ IF Notified("open")
       THEN Call(Child, "open") /\ UNCHANGED <<task, confined>>
       ELSE /\ Move("restrict", "exec")
            /\ confined' = confined \cup {"landlock"}
            /\ UNCHANGED call
  /\ UNCHANGED <<parentVars, helperVars, loop, readable, shimEnd, listener, memVars, spent>>

ShimExec ==
  /\ task[Child] = "exec" /\ call[Child] = NoCall
  /\ Call(Child, "exec")
  /\ UNCHANGED <<parentVars, helperVars, loop, task, readable, confined, shimEnd, listener, memVars, spent>>

\* Any step of the shim that fails ends it.
ShimFails ==
  /\ task[Child] \in {"read", "filter", "send", "restrict"} /\ call[Child] = NoCall
  /\ End({Child})
  /\ UNCHANGED <<parentVars, helperVars, loop, memVars, spent>>

Shim == ShimRead \/ ShimFilter \/ ShimSend \/ ShimRestrict \/ ShimExec \/ ShimFails

Runs(t) == task[t] = "run" /\ call[t] = NoCall

CommandCalls(t) ==
  /\ Runs(t) /\ spent.calls < MaxCalls
  /\ \E kind \in {"open", "exec"} : Notified(kind) /\ Call(t, kind)
  /\ spent' = [spent EXCEPT !.calls = @ + 1]
  /\ UNCHANGED <<parentVars, helperVars, loop, task, readable, confined, shimEnd, listener, memVars>>

\* A process id may have been another task's, whose memory is still in the cache.
Fork(t, d) ==
  /\ Runs(t) /\ ~Alive(d) /\ spent.forks < MaxForks
  /\ task' = [task EXCEPT ![d] = "run"]
  /\ readable' = IF t \in readable THEN readable \cup {d} ELSE readable \ {d}
  /\ cache' = [cache EXCEPT ![d] = IF @ = "none" THEN @ ELSE "foreign"]
  /\ spent' = [spent EXCEPT !.forks = @ + 1]
  /\ UNCHANGED <<parentVars, helperVars, loop, call, confined, shimEnd, listener, memFd>>

\* By itself, or by a signal: one that reaches the helper is passed on to the child.
Exit(t) ==
  /\ task[t] = "run"
  /\ End(EndingWith(t))
  /\ UNCHANGED <<parentVars, helperVars, loop, memVars, spent>>

-----------------------------------------------------------------------------
(* The supervisor loop                                                      *)

LoopAt(from, to) == loop.at = from /\ loop' = [loop EXCEPT !.at = to]

Respond(looked, deny) ==
  loop' = [loop EXCEPT !.at = "respond", !.looked = looked, !.deny = deny]

Awaited == \E t \in Tasks : call[t].at = "sent"

\* waitForNotif: the stop signal goes first.  The listener is also ready when no task is
\* left under the filter.
Poll ==
  /\ \/ stop /\ LoopAt("poll", "done")
     \/ ~stop /\ (Awaited \/ ~\E t \in Tasks : Alive(t)) /\ LoopAt("poll", "receive")
  /\ UNCHANGED <<parentVars, helperVars, taskVars, memVars, spent>>

\* Fault: whatever recvNotification returns as an error ends the loop.
ReceiveOrQuit ==
  /\ loop.at = "receive"
  /\ \/ \E t \in Tasks :
          /\ call[t].at = "sent"
          /\ call' = [call EXCEPT ![t].at = "taken"]
          /\ loop' = [loop EXCEPT !.at = "load", !.pid = t, !.kind = call[t].kind,
                                  !.denied = call[t].denied]
     \/ /\ ~Awaited
        /\ loop' = [loop EXCEPT !.at = "done"]
        /\ UNCHANGED call
  /\ UNCHANGED <<parentVars, helperVars, task, readable, confined, shimEnd, listener, memVars, spent>>

\* recvNotification: the caller may have ended since (ENOENT); with no task left it fails
\* and the loop with it.
Receive ==
  /\ loop.at = "receive"
  /\ \/ \E t \in Tasks :
          /\ call[t].at = "sent"
          /\ call' = [call EXCEPT ![t].at = "taken"]
          /\ loop' = [loop EXCEPT !.at = "load", !.pid = t, !.kind = call[t].kind,
                                  !.denied = call[t].denied]
     \/ /\ ~Awaited
        /\ loop' = [loop EXCEPT !.at = IF \E t \in Tasks : Alive(t) THEN "poll" ELSE "done"]
        /\ UNCHANGED call
  /\ UNCHANGED <<parentVars, helperVars, task, readable, confined, shimEnd, listener, memVars, spent>>

\* phase.Load: before Enforce every call goes on.
Load ==
  /\ loop.at = "load"
  /\ IF enforcing THEN LoopAt("load", "look") ELSE Respond(FALSE, FALSE)
  /\ UNCHANGED <<parentVars, helperVars, taskVars, memVars, spent>>

Worth(t) == IF cache[t] = "helper" THEN memFd ELSE cache[t]

\* handleExec and handleOpen up to the verdict: memFdFor keeps the descriptor it opens, and
\* what cannot be read goes on.
Look ==
  LET t == loop.pid
      opens == cache[t] = "none" /\ Alive(t) /\ t \in readable
  IN /\ loop.at = "look"
     /\ cache' = IF opens THEN [cache EXCEPT ![t] = "current"] ELSE cache
     /\ Respond(TRUE, loop.denied /\ (opens \/ Worth(t) = "current"))
     /\ UNCHANGED <<parentVars, helperVars, taskVars, memFd, spent>>

\* Fault: the descriptor outlives the image it was opened for.
NeverDropped == [Idle EXCEPT !.at = "poll"]

\* What the loop does once it has answered.
NextCall ==
  IF loop.looked /\ loop.kind = "exec" THEN [loop EXCEPT !.at = "drop"]
  ELSE [Idle EXCEPT !.at = "poll"]

\* respondDeny and respondContinue: the answer to a call whose task has ended is lost.
Answer ==
  /\ loop.at = "respond"
  /\ loop' = NextCall
  /\ IF call[loop.pid].at = "taken"
       THEN IF loop.deny THEN Refused(loop.pid) ELSE LetThrough(loop.pid)
       ELSE UNCHANGED <<taskVars, memVars>>
  /\ UNCHANGED <<parentVars, helperVars, spent>>

\* invalidateMemFd, after every exec that was looked at.
Drop ==
  /\ loop.at = "drop"
  /\ loop' = [Idle EXCEPT !.at = "poll"]
  /\ memFd' = IF cache[loop.pid] = "helper" THEN "closed" ELSE memFd
  /\ cache' = [cache EXCEPT ![loop.pid] = "none"]
  /\ UNCHANGED <<parentVars, helperVars, taskVars, spent>>

Loop == Poll \/ Receive \/ Load \/ Look \/ Answer \/ Drop
-----------------------------------------------------------------------------
(* The helper                                                               *)

GotoHelper(from, to) == helper = from /\ helper' = to

HelperRead ==
  /\ "policy" \in files
  /\ GotoHelper("read", "tie")
  /\ UNCHANGED <<parentVars, tied, enforcing, stop, isolated, loop, taskVars, memVars, spent>>

\* prctl(PR_SET_PDEATHSIG): a parent that is gone already sends no signal.
HelperTie ==
  /\ GotoHelper("tie", "spawn")
  /\ tied' = (parent # "killed")
  /\ UNCHANGED <<parentVars, enforcing, stop, isolated, loop, taskVars, memVars, spent>>

\* The shim is cloned into a PID namespace, or without one where that is not permitted;
\* the helper's copy of the shim's end is closed.
HelperSpawn ==
  /\ GotoHelper("spawn", "receive")
  /\ task' = [task EXCEPT ![Child] = "read"]
  /\ readable' = {Child}
  /\ isolated' \in {cfg.pidNs, FALSE}
  /\ shimEnd' = TRUE
  /\ UNCHANGED <<parentVars, tied, enforcing, stop, loop, call, confined, listener, memVars, spent>>

\* receiveNotifyFd, and newLandlockSupervisorFromFd starts the loop.
HelperReceive ==
  /\ "message" \in listener
  /\ GotoHelper("receive", "open")
  /\ listener' = (listener \ {"message"}) \cup {"helper"}
  /\ loop' = [Idle EXCEPT !.at = "poll"]
  /\ UNCHANGED <<parentVars, tied, enforcing, stop, isolated, task, call, readable, confined, shimEnd, memVars, spent>>

\* The end of the helper's process, in whatever way: its descriptors are closed with it.
HelperEnds ==
  /\ helper' = "gone"
  /\ loop' = IF loop.at = "off" THEN Idle ELSE [Idle EXCEPT !.at = "done"]
  /\ memFd' = IF memFd = "none" THEN "none" ELSE "closed"
  /\ cache' = [t \in Tasks |-> "none"]
  /\ UNCHANGED <<tied, enforcing, stop, isolated>>

\* An error before the shim exists; the deferred removal of the policy is only set up
\* once it has been read.
HelperGivesUp ==
  /\ helper \in {"read", "tie", "spawn"}
  /\ HelperEnds
  /\ files' = IF helper = "read" THEN files ELSE files \ {"policy"}
  /\ UNCHANGED <<cfg, parent, taskVars, spent>>

\* Nobody is left to send the descriptor, or it came and could not be used: the shim is
\* killed and waited for.
HelperReceiveFails ==
  /\ helper = "receive"
  /\ "message" \in listener \/ ~shimEnd
  /\ HelperEnds
  /\ files' = files \ {"policy"}
  /\ LET S == {t \in EndingWith(Child) : Alive(t)} IN
       /\ task' = [t \in Tasks |-> IF t \in S THEN "dead" ELSE task[t]]
       /\ call' = [t \in Tasks |-> IF t \in S THEN NoCall ELSE call[t]]
  /\ listener' = {}
  /\ UNCHANGED <<cfg, parent, readable, confined, shimEnd, spent>>

\* openLandlockChildMemFd
HelperOpen ==
  /\ GotoHelper("open", "enforce")
  /\ Child \in readable
  /\ memFd' = IF Alive(Child) THEN "current" ELSE "stale"
  /\ UNCHANGED <<parentVars, tied, enforcing, stop, isolated, loop, taskVars, cache, spent>>

\* Its memory cannot be opened: the child is killed and the supervisor stopped.
HelperOpenFails ==
  /\ GotoHelper("open", "stop")
  /\ Child \notin readable \/ ~Alive(Child)
  /\ IF Alive(Child) THEN End(EndingWith(Child)) ELSE UNCHANGED taskVars
  /\ UNCHANGED <<parentVars, tied, enforcing, stop, isolated, loop, memVars, spent>>

HelperEnforce ==
  /\ GotoHelper("enforce", "wait")
  /\ enforcing' = TRUE
  /\ cache' = [cache EXCEPT ![Child] = "helper"]
  /\ UNCHANGED <<parentVars, tied, stop, isolated, loop, taskVars, memFd, spent>>

HelperWaited ==
  /\ GotoHelper("wait", "stop")
  /\ task[Child] = "dead"
  /\ UNCHANGED <<parentVars, tied, enforcing, stop, isolated, loop, taskVars, memVars, spent>>

\* (*seccompSupervisor).Stop writes the event descriptor ...
Stop ==
  /\ GotoHelper("stop", "join")
  /\ stop' = TRUE
  /\ UNCHANGED <<parentVars, tied, enforcing, isolated, loop, taskVars, memVars, spent>>

\* ... and waits for the loop.  After an error the policy is removed on the way out;
\* os.Exit skips that.
Join ==
  /\ helper = "join" /\ loop.at = "done"
  /\ HelperEnds
  /\ listener' = listener \ {"helper"}
  /\ files' = IF enforcing THEN files ELSE files \ {"policy"}
  /\ UNCHANGED <<cfg, parent, task, call, readable, confined, shimEnd, spent>>

Helper ==
  \/ HelperRead \/ HelperTie \/ HelperSpawn \/ HelperReceive \/ HelperGivesUp
  \/ HelperReceiveFails \/ HelperOpen \/ HelperOpenFails \/ HelperEnforce
  \/ HelperWaited \/ Stop \/ Join

-----------------------------------------------------------------------------
(* Kills                                                                    *)

ParentKilled ==
  /\ parent \notin {"done", "killed"} /\ spent.kills < MaxKills
  /\ parent' = "killed"
  /\ spent' = [spent EXCEPT !.kills = @ + 1]
  /\ UNCHANGED <<cfg, files, helperVars, loop, taskVars, memVars>>

Killed ==
  /\ helper \notin {"none", "gone"}
  /\ HelperEnds
  /\ listener' = listener \ {"helper", "message"}
  /\ UNCHANGED <<parentVars, task, call, readable, confined, shimEnd>>

\* The helper goes with its parent ...
HelperOrphaned ==
  /\ parent = "killed" /\ tied
  /\ Killed
  /\ UNCHANGED spent

\* ... or is killed by it: exec.CommandContext, when the context is cancelled.
HelperCancelled ==
  /\ parent = "wait" /\ spent.kills < MaxKills
  /\ Killed
  /\ spent' = [spent EXCEPT !.kills = @ + 1]

-----------------------------------------------------------------------------
(* The run                                                                  *)

Command(t) == CommandCalls(t) \/ Exit(t) \/ \E d \in Descendants : Fork(t, d)

Over ==
  /\ parent \in {"done", "killed"} /\ helper \in {"none", "gone"}
  /\ \A t \in Tasks : ~Alive(t)
  /\ UNCHANGED vars

Next ==
  \/ Parent \/ Helper \/ Loop \/ Shim
  \/ \E t \in Tasks : Command(t) \/ Unanswerable(t)
  \/ ParentKilled \/ HelperOrphaned \/ HelperCancelled
  \/ Over

Spec == Init /\ [][Next]_vars

\* The processes, the loop and the kernel go on; the command may run for ever.
FairSpec ==
  /\ Spec
  /\ WF_vars(Parent) /\ WF_vars(Helper) /\ WF_vars(Loop) /\ WF_vars(Shim)
  /\ WF_vars(HelperOrphaned)
  /\ \A t \in Tasks : WF_vars(Unanswerable(t))

-----------------------------------------------------------------------------
(* What the sandbox is for                                                  *)

\* A command runs unconfined only if the user has switched the sandbox off, for all or for
\* this package manager: every other way through ApplySandbox, and every error of helper
\* and shim, ends without the command (sandbox/executor/apply.go:36-37).
RunsConfined ==
  (\E t \in Tasks : task[t] = "run") => DisabledByUser(cfg) \/ confined = {"filter", "landlock"}

\* Once the supervisor has its deny lists, a denied call is let through only if the
\* caller's memory cannot be opened, or if it is read through a descriptor that is not
\* the caller's any more: the helper's first one, or one of a task with the same id.  No
\* descriptor the loop has opened itself outlives the image it was opened for.
OnlyUnreadablePasses ==
  loop.at = "respond" /\ loop.looked /\ loop.denied /\ ~loop.deny
    /\ call[loop.pid].at = "taken"
  => loop.pid \notin readable \/ cache[loop.pid] \in {"helper", "foreign"}

\* Neither the command nor a descendant of it reaches a path the supervisor denies, but
\* by a notification it could not read.
ConfinementHolds == RunsConfined /\ OnlyUnreadablePasses

\* What pmg has put in the temporary directory is gone when it returns, whichever of
\* pmg and the helper met an error.
NothingLeftBehind == parent = "done" => files = {}

\* Nothing waits for ever: a notified call is answered, refused for want of a listener, or
\* its task ends, also when helper, shim or supervisor stop half-way.
CallsAnswered == \A t \in Tasks : call[t] # NoCall ~> call[t] = NoCall

\* Once the command or the shim has ended, so do the helper and pmg, whatever descendants
\* are still running.
RunReturns == task[Child] = "dead" ~> parent \in {"done", "killed"} /\ helper \in {"none", "gone"}

NothingWaitsForever == CallsAnswered /\ RunReturns
=============================================================================
