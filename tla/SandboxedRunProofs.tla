------------------------ MODULE SandboxedRunProofs --------------------------
(***************************************************************************)
(* The sandboxed run, for any configurations, descendants and bounds.       *)
(***************************************************************************)
EXTENDS SandboxedRun, WellFoundedInduction, SequenceTheorems, FiniteSetTheorems, TLAPS

\* Nothing runs before it is started.
StartHolds ==
  /\ parent \in {"apply", "write", "listen", "start"} => helper = "none" /\ task[Child] = "free"
  /\ helper \in {"read", "tie", "spawn"} => task[Child] = "free"

\* What a task is at goes with what the shim has put on itself, and with its call.
TaskHolds ==
  /\ \A t \in Tasks :
       /\ call[t].kind = "open" => task[t] \in {"restrict", "run"}
       /\ call[t].kind = "exec" => task[t] \in {"exec", "run"}
  /\ \A d \in Descendants : task[d] \in {"free", "run", "dead"}
  /\ ~DisabledByUser(cfg) =>
       /\ task[Child] \in {"send", "restrict"} => "filter" \in confined
       /\ (task[Child] = "exec" \/ \E t \in Tasks : task[t] = "run")
            => confined = {"filter", "landlock"}

\* The loop knows what it answers, and looks at nothing before the deny lists are there.
LoopHolds ==
  /\ helper \in {"none", "read", "tie", "spawn", "receive"} => loop.at = "off"
  /\ loop.at \in {"load", "look", "respond", "drop"} => loop.pid \in Tasks
  /\ loop.at \in {"load", "look", "respond"} /\ call[loop.pid].at = "taken"
       => loop.kind = call[loop.pid].kind
  /\ loop.at = "look" => enforcing

\* A descriptor goes stale only under the call the loop is about to drop it for.
CacheHolds ==
  /\ ~enforcing => \A t \in Tasks : cache[t] = "none"
  /\ \A d \in Descendants : cache[d] # "helper"
  /\ loop.at = "respond" /\ ~loop.looked => \A t \in Tasks : cache[t] \in {"none", "helper"}
  /\ \A t \in Tasks : cache[t] = "stale" => loop.at = "drop" /\ loop.pid = t
  /\ OnlyUnreadablePasses

SandboxInv == TypeOK /\ StartHolds /\ TaskHolds /\ LoopHolds /\ CacheHolds

-----------------------------------------------------------------------------
(* What the kernel does to a task                                           *)

LEMMA CallIsTyped ==
  ASSUME NEW c \in Calls
  PROVE  /\ c.kind \in {"none", "open", "exec"} /\ c.denied \in BOOLEAN
         /\ c.at \in {"none", "sent", "taken"}
         /\ c.at = "none" <=> c.kind = "none"
<1>1. CASE c = NoCall
  BY <1>1 DEF NoCall
<1>2. CASE c \in [kind : {"open", "exec"}, denied : BOOLEAN, at : {"sent", "taken"}]
  BY <1>2
<1> QED
  BY <1>1, <1>2 DEF Calls

LEMMA CallKeeps ==
  ASSUME TaskTypes, NEW t \in Tasks, NEW kind \in {"open", "exec"}, Call(t, kind)
  PROVE  /\ call' \in [Tasks -> Calls]
         /\ call'[t].kind = kind /\ call'[t].at = "sent"
         /\ \A u \in Tasks \ {t} : call'[u] = call[u]
BY DEF TaskTypes, Call, Calls

LEMMA TakenKeeps ==
  ASSUME TaskTypes, NEW t \in Tasks, call[t].at = "sent",
         call' = [call EXCEPT ![t].at = "taken"]
  PROVE  /\ call' \in [Tasks -> Calls]
         /\ \A u \in Tasks : call'[u].kind = call[u].kind
         /\ \A u \in Tasks \ {t} : call'[u] = call[u]
<1>1. [call[t] EXCEPT !.at = "taken"] \in Calls
  BY DEF TaskTypes, Calls, NoCall
<1>2. [call[t] EXCEPT !.at = "taken"].kind = call[t].kind
  BY DEF TaskTypes, Calls, NoCall
<1> QED
  BY <1>1, <1>2 DEF TaskTypes

LEMMA RespondKeeps ==
  ASSUME LoopTypes, NEW looked \in BOOLEAN, NEW deny \in BOOLEAN, Respond(looked, deny)
  PROVE  LoopTypes' /\ loop'.at = "respond" /\ loop'.looked = looked
BY DEF LoopTypes, Respond

\* recvNotification has a caller, or has none and the loop goes on or ends.
Received(t) ==
  /\ call[t].at = "sent" /\ call' = [call EXCEPT ![t].at = "taken"]
  /\ loop' = [loop EXCEPT !.at = "load", !.pid = t, !.kind = call[t].kind,
                          !.denied = call[t].denied]

Unreceived ==
  /\ call' = call
  /\ loop' = [loop EXCEPT !.at = "poll"] \/ loop' = [loop EXCEPT !.at = "done"]

LEMMA ReceiveSteps ==
  ASSUME Receive
  PROVE  /\ loop.at = "receive"
         /\ UNCHANGED <<parentVars, helperVars, task, readable, confined, shimEnd, listener,
                       memVars, spent>>
         /\ Unreceived \/ \E t \in Tasks : Received(t)
BY DEF Receive, Received, Unreceived

LEMMA ReceivedKeeps ==
  ASSUME LoopTypes, call \in [Tasks -> Calls], NEW t \in Tasks, Received(t)
  PROVE  /\ LoopTypes' /\ call' \in [Tasks -> Calls]
         /\ loop'.at = "load" /\ loop'.pid = t /\ loop'.kind = call'[t].kind
<1>1. call[t].kind \in {"none", "open", "exec"} /\ call[t].denied \in BOOLEAN
  BY CallIsTyped
<1>2. LoopTypes'
  BY <1>1 DEF LoopTypes, Received
<1>3. [call[t] EXCEPT !.at = "taken"] \in Calls
  BY DEF Received, Calls, NoCall
<1>4. call' = [call EXCEPT ![t] = [call[t] EXCEPT !.at = "taken"]]
  BY DEF Received
<1>5. call' \in [Tasks -> Calls]
  BY <1>3, <1>4
<1>6. call'[t].kind = call[t].kind
  BY <1>4, <1>3 DEF Calls, NoCall
<1>7. loop'.at = "load" /\ loop'.pid = t /\ loop'.kind = call[t].kind
  BY DEF Received, LoopTypes
<1> QED
  BY <1>2, <1>5, <1>6, <1>7

LEMMA ReceiveKeeps ==
  ASSUME LoopTypes, TaskTypes, Receive
  PROVE  LoopTypes' /\ TaskTypes' /\ loop'.at \in {"load", "poll", "done"}
<1>1. LoopTypes' /\ call' \in [Tasks -> Calls] /\ loop'.at \in {"load", "poll", "done"}
  <2>1. ASSUME NEW t \in Tasks, Received(t)
        PROVE  LoopTypes' /\ call' \in [Tasks -> Calls] /\ loop'.at = "load"
    BY <2>1, ReceivedKeeps DEF TaskTypes
  <2>2. CASE Unreceived
    BY <2>2 DEF Unreceived, LoopTypes, TaskTypes
  <2> QED
    BY <2>1, <2>2, ReceiveSteps
<1>2. TaskTypes'
  BY <1>1, ReceiveSteps DEF TaskTypes
<1> QED
  BY <1>1, <1>2

LEMMA ReceiveHolds ==
  ASSUME LoopTypes, TaskTypes, LoopHolds, Receive
  PROVE  LoopHolds'
<1>1. UNCHANGED <<helper, enforcing>> /\ loop.at = "receive"
  BY ReceiveSteps DEF helperVars
<1>2. helper \notin {"none", "read", "tie", "spawn", "receive"}
  BY <1>1 DEF LoopHolds
<1>3. CASE Unreceived
  <2>1. loop'.at \in {"poll", "done"}
    BY <1>3 DEF Unreceived, LoopTypes
  <2> QED
    BY <2>1, <1>1, <1>2 DEF LoopHolds
<1>4. ASSUME NEW t \in Tasks, Received(t) PROVE LoopHolds'
  <2>1. loop'.at = "load" /\ loop'.pid = t /\ loop'.kind = call'[t].kind
    BY <1>4, ReceivedKeeps DEF TaskTypes
  <2> QED
    BY <2>1, <1>1, <1>2 DEF LoopHolds
<1> QED
  BY <1>3, <1>4, ReceiveSteps

LEMMA ReturnedKeeps ==
  ASSUME TaskTypes, NEW t \in Tasks, Returned(t)
  PROVE  TaskTypes'
BY DEF TaskTypes, Returned, Calls, NoCall

LEMMA EndKeeps ==
  ASSUME TaskTypes, NEW S, End(S)
  PROVE  TaskTypes'
BY DEF TaskTypes, End, Calls, NoCall

LEMMA RefusedKeeps ==
  ASSUME TaskTypes, MemTypes, NEW t \in Tasks, Refused(t)
  PROVE  TaskTypes' /\ MemTypes'
<1>1. TaskTypes'
  BY ReturnedKeeps, EndKeeps DEF Refused
<1>2. MemTypes'
  BY DEF MemTypes, Refused, memVars
<1> QED
  BY <1>1, <1>2

LEMMA ExecedKeeps ==
  ASSUME TaskTypes, MemTypes, NEW t \in Tasks, Execed(t)
  PROVE  TaskTypes' /\ MemTypes'
<1>1. TaskTypes'
  BY DEF TaskTypes, Execed, Calls, NoCall
<1>2. MemTypes'
  BY DEF MemTypes, Execed, Fds
<1> QED
  BY <1>1, <1>2

LEMMA OpenedKeeps ==
  ASSUME TaskTypes, MemTypes, NEW t \in Tasks, Opened(t)
  PROVE  TaskTypes' /\ MemTypes'
<1>1. TaskTypes'
  BY DEF TaskTypes, Opened, Calls, NoCall
<1>2. MemTypes'
  BY DEF MemTypes, Opened, memVars
<1> QED
  BY <1>1, <1>2

LEMMA LetThroughKeeps ==
  ASSUME TaskTypes, MemTypes, NEW t \in Tasks, LetThrough(t)
  PROVE  TaskTypes' /\ MemTypes'
BY RefusedKeeps, ExecedKeeps, OpenedKeeps DEF LetThrough

LEMMA AnswerKeeps ==
  ASSUME TaskTypes, MemTypes, loop.at = "respond" => loop.pid \in Tasks, Answer
  PROVE  TaskTypes' /\ MemTypes'
<1>1. loop.pid \in Tasks
  BY DEF Answer
<1>2. CASE UNCHANGED <<taskVars, memVars>>
  BY <1>2 DEF taskVars, memVars, TaskTypes, MemTypes
<1>3. CASE Refused(loop.pid)
  BY <1>1, <1>3, RefusedKeeps
<1>4. CASE LetThrough(loop.pid)
  BY <1>1, <1>4, LetThroughKeeps
<1> QED
  BY <1>2, <1>3, <1>4 DEF Answer

LEMMA ReturnedConfines ==
  ASSUME TaskTypes, TaskHolds, cfg' = cfg, NEW t \in Tasks, Returned(t)
  PROVE  TaskHolds'
BY DEF TaskTypes, TaskHolds, Returned, NoCall, Tasks, DisabledByUser

LEMMA EndConfines ==
  ASSUME TaskTypes, TaskHolds, cfg' = cfg, NEW S, End(S)
  PROVE  TaskHolds'
BY DEF TaskTypes, TaskHolds, End, NoCall, Tasks, DisabledByUser

LEMMA RefusedConfines ==
  ASSUME TaskTypes, TaskHolds, cfg' = cfg, NEW t \in Tasks, Refused(t)
  PROVE  TaskHolds'
BY ReturnedConfines, EndConfines DEF Refused

LEMMA LetThroughConfines ==
  ASSUME TaskTypes, TaskHolds, cfg' = cfg, NEW t \in Tasks, LetThrough(t)
  PROVE  TaskHolds'
<1>1. CASE call[t].kind = "open" /\ Opened(t)
  BY <1>1 DEF TaskTypes, TaskHolds, Opened, NoCall, Tasks, DisabledByUser
<1>2. CASE call[t].kind = "exec" /\ Execed(t)
  BY <1>2, LandlockAssumption DEF TaskTypes, TaskHolds, Execed, NoCall, Tasks, DisabledByUser
<1> QED
  BY <1>1, <1>2, RefusedConfines DEF LetThrough

\* A call is of a task that has been started.
LEMMA FreeIsLeft ==
  ASSUME TaskTypes, TaskHolds, Child \in Tasks, task[Child] = "free",
         NEW t \in Tasks, call[t] # NoCall, Refused(t) \/ LetThrough(t)
  PROVE  task'[Child] = "free"
<1>1. t # Child
  BY DEF TaskTypes, TaskHolds, Calls, NoCall
<1>2. ASSUME Refused(t) PROVE task'[Child] = "free"
  BY <1>1, <1>2 DEF Refused, Returned, End, TaskTypes
<1> QED
  BY <1>1, <1>2 DEF LetThrough, Opened, Execed, TaskTypes

-----------------------------------------------------------------------------
\* Every step keeps the types.
LEMMA TypesStep ==
  ASSUME SandboxInv, [Next]_vars
  PROVE  TypeOK'
<1> USE LandlockAssumption DEF SandboxInv, TypeOK, ParentTypes, HelperTypes, LoopTypes, TaskTypes, MemTypes, NoCall, Calls, Fds, Tasks, Idle, vars, parentVars, helperVars, taskVars, memVars
<1>1. CASE Parent
  <2>1. CASE ApplyBare
    BY <2>1 DEF ApplyBare, GotoParent
  <2>2. CASE ApplyRefused
    BY <2>2 DEF ApplyRefused, GotoParent
  <2>3. CASE ApplySandboxed
    BY <2>3 DEF ApplySandboxed, GotoParent
  <2>4. CASE WritePolicy
    <3>1. ParentTypes'
      BY <2>4 DEF WritePolicy, GotoParent
    <3>2. HelperTypes'
      BY <2>4 DEF WritePolicy, GotoParent
    <3>3. LoopTypes'
      BY <2>4 DEF WritePolicy, GotoParent
    <3>4. TaskTypes'
      BY <2>4 DEF WritePolicy, GotoParent
    <3>5. MemTypes'
      BY <2>4 DEF WritePolicy, GotoParent
    <3>6. (spent \in [calls : Nat, forks : Nat, kills : Nat])'
      BY <2>4 DEF WritePolicy, GotoParent
    <3> QED
      BY <3>1, <3>2, <3>3, <3>4, <3>5, <3>6
  <2>5. CASE Listen
    BY <2>5 DEF Listen, GotoParent
  <2>6. CASE ListenFails
    BY <2>6 DEF ListenFails, GotoParent
  <2>7. CASE StartHelper
    BY <2>7 DEF StartHelper, GotoParent
  <2>8. CASE Waited
    BY <2>8 DEF Waited, GotoParent
  <2>9. CASE Close
    BY <2>9 DEF Close, GotoParent
  <2> QED
    BY <1>1, <2>1, <2>2, <2>3, <2>4, <2>5, <2>6, <2>7, <2>8, <2>9 DEF Parent
<1>2. CASE Helper
  <2>1. CASE HelperRead
    BY <2>1 DEF HelperRead, GotoHelper
  <2>2. CASE HelperTie
    BY <2>2 DEF HelperTie, GotoHelper
  <2>3. CASE HelperSpawn
      <3>1. ParentTypes'
        BY <2>3 DEF HelperSpawn, GotoHelper
      <3>2. HelperTypes'
        BY <2>3 DEF HelperSpawn, GotoHelper, ParentTypes, ConfigType
      <3>3. LoopTypes'
        BY <2>3 DEF HelperSpawn, GotoHelper
      <3>4. TaskTypes'
        BY <2>3 DEF HelperSpawn, GotoHelper
      <3>5. MemTypes'
        BY <2>3 DEF HelperSpawn, GotoHelper
      <3>6. (spent \in [calls : Nat, forks : Nat, kills : Nat])'
        BY <2>3 DEF HelperSpawn, GotoHelper
      <3> QED
        BY <3>1, <3>2, <3>3, <3>4, <3>5, <3>6
  <2>4. CASE HelperReceive
    <3>1. ParentTypes'
      BY <2>4 DEF HelperReceive, GotoHelper
    <3>2. HelperTypes'
      BY <2>4 DEF HelperReceive, GotoHelper
    <3>3. LoopTypes'
      BY <2>4 DEF HelperReceive, GotoHelper
    <3>4. TaskTypes'
      BY <2>4 DEF HelperReceive, GotoHelper
    <3>5. MemTypes'
      BY <2>4 DEF HelperReceive, GotoHelper
    <3>6. (spent \in [calls : Nat, forks : Nat, kills : Nat])'
      BY <2>4 DEF HelperReceive, GotoHelper
    <3> QED
      BY <3>1, <3>2, <3>3, <3>4, <3>5, <3>6
  <2>5. CASE HelperGivesUp
    <3>1. ParentTypes'
      BY <2>5 DEF HelperGivesUp, GotoHelper, HelperEnds
    <3>2. HelperTypes'
      BY <2>5 DEF HelperGivesUp, GotoHelper, HelperEnds
    <3>3. LoopTypes'
      BY <2>5 DEF HelperGivesUp, GotoHelper, HelperEnds
    <3>4. TaskTypes'
      BY <2>5 DEF HelperGivesUp, GotoHelper, HelperEnds
    <3>5. MemTypes'
      BY <2>5 DEF HelperGivesUp, GotoHelper, HelperEnds
    <3>6. (spent \in [calls : Nat, forks : Nat, kills : Nat])'
      BY <2>5 DEF HelperGivesUp, GotoHelper, HelperEnds
    <3> QED
      BY <3>1, <3>2, <3>3, <3>4, <3>5, <3>6
  <2>6. CASE HelperReceiveFails
    <3>1. ParentTypes'
      BY <2>6 DEF HelperReceiveFails, GotoHelper, HelperEnds, EndingWith
    <3>2. HelperTypes'
      BY <2>6 DEF HelperReceiveFails, GotoHelper, HelperEnds, EndingWith
    <3>3. LoopTypes'
      BY <2>6 DEF HelperReceiveFails, GotoHelper, HelperEnds, EndingWith
    <3>4. TaskTypes'
      BY <2>6 DEF HelperReceiveFails, GotoHelper, HelperEnds, EndingWith
    <3>5. MemTypes'
      BY <2>6 DEF HelperReceiveFails, GotoHelper, HelperEnds, EndingWith
    <3>6. (spent \in [calls : Nat, forks : Nat, kills : Nat])'
      BY <2>6 DEF HelperReceiveFails, GotoHelper, HelperEnds, EndingWith
    <3> QED
      BY <3>1, <3>2, <3>3, <3>4, <3>5, <3>6
  <2>7. CASE HelperOpen
    BY <2>7 DEF HelperOpen, GotoHelper
  <2>8. CASE HelperOpenFails
      <3>1. ParentTypes'
        BY <2>8 DEF HelperOpenFails, GotoHelper
      <3>2. HelperTypes'
        BY <2>8 DEF HelperOpenFails, GotoHelper
      <3>3. LoopTypes'
        BY <2>8 DEF HelperOpenFails, GotoHelper
      <3>4. TaskTypes'
        <4>1. CASE Alive(Child)
          <5>1. End(EndingWith(Child))
            BY ONLY <2>8, <4>1 DEF HelperOpenFails
          <5> QED
            BY ONLY <5>1, EndKeeps, TaskTypes
        <4>2. CASE ~Alive(Child)
          <5>1. UNCHANGED taskVars
            BY ONLY <2>8, <4>2 DEF HelperOpenFails
          <5> QED
            BY ONLY <5>1, TaskTypes DEF TaskTypes, taskVars
        <4> QED
          BY ONLY <4>1, <4>2
      <3>5. MemTypes'
        BY <2>8 DEF HelperOpenFails, GotoHelper
      <3>6. (spent \in [calls : Nat, forks : Nat, kills : Nat])'
        BY <2>8 DEF HelperOpenFails, GotoHelper
      <3> QED
        BY <3>1, <3>2, <3>3, <3>4, <3>5, <3>6
  <2>9. CASE HelperEnforce
    BY <2>9 DEF HelperEnforce, GotoHelper
  <2>10. CASE HelperWaited
    BY <2>10 DEF HelperWaited, GotoHelper
  <2>11. CASE Stop
    BY <2>11 DEF Stop, GotoHelper
  <2>12. CASE Join
    <3>1. ParentTypes'
      BY <2>12 DEF Join, GotoHelper, HelperEnds
    <3>2. HelperTypes'
      BY <2>12 DEF Join, GotoHelper, HelperEnds
    <3>3. LoopTypes'
      BY <2>12 DEF Join, GotoHelper, HelperEnds
    <3>4. TaskTypes'
      BY <2>12 DEF Join, GotoHelper, HelperEnds
    <3>5. MemTypes'
      BY <2>12 DEF Join, GotoHelper, HelperEnds
    <3>6. (spent \in [calls : Nat, forks : Nat, kills : Nat])'
      BY <2>12 DEF Join, GotoHelper, HelperEnds
    <3> QED
      BY <3>1, <3>2, <3>3, <3>4, <3>5, <3>6
  <2> QED
    BY <1>2, <2>1, <2>2, <2>3, <2>4, <2>5, <2>6, <2>7, <2>8, <2>9, <2>10, <2>11, <2>12 DEF Helper
<1>3. CASE Loop
  <2>1. CASE Poll
    BY <2>1 DEF Poll, LoopAt, Respond, Idle
  <2>2. CASE Receive
      <3>1. ParentTypes'
        BY <2>2 DEF Receive
      <3>2. HelperTypes'
        BY <2>2 DEF Receive
      <3>3. LoopTypes'
        BY ONLY <2>2, ReceiveKeeps, LoopTypes, TaskTypes
      <3>4. TaskTypes'
        BY ONLY <2>2, ReceiveKeeps, LoopTypes, TaskTypes
      <3>5. MemTypes'
        BY <2>2 DEF Receive
      <3>6. (spent \in [calls : Nat, forks : Nat, kills : Nat])'
        BY <2>2 DEF Receive
      <3> QED
        BY <3>1, <3>2, <3>3, <3>4, <3>5, <3>6
  <2>3. CASE Load
      <3>1. ParentTypes'
        BY <2>3 DEF Load, LoopAt, Respond
      <3>2. HelperTypes'
        BY <2>3 DEF Load, LoopAt, Respond
      <3>3. LoopTypes'
        <4>1. CASE enforcing
          BY <2>3, <4>1 DEF Load, LoopAt
        <4>2. CASE ~enforcing
          BY <2>3, <4>2, RespondKeeps DEF Load
        <4> QED
          BY <4>1, <4>2
      <3>4. TaskTypes'
        BY <2>3 DEF Load, LoopAt, Respond
      <3>5. MemTypes'
        BY <2>3 DEF Load, LoopAt, Respond
      <3>6. (spent \in [calls : Nat, forks : Nat, kills : Nat])'
        BY <2>3 DEF Load, LoopAt, Respond
      <3> QED
        BY <3>1, <3>2, <3>3, <3>4, <3>5, <3>6
  <2>4. CASE Look
    <3>1. ParentTypes'
      BY <2>4 DEF Look, LoopAt, Respond, Idle, Worth
    <3>2. HelperTypes'
      BY <2>4 DEF Look, LoopAt, Respond, Idle, Worth
    <3>3. LoopTypes'
      BY <2>4 DEF Look, LoopAt, Respond, Idle, Worth
    <3>4. TaskTypes'
      BY <2>4 DEF Look, LoopAt, Respond, Idle, Worth
    <3>5. MemTypes'
      BY <2>4 DEF Look, LoopAt, Respond, Idle, Worth
    <3>6. (spent \in [calls : Nat, forks : Nat, kills : Nat])'
      BY <2>4 DEF Look, LoopAt, Respond, Idle, Worth
    <3> QED
      BY <3>1, <3>2, <3>3, <3>4, <3>5, <3>6
  <2>5. CASE Answer
      <3>1. ParentTypes'
        BY <2>5 DEF Answer, NextCall
      <3>2. HelperTypes'
        BY <2>5 DEF Answer, NextCall
      <3>3. LoopTypes'
        BY <2>5 DEF Answer, NextCall
      <3>4. TaskTypes'
        BY ONLY <2>5, AnswerKeeps, TaskTypes, MemTypes, LoopHolds DEF LoopHolds
      <3>5. MemTypes'
        BY ONLY <2>5, AnswerKeeps, TaskTypes, MemTypes, LoopHolds DEF LoopHolds
      <3>6. (spent \in [calls : Nat, forks : Nat, kills : Nat])'
        BY <2>5 DEF Answer, NextCall
      <3> QED
        BY <3>1, <3>2, <3>3, <3>4, <3>5, <3>6
  <2>6. CASE Drop
    <3>1. ParentTypes'
      BY <2>6 DEF Drop, LoopAt, Respond, Idle
    <3>2. HelperTypes'
      BY <2>6 DEF Drop, LoopAt, Respond, Idle
    <3>3. LoopTypes'
      BY <2>6 DEF Drop, LoopAt, Respond, Idle
    <3>4. TaskTypes'
      BY <2>6 DEF Drop, LoopAt, Respond, Idle
    <3>5. MemTypes'
      BY <2>6 DEF Drop, LoopAt, Respond, Idle
    <3>6. (spent \in [calls : Nat, forks : Nat, kills : Nat])'
      BY <2>6 DEF Drop, LoopAt, Respond, Idle
    <3> QED
      BY <3>1, <3>2, <3>3, <3>4, <3>5, <3>6
  <2> QED
    BY <1>3, <2>1, <2>2, <2>3, <2>4, <2>5, <2>6 DEF Loop
<1>4. CASE Shim
  <2>1. CASE ShimRead
    BY <2>1 DEF ShimRead, Move
  <2>2. CASE ShimFilter
    BY <2>2 DEF ShimFilter, Move
  <2>3. CASE ShimSend
      <3>1. ParentTypes'
        BY <2>3 DEF ShimSend, Move
      <3>2. HelperTypes'
        BY <2>3 DEF ShimSend, Move
      <3>3. LoopTypes'
        BY <2>3 DEF ShimSend, Move
      <3>4. TaskTypes'
        BY <2>3 DEF ShimSend, Move
      <3>5. MemTypes'
        BY <2>3 DEF ShimSend, Move
      <3>6. (spent \in [calls : Nat, forks : Nat, kills : Nat])'
        BY <2>3 DEF ShimSend, Move
      <3> QED
        BY <3>1, <3>2, <3>3, <3>4, <3>5, <3>6
  <2>4. CASE ShimRestrict
      <3>1. ParentTypes'
        BY <2>4 DEF ShimRestrict, Move, Call
      <3>2. HelperTypes'
        BY <2>4 DEF ShimRestrict, Move, Call
      <3>3. LoopTypes'
        BY <2>4 DEF ShimRestrict, Move, Call
      <3>4. TaskTypes'
        <4>1. CASE Notified("open")
          <5>0. Child \in Tasks /\ TaskTypes
            BY DEF TaskTypes
          <5>1. call' \in [Tasks -> Calls]
            BY ONLY <2>4, <4>1, <5>0, CallKeeps DEF ShimRestrict
          <5> QED
            BY ONLY <2>4, <4>1, <5>0, <5>1 DEF ShimRestrict, TaskTypes
        <4>2. CASE ~Notified("open")
          <5>1. /\ task' = [task EXCEPT ![Child] = "exec"] /\ call' = call
                /\ confined' = confined \cup {"landlock"}
                /\ UNCHANGED <<readable, shimEnd, listener>>
            BY ONLY <2>4, <4>2 DEF ShimRestrict, Move
          <5> QED
            BY ONLY <5>1, TaskTypes DEF TaskTypes
        <4> QED
          BY <4>1, <4>2
      <3>5. MemTypes'
        BY <2>4 DEF ShimRestrict, Move, Call
      <3>6. (spent \in [calls : Nat, forks : Nat, kills : Nat])'
        BY <2>4 DEF ShimRestrict, Move, Call
      <3> QED
        BY <3>1, <3>2, <3>3, <3>4, <3>5, <3>6
  <2>5. CASE ShimExec
    BY <2>5 DEF ShimExec, Move, Call
  <2>6. CASE ShimFails
      <3>1. ParentTypes'
        BY <2>6 DEF ShimFails
      <3>2. HelperTypes'
        BY <2>6 DEF ShimFails
      <3>3. LoopTypes'
        BY <2>6 DEF ShimFails
      <3>4. TaskTypes'
        BY <2>6, EndKeeps DEF ShimFails
      <3>5. MemTypes'
        BY <2>6 DEF ShimFails
      <3>6. (spent \in [calls : Nat, forks : Nat, kills : Nat])'
        BY <2>6 DEF ShimFails
      <3> QED
        BY <3>1, <3>2, <3>3, <3>4, <3>5, <3>6
  <2> QED
    BY <1>4, <2>1, <2>2, <2>3, <2>4, <2>5, <2>6 DEF Shim
<1>5. ASSUME NEW t \in Tasks, CommandCalls(t) PROVE TypeOK'
  BY <1>5 DEF CommandCalls, Runs, Call, Notified
<1>6. ASSUME NEW t \in Tasks, Exit(t) PROVE TypeOK'
    <2>1. ParentTypes'
      BY <1>6 DEF Exit
    <2>2. HelperTypes'
      BY <1>6 DEF Exit
    <2>3. LoopTypes'
      BY <1>6 DEF Exit
    <2>4. TaskTypes'
      BY <1>6, EndKeeps DEF Exit
    <2>5. MemTypes'
      BY <1>6 DEF Exit
    <2>6. (spent \in [calls : Nat, forks : Nat, kills : Nat])'
      BY <1>6 DEF Exit
    <2> QED
      BY <2>1, <2>2, <2>3, <2>4, <2>5, <2>6
<1>7. ASSUME NEW t \in Tasks, NEW d \in Descendants, Fork(t, d) PROVE TypeOK'
  BY <1>7 DEF Fork, Runs, Alive
<1>8. ASSUME NEW t \in Tasks, Unanswerable(t) PROVE TypeOK'
    <2>1. ParentTypes'
      BY <1>8 DEF Unanswerable
    <2>2. HelperTypes'
      BY <1>8 DEF Unanswerable
    <2>3. LoopTypes'
      BY <1>8 DEF Unanswerable
    <2>4. TaskTypes'
      BY <1>8, RefusedKeeps DEF Unanswerable
    <2>5. MemTypes'
      BY <1>8, RefusedKeeps DEF Unanswerable
    <2>6. (spent \in [calls : Nat, forks : Nat, kills : Nat])'
      BY <1>8 DEF Unanswerable
    <2> QED
      BY <2>1, <2>2, <2>3, <2>4, <2>5, <2>6
<1>9. CASE ParentKilled
  BY <1>9 DEF ParentKilled
<1>10. CASE HelperOrphaned
  <2>1. ParentTypes'
    BY <1>10 DEF HelperOrphaned, Killed, HelperEnds
  <2>2. HelperTypes'
    BY <1>10 DEF HelperOrphaned, Killed, HelperEnds
  <2>3. LoopTypes'
    BY <1>10 DEF HelperOrphaned, Killed, HelperEnds
  <2>4. TaskTypes'
    BY <1>10 DEF HelperOrphaned, Killed, HelperEnds
  <2>5. MemTypes'
    BY <1>10 DEF HelperOrphaned, Killed, HelperEnds
  <2>6. (spent \in [calls : Nat, forks : Nat, kills : Nat])'
    BY <1>10 DEF HelperOrphaned, Killed, HelperEnds
  <2> QED
    BY <2>1, <2>2, <2>3, <2>4, <2>5, <2>6
<1>11. CASE HelperCancelled
  <2>1. ParentTypes'
    BY <1>11 DEF HelperCancelled, Killed, HelperEnds
  <2>2. HelperTypes'
    BY <1>11 DEF HelperCancelled, Killed, HelperEnds
  <2>3. LoopTypes'
    BY <1>11 DEF HelperCancelled, Killed, HelperEnds
  <2>4. TaskTypes'
    BY <1>11 DEF HelperCancelled, Killed, HelperEnds
  <2>5. MemTypes'
    BY <1>11 DEF HelperCancelled, Killed, HelperEnds
  <2>6. (spent \in [calls : Nat, forks : Nat, kills : Nat])'
    BY <1>11 DEF HelperCancelled, Killed, HelperEnds
  <2> QED
    BY <2>1, <2>2, <2>3, <2>4, <2>5, <2>6
<1>12. CASE Over
  BY <1>12 DEF Over
<1>13. CASE UNCHANGED vars
  BY <1>13
<1> QED
  BY <1>1, <1>2, <1>3, <1>4, <1>5, <1>6, <1>7, <1>8, <1>9, <1>10, <1>11, <1>12, <1>13 DEF Next, Command

\* Nothing comes to run before its time.
LEMMA StartStep ==
  ASSUME SandboxInv, [Next]_vars
  PROVE  StartHolds'
<1> USE LandlockAssumption DEF SandboxInv, TypeOK, HelperTypes, TaskTypes, TaskHolds, StartHolds, Alive, vars, parentVars, helperVars, taskVars, memVars
<1>1. CASE Parent
  <2>1. CASE ApplyBare
    BY <2>1 DEF ApplyBare, GotoParent
  <2>2. CASE ApplyRefused
    BY <2>2 DEF ApplyRefused, GotoParent
  <2>3. CASE ApplySandboxed
    BY <2>3 DEF ApplySandboxed, GotoParent
  <2>4. CASE WritePolicy
    BY <2>4 DEF WritePolicy, GotoParent
  <2>5. CASE Listen
    BY <2>5 DEF Listen, GotoParent
  <2>6. CASE ListenFails
    BY <2>6 DEF ListenFails, GotoParent
  <2>7. CASE StartHelper
    BY <2>7 DEF StartHelper, GotoParent
  <2>8. CASE Waited
    BY <2>8 DEF Waited, GotoParent
  <2>9. CASE Close
    BY <2>9 DEF Close, GotoParent
  <2> QED
    BY <1>1, <2>1, <2>2, <2>3, <2>4, <2>5, <2>6, <2>7, <2>8, <2>9 DEF Parent
<1>2. CASE Helper
  <2>1. CASE HelperRead
    BY <2>1 DEF HelperRead, GotoHelper
  <2>2. CASE HelperTie
    BY <2>2 DEF HelperTie, GotoHelper
  <2>3. CASE HelperSpawn
    BY <2>3 DEF HelperSpawn, GotoHelper
  <2>4. CASE HelperReceive
    BY <2>4 DEF HelperReceive, GotoHelper
  <2>5. CASE HelperGivesUp
    BY <2>5 DEF HelperGivesUp, GotoHelper, HelperEnds
  <2>6. CASE HelperReceiveFails
    BY <2>6 DEF HelperReceiveFails, GotoHelper, HelperEnds, EndingWith
  <2>7. CASE HelperOpen
    BY <2>7 DEF HelperOpen, GotoHelper
  <2>8. CASE HelperOpenFails
    BY <2>8 DEF HelperOpenFails, GotoHelper, End, EndingWith
  <2>9. CASE HelperEnforce
    BY <2>9 DEF HelperEnforce, GotoHelper
  <2>10. CASE HelperWaited
    BY <2>10 DEF HelperWaited, GotoHelper
  <2>11. CASE Stop
    BY <2>11 DEF Stop, GotoHelper
  <2>12. CASE Join
    BY <2>12 DEF Join, GotoHelper, HelperEnds
  <2> QED
    BY <1>2, <2>1, <2>2, <2>3, <2>4, <2>5, <2>6, <2>7, <2>8, <2>9, <2>10, <2>11, <2>12 DEF Helper
<1>3. CASE Loop
  <2>1. CASE Poll
    BY <2>1 DEF Poll, LoopAt, Respond, Idle
  <2>2. CASE Receive
    BY <2>2 DEF Receive, LoopAt, Respond, Idle
  <2>3. CASE Load
    BY <2>3 DEF Load, LoopAt, Respond, Idle
  <2>4. CASE Look
    BY <2>4 DEF Look, LoopAt, Respond, Idle, Worth
  <2>5. CASE Answer
    <3>1. task[Child] = "free" => task'[Child] = "free"
      <4>1. CASE call[loop.pid].at = "taken"
        BY <2>5, <4>1, FreeIsLeft DEF Answer, LoopHolds, Tasks, NoCall
      <4>2. CASE call[loop.pid].at # "taken"
        BY <2>5, <4>2 DEF Answer
      <4> QED
        BY <4>1, <4>2
    <3> QED
      BY <2>5, <3>1 DEF Answer
  <2>6. CASE Drop
    BY <2>6 DEF Drop, LoopAt, Respond, Idle
  <2> QED
    BY <1>3, <2>1, <2>2, <2>3, <2>4, <2>5, <2>6 DEF Loop
<1>4. CASE Shim
  <2>1. CASE ShimRead
    BY <2>1 DEF ShimRead, Move
  <2>2. CASE ShimFilter
    BY <2>2 DEF ShimFilter, Move
  <2>3. CASE ShimSend
    BY <2>3 DEF ShimSend, Move
  <2>4. CASE ShimRestrict
    BY <2>4 DEF ShimRestrict, Move, Call
  <2>5. CASE ShimExec
    BY <2>5 DEF ShimExec, Move, Call
  <2>6. CASE ShimFails
    BY <2>6 DEF ShimFails, Move, End
  <2> QED
    BY <1>4, <2>1, <2>2, <2>3, <2>4, <2>5, <2>6 DEF Shim
<1>5. ASSUME NEW t \in Tasks, CommandCalls(t) PROVE StartHolds'
  BY <1>5 DEF CommandCalls, Runs, Call, Notified
<1>6. ASSUME NEW t \in Tasks, Exit(t) PROVE StartHolds'
  <2>1. task[Child] = "free" => task'[Child] = "free"
    BY <1>6 DEF Exit, End, EndingWith, Tasks
  <2> QED
    BY <1>6, <2>1 DEF Exit
<1>7. ASSUME NEW t \in Tasks, NEW d \in Descendants, Fork(t, d) PROVE StartHolds'
  BY <1>7 DEF Fork, Runs, Alive
<1>8. ASSUME NEW t \in Tasks, Unanswerable(t) PROVE StartHolds'
  <2>1. task[Child] = "free" => task'[Child] = "free"
    BY <1>8, FreeIsLeft DEF Unanswerable, Tasks
  <2> QED
    BY <1>8, <2>1 DEF Unanswerable
<1>9. CASE ParentKilled
  BY <1>9 DEF ParentKilled
<1>10. CASE HelperOrphaned
  BY <1>10 DEF HelperOrphaned, Killed, HelperEnds, Idle
<1>11. CASE HelperCancelled
  BY <1>11 DEF HelperCancelled, Killed, HelperEnds, Idle
<1>12. CASE Over
  BY <1>12 DEF Over
<1>13. CASE UNCHANGED vars
  BY <1>13
<1> QED
  BY <1>1, <1>2, <1>3, <1>4, <1>5, <1>6, <1>7, <1>8, <1>9, <1>10, <1>11, <1>12, <1>13 DEF Next, Command

\* Every step keeps the shim's progress, its confinement and the calls together.
LEMMA TaskStep ==
  ASSUME SandboxInv, [Next]_vars
  PROVE  TaskHolds'
<1> USE LandlockAssumption DEF SandboxInv, TypeOK, TaskTypes, StartHolds, TaskHolds, NoCall, Calls, Tasks, DisabledByUser, RunsBare, vars, parentVars, helperVars, taskVars, memVars
<1>1. CASE Parent
  <2>1. CASE ApplyBare
    BY <2>1 DEF ApplyBare, GotoParent
  <2>2. CASE ApplyRefused
    BY <2>2 DEF ApplyRefused, GotoParent
  <2>3. CASE ApplySandboxed
    BY <2>3 DEF ApplySandboxed, GotoParent
  <2>4. CASE WritePolicy
    BY <2>4 DEF WritePolicy, GotoParent
  <2>5. CASE Listen
    BY <2>5 DEF Listen, GotoParent
  <2>6. CASE ListenFails
    BY <2>6 DEF ListenFails, GotoParent
  <2>7. CASE StartHelper
    BY <2>7 DEF StartHelper, GotoParent
  <2>8. CASE Waited
    BY <2>8 DEF Waited, GotoParent
  <2>9. CASE Close
    BY <2>9 DEF Close, GotoParent
  <2> QED
    BY <1>1, <2>1, <2>2, <2>3, <2>4, <2>5, <2>6, <2>7, <2>8, <2>9 DEF Parent
<1>2. CASE Helper
  <2>1. CASE HelperRead
    BY <2>1 DEF HelperRead, GotoHelper
  <2>2. CASE HelperTie
    BY <2>2 DEF HelperTie, GotoHelper
  <2>3. CASE HelperSpawn
    BY <2>3 DEF HelperSpawn, GotoHelper
  <2>4. CASE HelperReceive
    BY <2>4 DEF HelperReceive, GotoHelper
  <2>5. CASE HelperGivesUp
    BY <2>5 DEF HelperGivesUp, GotoHelper, HelperEnds
  <2>6. CASE HelperReceiveFails
    BY <2>6 DEF HelperReceiveFails, GotoHelper, HelperEnds, EndingWith
  <2>7. CASE HelperOpen
    BY <2>7 DEF HelperOpen, GotoHelper
  <2>8. CASE HelperOpenFails
    BY <2>8, EndConfines DEF HelperOpenFails
  <2>9. CASE HelperEnforce
    BY <2>9 DEF HelperEnforce, GotoHelper
  <2>10. CASE HelperWaited
    BY <2>10 DEF HelperWaited, GotoHelper
  <2>11. CASE Stop
    BY <2>11 DEF Stop, GotoHelper
  <2>12. CASE Join
    BY <2>12 DEF Join, GotoHelper, HelperEnds
  <2> QED
    BY <1>2, <2>1, <2>2, <2>3, <2>4, <2>5, <2>6, <2>7, <2>8, <2>9, <2>10, <2>11, <2>12 DEF Helper
<1>3. CASE Loop
  <2>1. CASE Poll
    BY <2>1 DEF Poll, LoopAt, Respond, Idle
  <2>2. CASE Receive
    <3>1. UNCHANGED <<cfg, task, confined>>
      BY <2>2 DEF Receive
    <3>2. \A t \in Tasks : call'[t].kind = call[t].kind
      <4>1. CASE Awaited
        BY <2>2, <4>1, TakenKeeps DEF Receive, Awaited
      <4>2. CASE ~Awaited
        BY <2>2, <4>2 DEF Receive, Awaited
      <4> QED
        BY <4>1, <4>2
    <3> QED
      BY <3>1, <3>2
  <2>3. CASE Load
    BY <2>3 DEF Load, LoopAt, Respond, Idle
  <2>4. CASE Look
    BY <2>4 DEF Look, LoopAt, Respond, Idle, Worth
  <2>5. CASE Answer
    BY <2>5, RefusedConfines, LetThroughConfines DEF Answer, LoopHolds, LoopTypes
  <2>6. CASE Drop
    BY <2>6 DEF Drop, LoopAt, Respond, Idle
  <2> QED
    BY <1>3, <2>1, <2>2, <2>3, <2>4, <2>5, <2>6 DEF Loop
<1>4. CASE Shim
  <2>1. CASE ShimRead
    BY <2>1 DEF ShimRead, Move
  <2>2. CASE ShimFilter
    BY <2>2 DEF ShimFilter, Move
  <2>3. CASE ShimSend
    BY <2>3 DEF ShimSend, Move
  <2>4. CASE ShimRestrict
    <3>1. CASE Notified("open")
      BY <2>4, <3>1 DEF ShimRestrict, Call
    <3>2. CASE ~Notified("open")
      <4>1. /\ task[Child] = "restrict" /\ task' = [task EXCEPT ![Child] = "exec"]
            /\ confined' = confined \cup {"landlock"}
            /\ UNCHANGED <<cfg, call>> /\ call[Child] = NoCall
        BY <2>4, <3>2 DEF ShimRestrict, Move
      <4>2. ~DisabledByUser(cfg) => confined' = {"filter", "landlock"}
        <5>1. ~DisabledByUser(cfg) => "filter" \in confined
          BY <4>1
        <5>2. confined \subseteq {"filter", "landlock"}
          OBVIOUS
        <5> QED
          BY ONLY <4>1, <5>1, <5>2
      <4> QED
        BY <4>1, <4>2
    <3> QED
      BY <3>1, <3>2
  <2>5. CASE ShimExec
    BY <2>5 DEF ShimExec, Move, Call
  <2>6. CASE ShimFails
    BY <2>6, EndConfines DEF ShimFails
  <2> QED
    BY <1>4, <2>1, <2>2, <2>3, <2>4, <2>5, <2>6 DEF Shim
<1>5. ASSUME NEW t \in Tasks, CommandCalls(t) PROVE TaskHolds'
  BY <1>5 DEF CommandCalls, Runs, Call, Notified
<1>6. ASSUME NEW t \in Tasks, Exit(t) PROVE TaskHolds'
  BY <1>6, EndConfines DEF Exit
<1>7. ASSUME NEW t \in Tasks, NEW d \in Descendants, Fork(t, d) PROVE TaskHolds'
  BY <1>7 DEF Fork, Runs, Alive
<1>8. ASSUME NEW t \in Tasks, Unanswerable(t) PROVE TaskHolds'
  BY <1>8, RefusedConfines DEF Unanswerable
<1>9. CASE ParentKilled
  BY <1>9 DEF ParentKilled
<1>10. CASE HelperOrphaned
  BY <1>10 DEF HelperOrphaned, Killed, HelperEnds, Idle
<1>11. CASE HelperCancelled
  BY <1>11 DEF HelperCancelled, Killed, HelperEnds, Idle
<1>12. CASE Over
  BY <1>12 DEF Over
<1>13. CASE UNCHANGED vars
  BY <1>13
<1> QED
  BY <1>1, <1>2, <1>3, <1>4, <1>5, <1>6, <1>7, <1>8, <1>9, <1>10, <1>11, <1>12, <1>13 DEF Next, Command

\* The loop's own steps, whatever the rest of the run is at.
LEMMA LoopKeeps ==
  ASSUME LoopTypes, TaskTypes, LoopHolds, Loop
  PROVE  LoopHolds'
<1> USE DEF LoopTypes, LoopHolds, helperVars
<1>1. CASE Poll
  BY <1>1 DEF Poll, LoopAt, taskVars
<1>2. CASE Receive
  BY ONLY <1>2, ReceiveHolds, LoopTypes, TaskTypes, LoopHolds
<1>3. CASE Load
  BY <1>3 DEF Load, LoopAt, Respond, taskVars
<1>4. CASE Look
  BY <1>4 DEF Look, LoopAt, Respond, taskVars
<1>5. CASE Answer
  <2>1. loop.at = "respond" /\ UNCHANGED <<parentVars, helperVars>> /\ loop' = NextCall
    BY <1>5 DEF Answer
  <2>2. loop'.at = "poll" \/ (loop'.at = "drop" /\ loop'.pid = loop.pid)
    BY <2>1 DEF NextCall, Idle
  <2> QED
    BY <2>1, <2>2
<1>6. CASE Drop
  BY <1>6 DEF Drop, LoopAt, taskVars
<1> QED
  BY <1>1, <1>2, <1>3, <1>4, <1>5, <1>6 DEF Loop

\* Every step leaves the loop with the call it has received.
LEMMA LoopStep ==
  ASSUME SandboxInv, [Next]_vars
  PROVE  LoopHolds'
<1>0. ASSUME Loop PROVE LoopHolds'
  BY <1>0, LoopKeeps DEF SandboxInv, TypeOK
<1> USE LandlockAssumption DEF SandboxInv, TypeOK, HelperTypes, LoopTypes, TaskTypes, StartHolds, TaskHolds, LoopHolds, NoCall, Calls, Fds, Tasks, Alive, Idle, vars, parentVars, helperVars, taskVars, memVars
<1>1. CASE Parent
  <2>1. CASE ApplyBare
    BY <2>1 DEF ApplyBare, GotoParent
  <2>2. CASE ApplyRefused
    BY <2>2 DEF ApplyRefused, GotoParent
  <2>3. CASE ApplySandboxed
    BY <2>3 DEF ApplySandboxed, GotoParent
  <2>4. CASE WritePolicy
    BY <2>4 DEF WritePolicy, GotoParent
  <2>5. CASE Listen
    BY <2>5 DEF Listen, GotoParent
  <2>6. CASE ListenFails
    BY <2>6 DEF ListenFails, GotoParent
  <2>7. CASE StartHelper
    BY <2>7 DEF StartHelper, GotoParent
  <2>8. CASE Waited
    BY <2>8 DEF Waited, GotoParent
  <2>9. CASE Close
    BY <2>9 DEF Close, GotoParent
  <2> QED
    BY <1>1, <2>1, <2>2, <2>3, <2>4, <2>5, <2>6, <2>7, <2>8, <2>9 DEF Parent
<1>2. CASE Helper
  <2>1. CASE HelperRead
    BY <2>1 DEF HelperRead, GotoHelper
  <2>2. CASE HelperTie
    BY <2>2 DEF HelperTie, GotoHelper
  <2>3. CASE HelperSpawn
    BY <2>3 DEF HelperSpawn, GotoHelper
  <2>4. CASE HelperReceive
    BY <2>4 DEF HelperReceive, GotoHelper
  <2>5. CASE HelperGivesUp
    BY <2>5 DEF HelperGivesUp, GotoHelper, HelperEnds
  <2>6. CASE HelperReceiveFails
    BY <2>6 DEF HelperReceiveFails, GotoHelper, HelperEnds, EndingWith
  <2>7. CASE HelperOpen
    BY <2>7 DEF HelperOpen, GotoHelper
  <2>8. CASE HelperOpenFails
    BY <2>8 DEF HelperOpenFails, GotoHelper, End, EndingWith
  <2>9. CASE HelperEnforce
    BY <2>9 DEF HelperEnforce, GotoHelper
  <2>10. CASE HelperWaited
    BY <2>10 DEF HelperWaited, GotoHelper
  <2>11. CASE Stop
    BY <2>11 DEF Stop, GotoHelper
  <2>12. CASE Join
    BY <2>12 DEF Join, GotoHelper, HelperEnds
  <2> QED
    BY <1>2, <2>1, <2>2, <2>3, <2>4, <2>5, <2>6, <2>7, <2>8, <2>9, <2>10, <2>11, <2>12 DEF Helper
<1>3. CASE Loop
  BY ONLY <1>3, <1>0
<1>4. CASE Shim
  <2>1. CASE ShimRead
    BY <2>1 DEF ShimRead, Move
  <2>2. CASE ShimFilter
    BY <2>2 DEF ShimFilter, Move
  <2>3. CASE ShimSend
    BY <2>3 DEF ShimSend, Move
  <2>4. CASE ShimRestrict
    BY <2>4 DEF ShimRestrict, Move, Call
  <2>5. CASE ShimExec
    BY <2>5 DEF ShimExec, Move, Call
  <2>6. CASE ShimFails
    BY <2>6 DEF ShimFails, Move, End
  <2> QED
    BY <1>4, <2>1, <2>2, <2>3, <2>4, <2>5, <2>6 DEF Shim
<1>5. ASSUME NEW t \in Tasks, CommandCalls(t) PROVE LoopHolds'
  BY <1>5 DEF CommandCalls, Runs, Call, Notified
<1>6. ASSUME NEW t \in Tasks, Exit(t) PROVE LoopHolds'
  BY <1>6 DEF Exit, End, EndingWith
<1>7. ASSUME NEW t \in Tasks, NEW d \in Descendants, Fork(t, d) PROVE LoopHolds'
  BY <1>7 DEF Fork, Runs, Alive
<1>8. ASSUME NEW t \in Tasks, Unanswerable(t) PROVE LoopHolds'
  BY <1>8 DEF Unanswerable, Refused, Returned, End
<1>9. CASE ParentKilled
  BY <1>9 DEF ParentKilled
<1>10. CASE HelperOrphaned
  BY <1>10 DEF HelperOrphaned, Killed, HelperEnds, Idle
<1>11. CASE HelperCancelled
  BY <1>11 DEF HelperCancelled, Killed, HelperEnds, Idle
<1>12. CASE Over
  BY <1>12 DEF Over
<1>13. CASE UNCHANGED vars
  BY <1>13
<1> QED
  BY <1>1, <1>2, <1>3, <1>4, <1>5, <1>6, <1>7, <1>8, <1>9, <1>10, <1>11, <1>12, <1>13 DEF Next, Command

\* Every step leaves only the descriptors fresh that will be read again.
LEMMA CacheStep ==
  ASSUME SandboxInv, [Next]_vars
  PROVE  CacheHolds'
<1> USE LandlockAssumption DEF SandboxInv, TypeOK, ParentTypes, HelperTypes, LoopTypes, TaskTypes, MemTypes, StartHolds, TaskHolds, LoopHolds, CacheHolds, OnlyUnreadablePasses, NoCall, Calls, Fds, Tasks, Alive, Idle, vars, parentVars, helperVars, taskVars, memVars
<1>1. CASE Parent
  <2>1. CASE ApplyBare
    BY <2>1 DEF ApplyBare, GotoParent
  <2>2. CASE ApplyRefused
    BY <2>2 DEF ApplyRefused, GotoParent
  <2>3. CASE ApplySandboxed
    BY <2>3 DEF ApplySandboxed, GotoParent
  <2>4. CASE WritePolicy
    BY <2>4 DEF WritePolicy, GotoParent
  <2>5. CASE Listen
    BY <2>5 DEF Listen, GotoParent
  <2>6. CASE ListenFails
    BY <2>6 DEF ListenFails, GotoParent
  <2>7. CASE StartHelper
    BY <2>7 DEF StartHelper, GotoParent
  <2>8. CASE Waited
    BY <2>8 DEF Waited, GotoParent
  <2>9. CASE Close
    BY <2>9 DEF Close, GotoParent
  <2> QED
    BY <1>1, <2>1, <2>2, <2>3, <2>4, <2>5, <2>6, <2>7, <2>8, <2>9 DEF Parent
<1>2. CASE Helper
  <2>1. CASE HelperRead
    BY <2>1 DEF HelperRead, GotoHelper
  <2>2. CASE HelperTie
    BY <2>2 DEF HelperTie, GotoHelper
  <2>3. CASE HelperSpawn
    BY <2>3 DEF HelperSpawn, GotoHelper
  <2>4. CASE HelperReceive
    BY <2>4 DEF HelperReceive, GotoHelper
  <2>5. CASE HelperGivesUp
    BY <2>5 DEF HelperGivesUp, GotoHelper, HelperEnds
  <2>6. CASE HelperReceiveFails
    BY <2>6 DEF HelperReceiveFails, GotoHelper, HelperEnds, EndingWith
  <2>7. CASE HelperOpen
    BY <2>7 DEF HelperOpen, GotoHelper
  <2>8. CASE HelperOpenFails
    BY <2>8 DEF HelperOpenFails, GotoHelper, End, EndingWith
  <2>9. CASE HelperEnforce
    BY <2>9 DEF HelperEnforce, GotoHelper
  <2>10. CASE HelperWaited
    BY <2>10 DEF HelperWaited, GotoHelper
  <2>11. CASE Stop
    BY <2>11 DEF Stop, GotoHelper
  <2>12. CASE Join
    BY <2>12 DEF Join, GotoHelper, HelperEnds
  <2> QED
    BY <1>2, <2>1, <2>2, <2>3, <2>4, <2>5, <2>6, <2>7, <2>8, <2>9, <2>10, <2>11, <2>12 DEF Helper
<1>3. CASE Loop
  <2>1. CASE Poll
    BY <2>1 DEF Poll, LoopAt, Respond, Idle
  <2>2. CASE Receive
    <3>1. loop'.at \in {"load", "poll", "done"} /\ loop.at = "receive"
      BY <2>2, ReceiveKeeps, ReceiveSteps
    <3>2. UNCHANGED <<enforcing, cache>>
      BY <2>2, ReceiveSteps
    <3>3. OnlyUnreadablePasses'
      BY <3>1
    <3> QED
      BY <3>1, <3>2, <3>3
  <2>3. CASE Load
    <3>1. CASE enforcing
      BY <2>3, <3>1 DEF Load, LoopAt
    <3>2. CASE ~enforcing
      <4>1. loop'.at = "respond" /\ ~loop'.looked
        <5>1. Respond(FALSE, FALSE)
          BY ONLY <2>3, <3>2 DEF Load
        <5> QED
          BY <5>1, RespondKeeps
      <4>2. loop.at = "load" /\ UNCHANGED <<helper, enforcing, cache>>
        BY <2>3 DEF Load
      <4> QED
        BY <3>2, <4>1, <4>2
    <3> QED
      BY <3>1, <3>2
  <2>4. CASE Look
    BY <2>4 DEF Look, LoopAt, Respond, Idle, Worth
  <2>5. CASE Answer
    BY <2>5 DEF Answer, LoopAt, Respond, Idle, NextCall, Refused, Returned, End, LetThrough, Opened, Execed
  <2>6. CASE Drop
    BY <2>6 DEF Drop, LoopAt, Respond, Idle
  <2> QED
    BY <1>3, <2>1, <2>2, <2>3, <2>4, <2>5, <2>6 DEF Loop
<1>4. CASE Shim
  <2>1. CASE ShimRead
    BY <2>1 DEF ShimRead, Move
  <2>2. CASE ShimFilter
    BY <2>2 DEF ShimFilter, Move
  <2>3. CASE ShimSend
    BY <2>3 DEF ShimSend, Move
  <2>4. CASE ShimRestrict
    BY <2>4 DEF ShimRestrict, Move, Call
  <2>5. CASE ShimExec
    BY <2>5 DEF ShimExec, Move, Call
  <2>6. CASE ShimFails
    BY <2>6 DEF ShimFails, Move, End
  <2> QED
    BY <1>4, <2>1, <2>2, <2>3, <2>4, <2>5, <2>6 DEF Shim
<1>5. ASSUME NEW t \in Tasks, CommandCalls(t) PROVE CacheHolds'
  BY <1>5 DEF CommandCalls, Runs, Call, Notified
<1>6. ASSUME NEW t \in Tasks, Exit(t) PROVE CacheHolds'
  BY <1>6 DEF Exit, End, EndingWith
<1>7. ASSUME NEW t \in Tasks, NEW d \in Descendants, Fork(t, d) PROVE CacheHolds'
  BY <1>7 DEF Fork, Runs, Alive
<1>8. ASSUME NEW t \in Tasks, Unanswerable(t) PROVE CacheHolds'
  BY <1>8 DEF Unanswerable, Refused, Returned, End
<1>9. CASE ParentKilled
  BY <1>9 DEF ParentKilled
<1>10. CASE HelperOrphaned
  BY <1>10 DEF HelperOrphaned, Killed, HelperEnds, Idle
<1>11. CASE HelperCancelled
  BY <1>11 DEF HelperCancelled, Killed, HelperEnds, Idle
<1>12. CASE Over
  BY <1>12 DEF Over
<1>13. CASE UNCHANGED vars
  BY <1>13
<1> QED
  BY <1>1, <1>2, <1>3, <1>4, <1>5, <1>6, <1>7, <1>8, <1>9, <1>10, <1>11, <1>12, <1>13 DEF Next, Command

-----------------------------------------------------------------------------
LEMMA SandboxInit ==
  ASSUME Init
  PROVE  SandboxInv
<1> USE LandlockAssumption DEF Init, Idle, NoCall, Tasks
<1>1. TypeOK
  BY DEF TypeOK, ParentTypes, HelperTypes, LoopTypes, TaskTypes, MemTypes, Calls, Fds
<1>2. StartHolds
  BY DEF StartHolds
<1>3. TaskHolds
  BY DEF TaskHolds, DisabledByUser
<1>4. LoopHolds
  BY DEF LoopHolds
<1>5. CacheHolds
  BY DEF CacheHolds, OnlyUnreadablePasses
<1> QED
  BY <1>1, <1>2, <1>3, <1>4, <1>5 DEF SandboxInv

\* The invariant the theorems below rest on: how far shim, helper and loop are goes with
\* what has been put on the command and with the descriptors the loop keeps.
THEOREM SandboxInvariance == Spec => []SandboxInv
<1>1. Init => SandboxInv
  BY SandboxInit
<1>2. SandboxInv /\ [Next]_vars => SandboxInv'
  BY TypesStep, StartStep, TaskStep, LoopStep, CacheStep DEF SandboxInv
<1> QED
  BY <1>1, <1>2, PTL DEF Spec

\* The variables have their types, for any processes and bounds.
THEOREM SandboxTypes == Spec => []TypeOK
<1>1. SandboxInv => TypeOK
  BY DEF SandboxInv
<1> QED
  BY <1>1, SandboxInvariance, PTL

\* A command runs without filter and Landlock only if the user has switched the sandbox
\* off, whatever config, policy and platform say and however helper and shim fail
\* (sandbox/executor/apply.go, landlock_shim_linux.go).
THEOREM CommandIsConfined == Spec => []RunsConfined
<1>1. SandboxInv => RunsConfined
  BY DEF SandboxInv, TaskHolds, RunsConfined
<1> QED
  BY <1>1, SandboxInvariance, PTL

\* A denied call that the loop has looked at passes only if the caller's memory cannot be
\* opened or is read through a descriptor the loop has not opened for it: dropping the
\* descriptor after each exec is enough for all others (landlock_seccomp_linux.go).
THEOREM OnlyUnreadableCallsPass == Spec => []OnlyUnreadablePasses
<1>1. SandboxInv => OnlyUnreadablePasses
  BY DEF SandboxInv, CacheHolds
<1> QED
  BY <1>1, SandboxInvariance, PTL

\* The command and its descendants are confined, from the decision of ApplySandbox to
\* the last notification (apply.go, landlock_seccomp_linux.go).
THEOREM Confined == Spec => []ConfinementHolds
<1>1. RunsConfined /\ OnlyUnreadablePasses => ConfinementHolds
  BY DEF ConfinementHolds
<1> QED
  BY <1>1, CommandIsConfined, OnlyUnreadableCallsPass, PTL

\* Nothing is on disk before pmg writes it nor once pmg is done.
FilesHold == parent \in {"apply", "write", "done"} => files = {}

LEMMA FilesStep ==
  ASSUME FilesHold, [Next]_vars
  PROVE  FilesHold'
<1>1. CASE Parent
  BY <1>1 DEF Parent, FilesHold, GotoParent, ApplyBare, ApplyRefused, ApplySandboxed, WritePolicy,
     Listen, ListenFails, StartHelper, Waited, Close
<1>2. ASSUME parent' = parent \/ parent' = "killed", files' = files \/ files' = files \ {"policy"}
      PROVE  FilesHold'
  BY <1>2 DEF FilesHold
<1>3. CASE Helper
  <2>1. CASE HelperGivesUp \/ HelperReceiveFails \/ Join
    BY <1>2, <2>1 DEF HelperGivesUp, HelperReceiveFails, Join
  <2>2. CASE \/ HelperRead \/ HelperTie \/ HelperSpawn \/ HelperReceive \/ HelperOpen
             \/ HelperOpenFails \/ HelperEnforce \/ HelperWaited \/ Stop
    BY <1>2, <2>2 DEF HelperRead, HelperTie, HelperSpawn, HelperReceive, HelperOpen, HelperOpenFails,
       HelperEnforce, HelperWaited, Stop, parentVars
  <2> QED
    BY <1>3, <2>1, <2>2 DEF Helper
<1>4. CASE Loop \/ Shim
  BY <1>2, <1>4 DEF Loop, Poll, Receive, Load, Look, Answer, Drop, Shim, ShimRead, ShimFilter,
     ShimSend, ShimRestrict, ShimExec, ShimFails, parentVars
<1>5. CASE \E t \in Tasks : Command(t) \/ Unanswerable(t)
  BY <1>2, <1>5 DEF Command, CommandCalls, Exit, Fork, Unanswerable, parentVars
<1>6. CASE ParentKilled \/ HelperOrphaned \/ HelperCancelled \/ Over \/ UNCHANGED vars
  BY <1>2, <1>6 DEF ParentKilled, HelperOrphaned, HelperCancelled, Killed, Over, vars, parentVars
<1> QED
  BY <1>1, <1>3, <1>4, <1>5, <1>6 DEF Next

\* The policy file and the audit socket are gone when pmg returns, also when the helper
\* is killed, has removed the policy already or has never been started
\* (landlock_linux.go, landlock_helper_linux.go).
THEOREM TempFilesGone == Spec => []NothingLeftBehind
<1>1. Init => FilesHold
  BY DEF Init, FilesHold
<1>2. FilesHold /\ [Next]_vars => FilesHold'
  BY FilesStep
<1>3. FilesHold => NothingLeftBehind
  BY DEF FilesHold, NothingLeftBehind
<1> QED
  BY <1>1, <1>2, <1>3, PTL DEF Spec

-----------------------------------------------------------------------------
(* Paths                                                                    *)

LEMMA PathIsSeq ==
  ASSUME NEW s, IsPath(s), NEW T, \A i \in 1..Len(s) : s[i] \in T
  PROVE  s \in Seq(T)
<1>1. Len(s) \in Nat /\ s = [i \in 1..Len(s) |-> s[i]]
  BY DEF IsPath
<1>2. s \in [1..Len(s) -> T]
  BY <1>1
<1> QED
  BY <1>1, <1>2, SeqDef

LEMMA SeqIsPath ==
  ASSUME NEW T, NEW s \in Seq(T)
  PROVE  IsPath(s)
BY LenProperties DEF IsPath

LEMMA TwoPaths ==
  ASSUME NEW s, NEW t, IsPath(s), IsPath(t)
  PROVE  \E T : s \in Seq(T) /\ t \in Seq(T)
<1> DEFINE T == {s[i] : i \in 1..Len(s)} \cup {t[i] : i \in 1..Len(t)}
<1>1. s \in Seq(T)
  BY PathIsSeq
<1>2. t \in Seq(T)
  BY PathIsSeq
<1> QED
  BY <1>1, <1>2

LEMMA PathsEqual ==
  ASSUME NEW s, NEW t, IsPath(s), IsPath(t),
         Len(s) = Len(t), \A i \in 1..Len(s) : s[i] = t[i]
  PROVE  s = t
BY DEF IsPath

LEMMA PathsJoin ==
  ASSUME NEW s, NEW t, IsPath(s), IsPath(t)
  PROVE  IsPath(s \o t)
<1>1. PICK T : s \in Seq(T) /\ t \in Seq(T)
  BY TwoPaths
<1>2. s \o t \in Seq(T)
  BY <1>1, ConcatProperties
<1> QED
  BY <1>2, SeqIsPath

\* A part of a path, from its m-th component to its n-th.
LEMMA PartOfPath ==
  ASSUME NEW s, IsPath(s), NEW m \in Nat, NEW n \in Nat, 1 <= m, m <= n + 1, n <= Len(s)
  PROVE  /\ IsPath(SubSeq(s, m, n)) /\ Len(SubSeq(s, m, n)) = n - m + 1
         /\ \A i \in 1..(n - m + 1) : SubSeq(s, m, n)[i] = s[m + i - 1]
<1> DEFINE T == {s[i] : i \in 1..Len(s)}
<1>1. \A i \in m..n : s[i] \in T
  BY DEF IsPath
<1> HIDE DEF T
<1>2. /\ SubSeq(s, m, n) \in Seq(T)
      /\ Len(SubSeq(s, m, n)) = IF m <= n THEN n - m + 1 ELSE 0
      /\ \A i \in 1..(n - m + 1) : SubSeq(s, m, n)[i] = s[m + i - 1]
  BY <1>1, SubSeqProperties
<1>3. IsPath(SubSeq(s, m, n))
  BY <1>2, SeqIsPath
<1> QED
  BY <1>2, <1>3

\* What IsPrefix says, component by component.
Begins(s, t) == Len(s) <= Len(t) /\ \A i \in 1..Len(s) : s[i] = t[i]

LEMMA PrefixBegins ==
  ASSUME NEW s, NEW t, IsPath(s), IsPath(t)
  PROVE  IsPrefix(s, t) <=> Begins(s, t)
<1>1. Len(s) \in Nat /\ Len(t) \in Nat
  BY DEF IsPath
<1>2. CASE Len(s) <= Len(t)
  <2>1. /\ IsPath(SubSeq(t, 1, Len(s))) /\ Len(SubSeq(t, 1, Len(s))) = Len(s)
        /\ \A i \in 1..Len(s) : SubSeq(t, 1, Len(s))[i] = t[i]
    BY <1>1, <1>2, PartOfPath
  <2>2. SubSeq(s, 1, Len(s)) = s
    <3>1. /\ IsPath(SubSeq(s, 1, Len(s))) /\ Len(SubSeq(s, 1, Len(s))) = Len(s)
          /\ \A i \in 1..Len(s) : SubSeq(s, 1, Len(s))[i] = s[i]
      BY <1>1, PartOfPath
    <3> QED
      BY <3>1, PathsEqual
  <2>3. s = SubSeq(t, 1, Len(s)) <=> \A i \in 1..Len(s) : s[i] = t[i]
    BY <2>1, PathsEqual
  <2> QED
    BY <1>2, <2>2, <2>3 DEF IsPrefix, Begins
<1>3. CASE ~(Len(s) <= Len(t))
  BY <1>3 DEF IsPrefix, Begins
<1> QED
  BY <1>2, <1>3

LEMMA PrefixOfSelf ==
  ASSUME NEW s, IsPath(s)
  PROVE  IsPrefix(s, s)
BY PrefixBegins DEF Begins, IsPath

LEMMA PrefixOfPrefix ==
  ASSUME NEW s, NEW t, NEW u, IsPath(s), IsPath(t), IsPath(u), IsPrefix(s, t), IsPrefix(t, u)
  PROVE  IsPrefix(s, u)
<1>1. Begins(s, t) /\ Begins(t, u)
  BY PrefixBegins
<1>2. Begins(s, u)
  BY <1>1 DEF Begins, IsPath
<1> QED
  BY <1>2, PrefixBegins

\* Of two directories above a path one is above the other.
LEMMA PrefixesOfOne ==
  ASSUME NEW s, NEW t, NEW u, IsPath(s), IsPath(t), IsPath(u), IsPrefix(s, u), IsPrefix(t, u)
  PROVE  IsPrefix(s, t) \/ IsPrefix(t, s)
<1>1. Begins(s, u) /\ Begins(t, u)
  BY PrefixBegins
<1>2. Begins(s, t) \/ Begins(t, s)
  BY <1>1 DEF Begins, IsPath
<1> QED
  BY <1>2, PrefixBegins

LEMMA EmptyPath ==
  /\ IsPath(<<>>) /\ Len(<<>>) = 0
  /\ \A s : IsPath(s) => IsPrefix(<<>>, s) /\ (s # <<>> => Len(s) > 0)
<1>1. IsPath(<<>>) /\ Len(<<>>) = 0
  BY DEF IsPath
<1>2. ASSUME NEW s, IsPath(s) PROVE IsPrefix(<<>>, s) /\ (s # <<>> => Len(s) > 0)
  <2>1. Begins(<<>>, s)
    BY <1>1, <1>2 DEF Begins, IsPath
  <2>2. s # <<>> => Len(s) > 0
    BY <1>1, <1>2, PathsEqual DEF IsPath
  <2> QED
    BY <1>1, <1>2, <2>1, <2>2, PrefixBegins
<1> QED
  BY <1>1, <1>2

-----------------------------------------------------------------------------
(* What denials find on disk                                                *)

DiskOfPaths(disk) == \A f \in disk : IsPath(f)

LEMMA RestOfPath ==
  ASSUME NEW s, NEW p, IsPath(s), IsPath(p), IsPrefix(s, p)
  PROVE  /\ IsPath(Rest(s, p)) /\ Len(Rest(s, p)) = Len(p) - Len(s)
         /\ \A i \in 1..(Len(p) - Len(s)) : Rest(s, p)[i] = p[Len(s) + i]
<1>1. Len(s) <= Len(p) /\ Len(s) \in Nat /\ Len(p) \in Nat
  BY PrefixBegins DEF Begins, IsPath
<1>2. /\ IsPath(SubSeq(p, Len(s) + 1, Len(p)))
      /\ Len(SubSeq(p, Len(s) + 1, Len(p))) = Len(p) - (Len(s) + 1) + 1
      /\ \A i \in 1..(Len(p) - (Len(s) + 1) + 1) :
           SubSeq(p, Len(s) + 1, Len(p))[i] = p[(Len(s) + 1) + i - 1]
  BY <1>1, PartOfPath
<1> QED
  BY <1>1, <1>2 DEF Rest

LEMMA LastOfPath ==
  ASSUME NEW p, IsPath(p), NEW n \in Nat, n <= Len(p)
  PROVE  /\ IsPath(LastOf(p, n)) /\ Len(LastOf(p, n)) = n
         /\ \A i \in 1..n : LastOf(p, n)[i] = p[Len(p) - n + i]
<1> DEFINE m == Len(p) - n + 1
<1>1. m \in Nat /\ 1 <= m /\ m <= Len(p) + 1 /\ Len(p) \in Nat
  BY DEF IsPath
<1>2. Len(p) - m + 1 = n
  BY <1>1
<1>3. /\ IsPath(SubSeq(p, m, Len(p))) /\ Len(SubSeq(p, m, Len(p))) = n
      /\ \A i \in 1..n : SubSeq(p, m, Len(p))[i] = p[m + i - 1]
  <2> HIDE DEF m
  <2> QED
    BY <1>1, <1>2, PartOfPath
<1> QED
  BY <1>1, <1>3 DEF LastOf

LEMMA EndsWith ==
  ASSUME NEW s, NEW p, IsPath(s), IsPath(p), Len(s) <= Len(p),
         \A i \in 1..Len(s) : s[i] = p[Len(p) - Len(s) + i]
  PROVE  IsSuffix(s, p)
<1>1. Len(s) \in Nat /\ Len(p) \in Nat
  BY DEF IsPath
<1>2. ASSUME NEW q, IsPath(q)
      PROVE  /\ IsPath(Reverse(q)) /\ Len(Reverse(q)) = Len(q)
             /\ \A i \in 1..Len(q) : Reverse(q)[i] = q[(Len(q) - i) + 1]
  BY <1>2 DEF Reverse, IsPath
<1>3. \A i \in 1..Len(s) : Reverse(s)[i] = Reverse(p)[i]
  <2> SUFFICES ASSUME NEW i \in 1..Len(s) PROVE Reverse(s)[i] = Reverse(p)[i]
    OBVIOUS
  <2>1. (Len(s) - i) + 1 \in 1..Len(s) /\ i \in 1..Len(p)
    BY <1>1
  <2>2. s[(Len(s) - i) + 1] = p[Len(p) - Len(s) + ((Len(s) - i) + 1)]
    BY <2>1
  <2>3. Len(p) - Len(s) + ((Len(s) - i) + 1) = (Len(p) - i) + 1
    BY <1>1, <2>1
  <2> QED
    BY <1>2, <2>1, <2>2, <2>3
<1>4. Begins(Reverse(s), Reverse(p))
  BY <1>2, <1>3 DEF Begins
<1> QED
  BY <1>2, <1>4, PrefixBegins DEF IsSuffix

LEMMA ExistingPath ==
  ASSUME NEW disk, DiskOfPaths(disk), NEW p \in Existing(disk)
  PROVE  IsPath(p) /\ \E f \in disk : IsPath(f) /\ IsPrefix(p, f)
<1>1. PICK f \in disk : \E n \in 0..Len(f) : p = SubSeq(f, 1, n)
  BY DEF Existing
<1>2. IsPath(f) /\ Len(f) \in Nat
  BY <1>1 DEF DiskOfPaths, IsPath
<1>3. PICK n \in 0..Len(f) : p = SubSeq(f, 1, n)
  BY <1>1
<1>4. n \in Nat /\ 1 \in Nat /\ 1 <= n + 1 /\ n <= Len(f) /\ n - 1 + 1 = n
  BY <1>2
<1>5. /\ IsPath(p) /\ Len(p) = n - 1 + 1
      /\ \A i \in 1..(n - 1 + 1) : p[i] = f[1 + i - 1]
  BY <1>2, <1>3, <1>4, PartOfPath
<1>6. Begins(p, f)
  BY <1>2, <1>4, <1>5 DEF Begins
<1> QED
  BY <1>1, <1>2, <1>5, <1>6, PrefixBegins

\* What is above a path that exists does so too.
LEMMA AboveExists ==
  ASSUME NEW disk, DiskOfPaths(disk), NEW p \in Existing(disk), NEW s, IsPath(s), IsPrefix(s, p)
  PROVE  Exists(disk, s) /\ (s \in disk \/ IsDir(disk, s))
<1>1. PICK f \in disk : IsPath(p) /\ IsPath(f) /\ IsPrefix(p, f)
  BY ExistingPath
<1>2. IsPrefix(s, f)
  BY <1>1, PrefixOfPrefix
<1> QED
  BY <1>1, <1>2 DEF Exists, IsDir, IsStrictPrefix

LEMMA EndOfRest ==
  ASSUME NEW base, NEW tail, NEW p, IsPath(base), IsPath(tail), IsPath(p), IsPrefix(base, p),
         Len(tail) <= Len(Rest(base, p)),
         \A k \in 1..Len(tail) : tail[k] = LastOf(Rest(base, p), Len(tail))[k]
  PROVE  IsSuffix(tail, p)
<1> DEFINE n == Len(tail)
           rest == Rest(base, p)
           last == LastOf(rest, n)
<1>1. /\ IsPath(rest) /\ Len(rest) = Len(p) - Len(base)
      /\ \A i \in 1..(Len(p) - Len(base)) : rest[i] = p[Len(base) + i]
  BY RestOfPath
<1>2. n \in Nat /\ Len(p) \in Nat /\ Len(base) \in Nat /\ n <= Len(rest)
  BY DEF IsPath
<1> HIDE DEF rest
<1>3. \A i \in 1..n : last[i] = rest[Len(rest) - n + i]
  BY <1>1, <1>2, LastOfPath
<1>4. \A i \in 1..n : tail[i] = last[i]
  BY DEF rest
<1> HIDE DEF n, last
<1>5. ASSUME NEW i \in 1..n PROVE tail[i] = p[Len(p) - n + i]
  <2>1. Len(rest) - n + i \in 1..(Len(p) - Len(base))
    BY <1>1, <1>2
  <2>2. rest[Len(rest) - n + i] = p[Len(base) + (Len(rest) - n + i)]
    BY <1>1, <2>1
  <2>3. Len(base) + (Len(rest) - n + i) = Len(p) - n + i
    BY <1>1, <1>2
  <2> QED
    BY <1>3, <1>4, <2>2, <2>3
<1>6. n <= Len(p)
  BY <1>1, <1>2
<1> QED
  BY <1>5, <1>6, EndsWith DEF n

LEMMA GlobstarFinds ==
  ASSUME NEW disk, DiskOfPaths(disk), NEW p \in Existing(disk), NEW depth \in Nat,
         NEW r, IsRule(r), r.var = "/", r.deep, Matches(r, p), ~NotSought(r, p, depth)
  PROVE  p \in ExpandGlobstar(disk, r, depth)
<1> DEFINE base == r.base
           tail == r.tail
           rest == Rest(base, p)
<1>1. IsPath(base) /\ IsPath(tail) /\ IsPath(p)
  BY ExistingPath DEF IsRule
<1>2. IsPrefix(base, p) /\ Absolute(r) = base
  BY DEF Matches, Absolute
<1>3. /\ base # <<>> /\ ~(Len(rest) > depth)
      /\ \A k \in DOMAIN tail : tail[k] \notin DOMAIN Wild
  BY DEF NotSought
<1>4. tail = <<>> \/ (Len(rest) >= Len(tail) /\ Fits(tail, LastOf(rest, Len(tail))))
  BY DEF Matches, IsGlob
<1>5. Exists(disk, base)
  BY <1>1, <1>2, AboveExists
<1>6. base # <<>> /\ Exists(disk, base) => 
        ExpandGlobstar(disk, r, depth)
          = {q \in Existing(disk) : IsPrefix(base, q) /\ Len(q) - Len(base) <= depth /\ IsSuffix(tail, q)}
  BY <1>2 DEF ExpandGlobstar, WalkGlob
<1> HIDE DEF base, tail
<1>7. IsPath(rest) /\ Len(rest) = Len(p) - Len(base)
  BY <1>1, <1>2, RestOfPath
<1>8. Len(tail) \in Nat /\ Len(rest) \in Nat /\ DOMAIN tail = 1..Len(tail)
  BY <1>1, <1>7 DEF IsPath
<1> HIDE DEF rest
<1>9. Len(tail) <= Len(rest) /\ \A k \in 1..Len(tail) : tail[k] = LastOf(rest, Len(tail))[k]
  <2>1. CASE tail = <<>>
    BY <1>8, <2>1, EmptyPath
  <2>2. CASE tail # <<>>
    BY <1>3, <1>4, <1>8, <2>2 DEF Fits
  <2> QED
    BY <2>1, <2>2
<1>10. IsSuffix(tail, p)
  BY <1>1, <1>2, <1>9, EndOfRest DEF rest
<1>11. Len(p) - Len(base) <= depth
  BY <1>3, <1>7, <1>8
<1> QED
  BY <1>2, <1>3, <1>5, <1>6, <1>10, <1>11

\* A denial with wildcards finds what it is about, unless it does not look there.
LEMMA GlobFinds ==
  ASSUME NEW disk, DiskOfPaths(disk), NEW p \in Existing(disk), NEW depth \in Nat,
         NEW r, IsRule(r), r.var = "/", IsGlob(r), Matches(r, p), ~NotSought(r, p, depth)
  PROVE  p \in GlobMatches(disk, r, depth)
<1>1. CASE r.deep
  BY <1>1, GlobstarFinds DEF GlobMatches
<1>2. CASE ~r.deep
  <2>1. IsPrefix(r.base, p) /\ Absolute(r) = r.base /\ Fits(r.tail, Rest(r.base, p))
    BY <1>2 DEF Matches, Absolute, IsGlob
  <2> QED
    BY <1>2, <2>1 DEF GlobMatches, Glob
<1> QED
  BY <1>1, <1>2

-----------------------------------------------------------------------------
(* The rules of a policy                                                    *)

LEMMA ListNames ==
  /\ DenyListOf["read"] = "deny_read" /\ DenyListOf["write"] = "deny_write"
  /\ DenyListOf["exec"] = "deny_exec"
  /\ AllowListOf["read"] = "allow_read" /\ AllowListOf["write"] = "allow_write"
  /\ AllowListOf["exec"] = "allow_exec"
BY DEF DenyListOf, AllowListOf

LEMMA ShortPaths ==
  ASSUME NEW a, NEW b
  PROVE  IsPath(<<a>>) /\ IsPath(<<a, b>>)
<1>1. <<a>> \in Seq({a, b}) /\ <<a, b>> \in Seq({a, b})
  OBVIOUS
<1> QED
  BY <1>1, SeqIsPath

LEMMA TextIsRule ==
  ASSUME NEW v, NEW b, IsPath(b), NEW d, d \in BOOLEAN, NEW t, IsPath(t)
  PROVE  IsRule(RuleText(v, b, d, t)) /\ RuleText(v, b, d, t).var = v
BY DEF IsRule, RuleText

LEMMA ExpandedIsRule ==
  ASSUME NEW t, IsRule(t)
  PROVE  IsRule(Expand(t)) /\ Expand(t).var \in {"/", ""}
<1>1. /\ t = [var |-> t.var, base |-> t.base, deep |-> t.deep, tail |-> t.tail]
      /\ IsPath(t.base) /\ t.deep \in BOOLEAN /\ IsPath(t.tail)
  BY DEF IsRule
<1>2. ASSUME NEW v, NEW b, IsPath(b), NEW r, r = [t EXCEPT !.var = v, !.base = b]
      PROVE  IsRule(r) /\ r.var = v
  BY <1>1, <1>2 DEF IsRule
<1>3. IsPath(Home \o t.base) /\ IsPath(Cwd \o t.base) /\ IsPath(Tmp \o t.base) /\ IsPath(<<t.var>> \o t.base)
  BY <1>1, PathsJoin, ShortPaths, RulesAssumption
<1>4. \/ Expand(t) = [t EXCEPT !.var = "/", !.base = Home \o @]
      \/ Expand(t) = [t EXCEPT !.var = "/", !.base = Cwd \o @]
      \/ Expand(t) = [t EXCEPT !.var = "/", !.base = Tmp \o @]
      \/ Expand(t) = t /\ t.var \in {"/", ""}
      \/ Expand(t) = [t EXCEPT !.var = "", !.base = <<t.var>> \o @]
  BY DEF Expand
<1>5. ASSUME NEW v, NEW h, IsPath(h \o t.base), Expand(t) = [t EXCEPT !.var = v, !.base = h \o @]
      PROVE  IsRule(Expand(t)) /\ Expand(t).var = v
  <2>1. [t EXCEPT !.var = v, !.base = h \o @] = [t EXCEPT !.var = v, !.base = h \o t.base]
    BY <1>1
  <2> QED
    BY <1>2, <1>5, <2>1
<1> QED
  BY <1>3, <1>4, <1>5

PolicyOfRules(p) == \A l \in PathLists : \A r \in p.rules[l] : IsRule(r)

LEMMA ExpandedRules ==
  ASSUME NEW p, PolicyOfRules(p), NEW l \in PathLists, NEW r \in Rules(p, l)
  PROVE  IsRule(r) /\ r.var \in {"/", ""}
<1>1. PICK t \in p.rules[l] : r = Expand(t)
  BY DEF Rules, ExpandSlice
<1> QED
  BY <1>1, ExpandedIsRule DEF PolicyOfRules

LEMMA MandatoryAreRules ==
  ASSUME NEW allowed, NEW git, NEW r \in MandatoryDeny(allowed, git)
  PROVE  IsRule(r) /\ r.var \in {"/", ""}
<1>1. \A d \in {Cwd, Home} : IsPath(d)
  BY RulesAssumption
<1>2. ASSUME NEW f \in DangerousFiles, r \in {In(Cwd, f), Anywhere(f), In(Home, f)}
      PROVE  IsRule(r) /\ r.var \in {"/", ""}
  <2>1. IsPath(f.base) /\ IsPath(f.tail)
    BY RulesAssumption
  <2>2. IsPath(Cwd \o f.base) /\ IsPath(Home \o f.base) /\ IsPath(f.base \o f.tail) /\ IsPath(<<>>)
    BY <1>1, <2>1, PathsJoin, EmptyPath
  <2>3. FALSE \in BOOLEAN /\ TRUE \in BOOLEAN
    OBVIOUS
  <2>4. IsRule(In(Cwd, f)) /\ In(Cwd, f).var = "/" /\ IsRule(In(Home, f)) /\ In(Home, f).var = "/"
    BY <2>1, <2>2, <2>3, TextIsRule DEF In
  <2>5. IsRule(Anywhere(f)) /\ Anywhere(f).var = ""
    BY <2>2, <2>3, TextIsRule DEF Anywhere
  <2> QED
    BY <1>2, <2>4, <2>5
<1>3. ASSUME NEW d \in {Cwd, Home}, NEW x, NEW y, NEW deep, deep \in BOOLEAN,
             r = RuleText("/", d \o <<x, y>>, deep, <<>>)
      PROVE  IsRule(r) /\ r.var \in {"/", ""}
  <2>1. IsPath(d \o <<x, y>>) /\ IsPath(<<>>)
    BY <1>1, PathsJoin, ShortPaths, EmptyPath
  <2>2. \A b : IsPath(b) => IsRule(RuleText("/", b, deep, <<>>)) /\ RuleText("/", b, deep, <<>>).var = "/"
    BY <1>3, <2>1, TextIsRule
  <2> QED
    BY <1>3, <2>1, <2>2
<1>4. \/ \E f \in DangerousFiles : r \in {In(Cwd, f), Anywhere(f), In(Home, f)}
      \/ r \in GitConfig \/ r \in GitHooks
  <2>1. r \in Suppressible(git) \/ r \in GitHooks
    BY DEF MandatoryDeny
  <2>2. ASSUME r \in Suppressible(git)
        PROVE  r \in GitConfig \/ r \in UNION {{In(Cwd, f), Anywhere(f), In(Home, f)} : f \in DangerousFiles}
    <3>1. Suppressible(git) \subseteq GitConfig \cup UNION {{In(Cwd, f), Anywhere(f), In(Home, f)} : f \in DangerousFiles}
      BY DEF Suppressible
    <3> QED
      BY <2>2, <3>1
  <2>3. ASSUME r \in UNION {{In(Cwd, f), Anywhere(f), In(Home, f)} : f \in DangerousFiles}
        PROVE  \E f \in DangerousFiles : r \in {In(Cwd, f), Anywhere(f), In(Home, f)}
    BY <2>3
  <2> QED
    BY <2>1, <2>2, <2>3
<1>5. CASE r \in GitConfig
  <2>1. PICK d \in {Cwd, Home} : r = Literal("/", d \o <<".git", "config">>)
    BY <1>5 DEF GitConfig
  <2> QED
    BY <1>3, <2>1 DEF Literal
<1>6. CASE r \in GitHooks
  <2>1. PICK d \in {Cwd, Home} : r \in {Literal("/", d \o <<".git", "hooks">>), Below("/", d \o <<".git", "hooks">>)}
    BY <1>6 DEF GitHooks
  <2> QED
    BY <1>3, <2>1 DEF Literal, Below
<1> QED
  BY <1>2, <1>4, <1>5, <1>6

\* A rule that is about a path, and looked for, is an absolute one.
LEMMA SoughtIsAbsolute ==
  ASSUME NEW r, NEW p, NEW depth, Matches(r, p), ~NotSought(r, p, depth)
  PROVE  r.var = "/" /\ IsPrefix(r.base, p)
BY DEF Matches, NotSought

-----------------------------------------------------------------------------
(* Landlock                                                                 *)

LEMMA LandlockFinds ==
  ASSUME NEW disk, DiskOfPaths(disk), NEW p \in Existing(disk),
         NEW r, IsRule(r), Matches(r, p), ~NotSought(r, p, GlobDepth)
  PROVE  \E q \in LandlockDenied(disk, r) : IsPrefix(q, p)
<1>1. r.var = "/" /\ IsPrefix(r.base, p)
  BY SoughtIsAbsolute
<1>2. CASE IsGlob(r)
  <2>1. p \in GlobMatches(disk, r, GlobDepth)
    BY <1>1, <1>2, GlobFinds, RulesAssumption
  <2>2. IsPrefix(p, p)
    BY ExistingPath, PrefixOfSelf
  <2> QED
    BY <1>1, <1>2, <2>1, <2>2 DEF LandlockDenied
<1>3. CASE ~IsGlob(r)
  BY <1>1, <1>3 DEF LandlockDenied
<1> QED
  BY <1>2, <1>3

\* What the list of denials takes from a rule, of one direction.
LEMMA LandlockLists ==
  ASSUME NEW p, NEW disk, NEW op \in {"read", "write"}, NEW r, NEW q \in LandlockDenied(disk, r),
         \/ /\ r \in Rules(p, DenyListOf[op]) /\ ~IsProc(r)
            /\ op = "write" => WithinWritable(p, r)
         \/ r \in Mandatory(p, AllowListOf[op])
  PROVE  \E d \in LandlockDenials(p, disk) : d.path = q /\ op \in d.mode
<1> DEFINE deny(mode, rules) ==
             {[path |-> x, mode |-> mode] : x \in UNION {LandlockDenied(disk, s) : s \in rules}}
<1>1. ASSUME NEW mode, op \in mode, NEW rules, r \in rules
      PROVE  \E d \in deny(mode, rules) : d.path = q /\ op \in d.mode
  <2>1. q \in UNION {LandlockDenied(disk, s) : s \in rules}
    BY <1>1
  <2>2. [path |-> q, mode |-> mode] \in deny(mode, rules)
    BY <2>1
  <2> QED
    BY <1>1, <2>2
<1>2. LandlockDenials(p, disk) =
        deny({"read"}, {s \in Rules(p, "deny_read") : ~IsProc(s)})
        \cup deny({"write"}, {s \in Rules(p, "deny_write") : ~IsProc(s) /\ WithinWritable(p, s)})
        \cup deny({"read", "write"}, MandatoryBoth(p))
        \cup deny({"read"}, MandatoryRead(p) \ MandatoryBoth(p))
        \cup deny({"write"}, MandatoryWrite(p) \ MandatoryBoth(p))
  BY DEF LandlockDenials
<1> HIDE DEF deny
<1>3. \/ op = "read" /\ r \in {s \in Rules(p, "deny_read") : ~IsProc(s)}
      \/ op = "write" /\ r \in {s \in Rules(p, "deny_write") : ~IsProc(s) /\ WithinWritable(p, s)}
      \/ r \in MandatoryBoth(p)
      \/ op = "read" /\ r \in MandatoryRead(p) \ MandatoryBoth(p)
      \/ op = "write" /\ r \in MandatoryWrite(p) \ MandatoryBoth(p)
  BY ListNames DEF MandatoryRead, MandatoryWrite
<1> QED
  BY <1>1, <1>2, <1>3

\* Whatever a rule makes writable is within what the text of that rule says.
LEMMA WritableByRule ==
  ASSUME NEW p, PolicyOfRules(p), NEW disk, DiskOfPaths(disk), NEW path \in Existing(disk),
         NEW a \in Rules(p, "allow_write"), a.var = "/",
         NEW q \in LandlockExpand(disk, a), IsPrefix(q, path),
         NEW r, IsRule(r), r.var = "/", IsPrefix(r.base, path)
  PROVE  WithinWritable(p, r)
<1>1. IsRule(a) /\ IsPath(a.base) /\ IsPath(path) /\ IsPath(r.base) /\ Absolute(a) = a.base
  <2>1. "allow_write" \in PathLists
    BY DEF PathLists, Lists
  <2> QED
    BY <2>1, ExpandedRules, ExistingPath DEF IsRule, Absolute
<1>2. CASE a.base = <<>>
  BY <1>2 DEF WithinWritable, BeginsWith
<1>3. CASE a.base # <<>>
  <2>1. q = a.base \/ (q \in Existing(disk) /\ IsPrefix(a.base, q))
    <3>1. q = a.base \/ q \in GlobMatches(disk, a, GlobDepth)
      BY <1>1, <1>3 DEF LandlockExpand, GlobParent
    <3>2. q \in Glob(disk, a) => q \in Existing(disk) /\ IsPrefix(Absolute(a), q)
      BY DEF Glob
    <3>3. q \in WalkGlob(disk, a, GlobDepth) => q \in Existing(disk) /\ IsPrefix(Absolute(a), q)
      BY DEF WalkGlob
    <3> QED
      BY <1>1, <1>3, <3>1, <3>2, <3>3 DEF GlobMatches, ExpandGlobstar
  <2>2. IsPath(q)
    BY <1>1, <2>1, ExistingPath
  <2>3. IsPrefix(a.base, path)
    BY <1>1, <2>1, <2>2, PrefixOfPrefix
  <2>4. IsPrefix(a.base, r.base) \/ IsPrefix(r.base, a.base)
    BY <1>1, <2>3, PrefixesOfOne
  <2> QED
    BY <1>3, <2>4 DEF WithinWritable, BeginsWith
<1> QED
  BY <1>2, <1>3

\* What a relative rule makes writable is in the directory it begins with.
LEMMA WritableByRelative ==
  ASSUME NEW disk, DiskOfPaths(disk), NEW path, IsPath(path),
         NEW a, IsRule(a), a.var # "/", NEW q \in LandlockExpand(disk, a), IsPrefix(q, path)
  PROVE  IsPrefix(Absolute(a), path)
<1> DEFINE base == Absolute(a)
<1>1. IsPath(base) /\ base = Cwd \o a.base
  BY RulesAssumption, PathsJoin DEF Absolute, IsRule
<1>2. a.base = <<>> => base = Cwd
  <2>1. PICK T : Cwd \in Seq(T)
    BY TwoPaths, RulesAssumption
  <2> QED
    BY <1>1, <2>1, ConcatEmptySeq
<1>3. q = base \/ (q \in Existing(disk) /\ IsPrefix(base, q))
  <2>1. q = base \/ q \in GlobMatches(disk, a, GlobDepth)
    BY <1>2 DEF LandlockExpand, GlobParent
  <2>2. q \in Glob(disk, a) => q \in Existing(disk) /\ IsPrefix(base, q)
    BY DEF Glob
  <2>3. q \in WalkGlob(disk, a, GlobDepth) => q \in Existing(disk) /\ IsPrefix(base, q)
    BY DEF WalkGlob
  <2> HIDE DEF base
  <2>4. q \in ExpandGlobstar(disk, a, GlobDepth) => q = base \/ q \in WalkGlob(disk, a, GlobDepth)
    BY DEF ExpandGlobstar, base
  <2> QED
    BY <2>1, <2>2, <2>3, <2>4 DEF GlobMatches
<1>4. IsPath(q)
  BY <1>1, <1>3, ExistingPath
<1> HIDE DEF base
<1>5. IsPrefix(base, path)
  BY <1>1, <1>3, <1>4, PrefixOfPrefix
<1> QED
  BY <1>5 DEF base

LEMMA LandlockWrites ==
  ASSUME NEW p, NEW disk, NEW e \in LandlockRules(p, disk), "write" \in e.access
  PROVE  \/ \E a \in Rules(p, "allow_write") : e.path \in LandlockExpand(disk, a)
         \/ e.path = Tmp \/ e.path \in Devices \/ (On(p, "pty") /\ e.path \in Terminals)
<1>1. ASSUME NEW access, NEW paths, e \in Allow(access, paths)
      PROVE  e.access = access /\ e.path \in paths
  BY <1>1 DEF Allow
<1>2. "write" \notin ReadAccess
  BY DEF ReadAccess
<1> DEFINE paths(list) == UNION {LandlockExpand(disk, r) : r \in Rules(p, list)}
           execs == paths("allow_exec")
           reads == paths("allow_read") \cup execs \cup UNION {UsrAlternate(x) : x \in execs}
<1>3. LandlockRules(p, disk) =
        Allow(ReadAccess, reads) \cup Allow(ReadAccess \cup WriteAccess, paths("allow_write"))
        \cup LandlockSystemRules(p)
  BY DEF LandlockRules
<1>4. e \in LandlockSystemRules(p) =>
        \/ e \in Allow(ReadAccess, ExecDirs \cup {<<"proc">>})
        \/ e \in Allow(ReadAccess \cup WriteAccess, Devices \cup (IF On(p, "pty") THEN Terminals ELSE {}))
        \/ e \in Allow(WriteAccess, {Tmp})
  BY DEF LandlockSystemRules
<1>5. e \in Allow(ReadAccess \cup WriteAccess, paths("allow_write")) \/ e \in LandlockSystemRules(p)
  <2> HIDE DEF reads, paths
  <2> QED
    BY <1>1, <1>2, <1>3
<1>6. CASE e \in Allow(ReadAccess \cup WriteAccess, paths("allow_write"))
  BY <1>1, <1>6
<1>7. CASE e \in LandlockSystemRules(p)
  BY <1>1, <1>2, <1>4, <1>7
<1> QED
  BY <1>5, <1>6, <1>7

LEMMA DenialIsRule ==
  ASSUME PolicyOfRules(policy), NEW op \in {"read", "write", "exec"}, NEW r \in Denials(op)
  PROVE  /\ IsRule(r)
         /\ \/ r \in Rules(policy, DenyListOf[op])
            \/ op # "exec" /\ r \in Mandatory(policy, AllowListOf[op])
<1>1. \/ r \in Rules(policy, DenyListOf[op])
      \/ op # "exec" /\ r \in Mandatory(policy, AllowListOf[op])
  BY DEF Denials
<1>2. DenyListOf[op] \in PathLists
  BY ListNames DEF PathLists, Lists
<1> QED
  BY <1>1, <1>2, ExpandedRules, MandatoryAreRules DEF Mandatory

LEMMA LandlockWins ==
  ASSUME PolicyOfRules(policy), DiskOfPaths(asked.disk),
         compiled = LandlockPolicy(policy, asked.disk),
         NEW path \in Existing(asked.disk), NEW op \in {"read", "write", "exec"},
         NEW r \in Denials(op), Matches(r, path), ~LandlockOmits(op, r, path)
  PROVE  ~LandlockPermits(compiled, op, path)
<1> DEFINE disk == asked.disk
<1>1. /\ compiled.allow = LandlockRules(policy, disk) /\ compiled.deny = LandlockDenials(policy, disk)
      /\ compiled.noExec = UNION {LandlockDenied(disk, s) : s \in Rules(policy, "deny_exec")}
  BY DEF LandlockPolicy
<1>2. /\ IsRule(r)
      /\ \/ r \in Rules(policy, DenyListOf[op])
         \/ op # "exec" /\ r \in Mandatory(policy, AllowListOf[op])
  BY DenialIsRule
<1>3. /\ ~NotSought(r, path, GlobDepth)
      /\ op # "exec" => ~IsProc(r)
      /\ op = "write" /\ WritableAnyway(path) => WithinWritable(policy, r)
  BY DEF LandlockOmits
<1>4. PICK q \in LandlockDenied(disk, r) : IsPrefix(q, path)
  BY <1>2, <1>3, LandlockFinds
<1>5. CASE op = "exec"
  <2>1. q \in compiled.noExec
    BY <1>1, <1>2, <1>4, <1>5, ListNames
  <2> QED
    BY <1>4, <1>5, <2>1 DEF LandlockPermits
<1>6. CASE op # "exec" /\ (op = "write" /\ r \in Rules(policy, DenyListOf[op]) => WithinWritable(policy, r))
  <2>1. \E d \in LandlockDenials(policy, disk) : d.path = q /\ op \in d.mode
    BY <1>2, <1>3, <1>4, <1>6, LandlockLists
  <2> QED
    BY <1>1, <1>4, <2>1 DEF LandlockPermits
<1>7. CASE op = "write" /\ ~WithinWritable(policy, r)
  <2> SUFFICES ASSUME LandlockPermits(compiled, op, path) PROVE FALSE
    OBVIOUS
  <2>1. PICK e \in LandlockRules(policy, disk) : IsPrefix(e.path, path) /\ "write" \in e.access
    BY <1>1, <1>7 DEF LandlockPermits
  <2>2. ~WritableAnyway(path)
    BY <1>3, <1>7
  <2>3. PICK a \in Rules(policy, "allow_write") : e.path \in LandlockExpand(disk, a)
    BY <2>1, <2>2, LandlockWrites DEF WritableAnyway, Beneath, Terminal
  <2>4. IsRule(a)
    BY ExpandedRules DEF PathLists, Lists
  <2>5. a.var = "/"
    BY <2>1, <2>2, <2>3, <2>4, WritableByRelative, ExistingPath DEF WritableAnyway, Beneath
  <2>6. r.var = "/" /\ IsPrefix(r.base, path)
    BY <1>3, SoughtIsAbsolute
  <2> QED
    BY <1>2, <1>7, <2>1, <2>3, <2>5, <2>6, WritableByRule
<1> QED
  BY <1>5, <1>6, <1>7

-----------------------------------------------------------------------------
(* Seatbelt                                                                 *)

\* A set of numbers has a first.
LEMMA LeastNumber ==
  ASSUME NEW T, T \subseteq Nat, T # {}
  PROVE  \E x \in T : \A y \in T : x <= y
<1>1. \E x \in T : \A y \in T : ~(<<y, x>> \in OpToRel(<, Nat))
  BY NatLessThanWellFounded, WFMin, Zenon
<1>2. \A x, y \in T : ~(<<y, x>> \in OpToRel(<, Nat)) => x <= y
  BY DEF OpToRel
<1> QED
  BY <1>1, <1>2

LEMMA GreatestNumber ==
  ASSUME NEW n \in Nat, NEW S, S \subseteq 1..n, S # {}
  PROVE  \E k \in S : \A l \in S : l <= k
<1> DEFINE T == {n - x : x \in S}
<1>1. T \subseteq Nat /\ T # {}
  <2>1. \A x \in S : n - x \in Nat
    OBVIOUS
  <2> QED
    BY <2>1
<1> HIDE DEF T
<1>2. PICK m \in T : \A y \in T : m <= y
  BY <1>1, LeastNumber
<1>3. PICK k \in S : m = n - k
  BY <1>2 DEF T
<1>4. \A l \in S : n - l \in T
  BY DEF T
<1>5. \A l \in S : n - k <= n - l
  BY <1>2, <1>3, <1>4
<1> QED
  BY <1>5

\* What a sequence of two parts is, number by number.
Joined(u, V, s, t, m, n) ==
  /\ u \in Seq(V) /\ Len(u) = m + n
  /\ \A i \in 1..m : u[i] = s[i]
  /\ \A i \in 1..n : u[m + i] = t[i]
LEMMA JoinAt ==
  ASSUME NEW V, NEW s, NEW t, s \in Seq(V), t \in Seq(V), NEW m, NEW n, m \in Nat, n \in Nat, Len(s) = m, Len(t) = n
  PROVE  Joined(s \o t, V, s, t, m, n)
<1>1. /\ s \o t \in Seq(V) /\ Len(s \o t) = Len(s) + Len(t)
      /\ \A i \in 1..(Len(s) + Len(t)) : (s \o t)[i] = IF i <= Len(s) THEN s[i] ELSE t[i - Len(s)]
  BY ConcatProperties
<1>2. ASSUME NEW i \in 1..m PROVE (s \o t)[i] = s[i]
  <2>1. i \in 1..(m + n) /\ i <= m
    OBVIOUS
  <2> QED
    BY <1>1, <2>1
<1>3. ASSUME NEW i \in 1..n PROVE (s \o t)[m + i] = t[i]
  <2>1. m + i \in 1..(m + n) /\ ~(m + i <= m) /\ (m + i) - m = i
    OBVIOUS
  <2> QED
    BY <1>1, <2>1
<1> QED
  BY <1>1, <1>2, <1>3 DEF Joined

\* Where the parts of a sequence of five are.
PartsAt(s, b, c, d, e, k) ==
  /\ DOMAIN s = 1..(11 + k)
  /\ s[3] = b[1] /\ s[4] = b[2] /\ s[5] = b[3]
  /\ s[6] = c[1] /\ s[7] = c[2] /\ s[8] = c[3] /\ s[9] = c[4]
  /\ s[10] = d[1] /\ s[11] = d[2]
  /\ \A i \in 1..k : s[11 + i] = e[i]

LEMMA PartsNumbered ==
  ASSUME NEW V, NEW a, NEW b, NEW c, NEW d, NEW e, NEW k \in Nat, NEW f, NEW g, NEW h, NEW s,
         Joined(f, V, a, b, 2, 3),
         Joined(g, V, f, c, 5, 4), Joined(h, V, g, d, 9, 2), Joined(s, V, h, e, 11, k)
  PROVE  PartsAt(s, b, c, d, e, k)
<1>1. s \in Seq(V) /\ Len(s) = 11 + k
  BY DEF Joined
<1>2. DOMAIN s = 1..(11 + k)
  BY <1>1, LenProperties, Zenon
<1>3. \A i \in 1..4 : g[5 + i] = c[i]
  BY Zenon DEF Joined
<1>4. \A i \in 1..2 : h[9 + i] = d[i]
  BY Zenon DEF Joined
<1>5. \A i \in 1..9 : h[i] = g[i]
  BY Zenon DEF Joined
<1>6. \A i \in 1..11 : s[i] = h[i]
  BY Zenon DEF Joined
<1>7. \A i \in 1..k : s[11 + i] = e[i]
  BY Zenon DEF Joined
<1>8. g[6] = c[1] /\ g[7] = c[2] /\ g[8] = c[3] /\ g[9] = c[4]
  BY <1>3
<1>9. h[10] = d[1] /\ h[11] = d[2]
  BY <1>4
<1>10. s[3] = b[1] /\ s[4] = b[2] /\ s[5] = b[3]
  <2>1. \A i \in 1..3 : f[2 + i] = b[i]
    BY Zenon DEF Joined
  <2>2. \A i \in 1..5 : g[i] = f[i]
    BY Zenon DEF Joined
  <2>3. f[3] = b[1] /\ f[4] = b[2] /\ f[5] = b[3]
    BY <2>1
  <2> QED
    BY <1>5, <1>6, <2>2, <2>3
<1> QED
  BY <1>2, <1>5, <1>6, <1>7, <1>8, <1>9, <1>10 DEF PartsAt

LEMMA FiveParts ==
  ASSUME NEW V, NEW a \in Seq(V), NEW b \in Seq(V), NEW c \in Seq(V), NEW d \in Seq(V), NEW e \in Seq(V),
         NEW k, k \in Nat, Len(a) = 2, Len(b) = 3, Len(c) = 4, Len(d) = 2, Len(e) = k
  PROVE  PartsAt(a \o b \o c \o d \o e, b, c, d, e, k)
<1>0. 2 \in Nat /\ 3 \in Nat /\ 4 \in Nat /\ 5 \in Nat /\ 9 \in Nat /\ 11 \in Nat
  OBVIOUS
<1> DEFINE f == a \o b
           g == f \o c
           h == g \o d
           s == h \o e
<1>1. Joined(f, V, a, b, 2, 3)
  BY <1>0, JoinAt, Zenon
<1>2. f \in Seq(V) /\ Len(f) = 2 + 3
  BY <1>1, Zenon DEF Joined
<1> HIDE DEF f
<1>3. Len(f) = 5
  BY <1>2
<1>4. Joined(g, V, f, c, 5, 4)
  BY <1>0, <1>2, <1>3, JoinAt, Zenon
<1>5. g \in Seq(V) /\ Len(g) = 5 + 4
  BY <1>4, Zenon DEF Joined
<1> HIDE DEF g
<1>6. Len(g) = 9
  BY <1>5
<1>7. Joined(h, V, g, d, 9, 2)
  BY <1>0, <1>5, <1>6, JoinAt, Zenon
<1>8. h \in Seq(V) /\ Len(h) = 9 + 2
  BY <1>7, Zenon DEF Joined
<1> HIDE DEF h
<1>9. Len(h) = 11
  BY <1>8
<1>10. Joined(s, V, h, e, 11, k)
  BY <1>0, <1>8, <1>9, JoinAt, Zenon
<1> HIDE DEF s
<1>11. PartsAt(s, b, c, d, e, k)
  BY <1>1, <1>4, <1>7, <1>10, PartsNumbered, Zenon
<1> QED
  BY <1>11, Zenon DEF f, g, h, s

\* The rules as they come, one after the other.
InOrder(s, p) ==
  /\ DOMAIN s \subseteq 1..13 /\ 1..11 \subseteq DOMAIN s
  /\ s[3] = Verdict(TRUE, "read", "below", Rules(p, "allow_read"))
  /\ s[4].allow = TRUE
  /\ s[5] = Verdict(TRUE, "write", "below", Rules(p, "allow_write"))
  /\ s[6] = Verdict(FALSE, "read", "subpath", Rules(p, "deny_read"))
  /\ s[7] = Verdict(FALSE, "write", "subpath", Rules(p, "deny_write"))
  /\ s[8] = Verdict(FALSE, "write", "subpath", MandatoryWrite(p))
  /\ s[9] = Verdict(FALSE, "read", "subpath", MandatoryRead(p))
  /\ s[10] = Verdict(TRUE, "exec", "literal", Rules(p, "allow_exec"))
  /\ s[11] = Verdict(FALSE, "exec", "literal", Rules(p, "deny_exec"))
  /\ \A n \in DOMAIN s : n > 11 =>
       /\ On(p, "pty") /\ s[n].op \in {"read", "write"} /\ s[n].kind = "subpath"
       /\ s[n].rules = {Literal("/", t) : t \in Terminals} /\ s[n].allow = TRUE

LEMMA SeatbeltOrder ==
  ASSUME NEW p
  PROVE  InOrder(SeatbeltPolicy(p).rules, p)
<1> DEFINE a == SeatbeltSystem
           b == SeatbeltAllowances(p)
           c == SeatbeltDenials(p)
           d == SeatbeltPrograms(p)
           e == SeatbeltTerminals(p)
           V == {a[1], a[2], b[1], b[2], b[3], c[1], c[2], c[3], c[4], d[1], d[2], e[1], e[2]}
           k == IF On(p, "pty") THEN 2 ELSE 0
<1>1. a \in Seq(V) /\ Len(a) = 2
  BY DEF SeatbeltSystem
<1>2. b \in Seq(V) /\ Len(b) = 3
  BY DEF SeatbeltAllowances
<1>3. c \in Seq(V) /\ Len(c) = 4
  BY DEF SeatbeltDenials
<1>4. d \in Seq(V) /\ Len(d) = 2
  BY DEF SeatbeltPrograms
<1> DEFINE x == Verdict(TRUE, "read", "subpath", {Literal("/", t) : t \in Terminals})
           y == Verdict(TRUE, "write", "subpath", {Literal("/", t) : t \in Terminals})
<1>t. e = IF On(p, "pty") THEN <<x, y>> ELSE <<>>
  BY DEF SeatbeltTerminals
<1>u. \A z \in {x, y} : /\ z.op \in {"read", "write"} /\ z.kind = "subpath" /\ z.allow = TRUE
                        /\ z.rules = {Literal("/", t) : t \in Terminals}
  BY DEF Verdict
<1>5. e \in Seq(V) /\ Len(e) = k
  <2> HIDE DEF x, y, a, b, c, d, e
  <2>1. CASE On(p, "pty")
    <3>1. e = <<x, y>> /\ e[1] \in V /\ e[2] \in V
      BY <1>t, <2>1
    <3>2. e = <<e[1], e[2]>>
      BY <3>1
    <3> HIDE DEF V
    <3> QED
      BY <2>1, <3>1, <3>2
  <2>2. CASE ~On(p, "pty")
    BY <1>t, <2>2
  <2> QED
    BY <2>1, <2>2
<1>b. /\ b[1] = Verdict(TRUE, "read", "below", Rules(p, "allow_read"))
      /\ b[2].allow = TRUE /\ b[3] = Verdict(TRUE, "write", "below", Rules(p, "allow_write"))
  BY DEF SeatbeltAllowances, Verdict
<1>6. /\ c[1] = Verdict(FALSE, "read", "subpath", Rules(p, "deny_read"))
      /\ c[2] = Verdict(FALSE, "write", "subpath", Rules(p, "deny_write"))
      /\ c[3] = Verdict(FALSE, "write", "subpath", MandatoryWrite(p))
      /\ c[4] = Verdict(FALSE, "read", "subpath", MandatoryRead(p))
  BY DEF SeatbeltDenials
<1>7. /\ d[1] = Verdict(TRUE, "exec", "literal", Rules(p, "allow_exec"))
      /\ d[2] = Verdict(FALSE, "exec", "literal", Rules(p, "deny_exec"))
  BY DEF SeatbeltPrograms
<1>8. \A i \in 1..k : On(p, "pty") /\ e[i] \in {x, y}
  <2> HIDE DEF x, y, e
  <2>1. CASE On(p, "pty")
    <3>1. e[1] = x /\ e[2] = y
      BY <1>t, <2>1
    <3>2. k = 2
      BY <2>1
    <3> QED
      BY <2>1, <3>1, <3>2
  <2>2. CASE ~On(p, "pty")
    BY <2>2
  <2> QED
    BY <2>1, <2>2
<1> DEFINE s == SeatbeltPolicy(p).rules
<1>9. s = a \o b \o c \o d \o e
  BY DEF SeatbeltPolicy
<1>k. k \in {0, 2}
  OBVIOUS
<1> HIDE DEF a, b, c, d, e, V, k, x, y, s
<1>10. PartsAt(s, b, c, d, e, k)
  <2>1. k \in Nat
    BY <1>k
  <2> QED
    BY <1>1, <1>2, <1>3, <1>4, <1>5, <1>9, <2>1, FiveParts, Zenon
<1>11. ASSUME NEW n \in DOMAIN s, n > 11
       PROVE  On(p, "pty") /\ s[n] \in {x, y}
  <2>1. DOMAIN s = 1..(11 + k) /\ \A i \in 1..k : s[11 + i] = e[i]
    BY <1>10, Zenon DEF PartsAt
  <2>2. n - 11 \in 1..k /\ 11 + (n - 11) = n
    <3>1. n \in 1..(11 + k)
      BY <1>11, <2>1, Zenon
    <3> QED
      BY <1>11, <1>k, <3>1
  <2> QED
    BY <1>8, <2>1, <2>2, Zenon
<1>12. DOMAIN s \subseteq 1..13 /\ 1..11 \subseteq DOMAIN s
  <2>1. DOMAIN s = 1..(11 + k)
    BY <1>10, Zenon DEF PartsAt
  <2> QED
    BY <1>k, <2>1
<1>13. /\ s[3] = b[1] /\ s[4] = b[2] /\ s[5] = b[3] /\ s[6] = c[1] /\ s[7] = c[2] /\ s[8] = c[3] /\ s[9] = c[4]
       /\ s[10] = d[1] /\ s[11] = d[2]
  BY <1>10, Zenon DEF PartsAt
<1> QED
  <2>1. InOrder(s, p)
    BY <1>b, <1>u, <1>6, <1>7, <1>11, <1>12, <1>13 DEF InOrder
  <2> QED
    BY <2>1 DEF s

LEMMA SeatbeltWins ==
  ASSUME compiled = SeatbeltPolicy(policy),
         NEW path, NEW op \in {"read", "write", "exec"},
         NEW r \in Denials(op), Matches(r, path), ~SeatbeltOmits(op, r, path)
  PROVE  ~SeatbeltPermits(compiled, op, path)
<1> DEFINE s == compiled.rules
           about == {n \in DOMAIN s : s[n].op = op /\ Concerns(s[n], path)}
           last == CHOOSE k \in about : \A l \in about : l <= k
<1>0. InOrder(s, policy)
  BY SeatbeltOrder
<1>1. /\ DOMAIN s \subseteq 1..13 /\ 1..11 \subseteq DOMAIN s
      /\ s[6] = Verdict(FALSE, "read", "subpath", Rules(policy, "deny_read"))
      /\ s[7] = Verdict(FALSE, "write", "subpath", Rules(policy, "deny_write"))
      /\ s[8] = Verdict(FALSE, "write", "subpath", MandatoryWrite(policy))
      /\ s[9] = Verdict(FALSE, "read", "subpath", MandatoryRead(policy))
      /\ s[10] = Verdict(TRUE, "exec", "literal", Rules(policy, "allow_exec"))
      /\ s[11] = Verdict(FALSE, "exec", "literal", Rules(policy, "deny_exec"))
      /\ \A n \in DOMAIN s : n > 11 =>
           /\ On(policy, "pty") /\ s[n].op \in {"read", "write"} /\ s[n].kind = "subpath"
           /\ s[n].rules = {Literal("/", t) : t \in Terminals}
  BY <1>0, Zenon DEF InOrder
<1>2. \/ op = "read" /\ (r \in Rules(policy, "deny_read") \/ r \in MandatoryRead(policy))
      \/ op = "write" /\ (r \in Rules(policy, "deny_write") \/ r \in MandatoryWrite(policy))
      \/ op = "exec" /\ r \in Rules(policy, "deny_exec")
  BY ListNames DEF Denials, MandatoryRead, MandatoryWrite
<1> HIDE DEF s
<1>3. \E n \in 6..11 : n # 10 /\ s[n].op = op /\ r \in s[n].rules /\ s[n].kind \in {"subpath", "literal"}
                        /\ (s[n].kind = "literal" => op = "exec")
  BY <1>1, <1>2 DEF Verdict
<1>4. PICK n \in 6..11 : n # 10 /\ s[n].op = op /\ Concerns(s[n], path)
  <2>1. op = "exec" => IsGlob(r) \/ path = r.base
    BY DEF SeatbeltOmits
  <2> QED
    BY <1>3, <2>1 DEF Concerns
<1>5. n \in about
  BY <1>1, <1>4
<1>6. \E k \in about : \A l \in about : l <= k
  BY <1>1, <1>5, GreatestNumber
<1>7. last \in about /\ n <= last
  BY <1>5, <1>6
<1>8. ASSUME last > 11 PROVE FALSE
  <2>1. On(policy, "pty") /\ s[last].kind = "subpath" /\ s[last].rules = {Literal("/", t) : t \in Terminals}
        /\ Concerns(s[last], path)
    BY <1>1, <1>7, <1>8
  <2> HIDE DEF last
  <2>2. PICK t \in Terminals : Matches(Literal("/", t), path)
    BY <2>1 DEF Concerns
  <2>3. Beneath(path, t)
    BY <2>2 DEF Matches, Literal, RuleText, Beneath
  <2> QED
    BY <2>1, <2>3 DEF SeatbeltOmits, Terminal
<1>9. last \in 6..11 /\ last # 10
  <2>1. last \in 6..11
    <3> HIDE DEF last
    <3> QED
      BY <1>1, <1>7, <1>8
  <2>2. last = 10 => op = "exec" /\ n = 11
    BY <1>1, <1>2, <1>4, <1>7 DEF Verdict
  <2> HIDE DEF last
  <2> QED
    BY <1>4, <1>7, <2>1, <2>2
<1>10. s[last].allow = FALSE
  <2> HIDE DEF last
  <2> QED
    BY <1>1, <1>9 DEF Verdict
<1> QED
  BY <1>10 DEF SeatbeltPermits, s

-----------------------------------------------------------------------------
(* Bubblewrap                                                               *)

\* The layers, one after the other, each with the mounts it can have.
Layered(L, p, disk) ==
  /\ DOMAIN L \subseteq 1..10 /\ 1..8 \subseteq DOMAIN L
  /\ L[1] = BwrapEssential
  /\ L[2] = UNION {ReadRule(disk, r) : r \in Rules(p, "allow_read")}
  /\ L[3] = UNION {WriteRule(disk, r) : r \in Rules(p, "allow_write")}
  /\ L[4] = UNION {DenyReadRule(disk, r) : r \in Rules(p, "deny_read")}
  /\ L[5] = UNION {DenyWriteRule(disk, r) : r \in Rules(p, "deny_write")}
  /\ L[6] = UNION {DenyRule(disk, r) : r \in MandatoryWrite(p) \ Rules(p, "allow_read")}
  /\ L[7] = HiddenDirs(disk, MandatoryBoth(p))
  /\ L[8] = UNION {DenyExecRule(disk, r) : r \in Rules(p, "deny_exec")}
  /\ \A n \in DOMAIN L : n > 8 =>
       \/ On(p, "pty") /\ L[n] = Mounts("dev", Terminals)
       \/ L[n] = Mounts("rw", {Tmp})

LayersAt(s, a, b, c, d, k) ==
  /\ DOMAIN s = 1..(9 + k) /\ s[1] = a[1]
  /\ \A i \in 1..7 : s[1 + i] = b[i]
  /\ \A n \in DOMAIN s : n > 8 => (k = 1 /\ s[n] = c[1]) \/ s[n] = d[1]

LEMMA LayersNumbered ==
  ASSUME NEW V, NEW a, NEW b, NEW c, NEW d, NEW k, k \in {0, 1}, NEW f, NEW g, NEW h,
         Joined(f, V, a, b, 1, 7), Joined(g, V, f, c, 8, k), Joined(h, V, g, d, 8 + k, 1)
  PROVE  LayersAt(h, a, b, c, d, k)
<1>1. h \in Seq(V) /\ Len(h) = (8 + k) + 1
  BY Zenon DEF Joined
<1>2. DOMAIN h = 1..((8 + k) + 1)
  BY <1>1, LenProperties, Zenon
<1>3. (8 + k) + 1 = 9 + k
  OBVIOUS
<1>4. f[1] = a[1]
  <2>1. \A i \in 1..1 : f[i] = a[i]
    BY Zenon DEF Joined
  <2> QED
    BY <2>1
<1>5. \A i \in 1..7 : f[1 + i] = b[i]
  BY Zenon DEF Joined
<1>6. \A i \in 1..8 : g[i] = f[i]
  BY Zenon DEF Joined
<1>7. \A i \in 1..k : g[8 + i] = c[i]
  BY Zenon DEF Joined
<1>8. \A i \in 1..(8 + k) : h[i] = g[i]
  BY Zenon DEF Joined
<1>9. h[(8 + k) + 1] = d[1]
  <2>1. \A i \in 1..1 : h[(8 + k) + i] = d[i]
    BY Zenon DEF Joined
  <2>2. 1 \in 1..1
    OBVIOUS
  <2> QED
    BY <2>1, <2>2, Zenon
<1>10. h[1] = a[1]
  BY <1>4, <1>6, <1>8
<1>11. \A i \in 1..7 : h[1 + i] = b[i]
  BY <1>5, <1>6, <1>8
<1>12. ASSUME NEW n \in 1..(9 + k), n > 8
       PROVE  (k = 1 /\ h[n] = c[1]) \/ h[n] = d[1]
  <2>1. CASE n = 9 + k
    BY <1>3, <1>9, <2>1
  <2>2. CASE n # 9 + k
    <3>1. k = 1 /\ n = 9
      BY <1>12, <2>2
    <3>2. h[9] = g[9]
      BY <1>8, <3>1
    <3>3. g[9] = c[1]
      <4>1. 1 \in 1..k /\ 8 + 1 = 9
        BY <3>1
      <4>2. g[8 + 1] = c[1]
        BY <1>7, <4>1, Zenon
      <4> QED
        BY <4>1, <4>2
    <3> QED
      BY <3>1, <3>2, <3>3
  <2> QED
    BY <2>1, <2>2
<1> QED
  BY <1>2, <1>3, <1>10, <1>11, <1>12 DEF LayersAt

LEMMA BwrapOrder ==
  ASSUME NEW p, NEW disk
  PROVE  Layered(BwrapPolicy(p, disk).layers, p, disk)
<1> DEFINE a == << BwrapEssential >>
           b == BwrapFilesystem(p, disk)
           c == BwrapTerminals(p)
           d == BwrapTmpdir
           k == IF On(p, "pty") THEN 1 ELSE 0
           V == {a[1], b[1], b[2], b[3], b[4], b[5], b[6], b[7], c[1], d[1]}
           L == BwrapPolicy(p, disk).layers
<1>1. a \in Seq(V) /\ Len(a) = 1 /\ a[1] = BwrapEssential
  OBVIOUS
<1>2. /\ b[1] = UNION {ReadRule(disk, r) : r \in Rules(p, "allow_read")}
      /\ b[2] = UNION {WriteRule(disk, r) : r \in Rules(p, "allow_write")}
      /\ b[3] = UNION {DenyReadRule(disk, r) : r \in Rules(p, "deny_read")}
      /\ b[4] = UNION {DenyWriteRule(disk, r) : r \in Rules(p, "deny_write")}
      /\ b[5] = UNION {DenyRule(disk, r) : r \in MandatoryWrite(p) \ Rules(p, "allow_read")}
      /\ b[6] = HiddenDirs(disk, MandatoryBoth(p))
      /\ b[7] = UNION {DenyExecRule(disk, r) : r \in Rules(p, "deny_exec")}
  BY DEF BwrapFilesystem
<1>3. b \in Seq(V) /\ Len(b) = 7
  BY DEF BwrapFilesystem
<1>t. c = IF On(p, "pty") THEN << Mounts("dev", Terminals) >> ELSE <<>>
  BY DEF BwrapTerminals
<1>4. c \in Seq(V) /\ Len(c) = k /\ (k = 1 => On(p, "pty") /\ c[1] = Mounts("dev", Terminals))
  <2> DEFINE x == Mounts("dev", Terminals)
  <2> HIDE DEF x, a, b, c, d
  <2>1. CASE On(p, "pty")
    <3>1. c = <<x>> /\ c[1] = x /\ c[1] \in V
      BY <1>t, <2>1 DEF x
    <3> HIDE DEF V
    <3> QED
      BY <2>1, <3>1 DEF x
  <2>2. CASE ~On(p, "pty")
    BY <1>t, <2>2
  <2> QED
    BY <2>1, <2>2
<1>5. d \in Seq(V) /\ Len(d) = 1 /\ d[1] = Mounts("rw", {Tmp})
  BY DEF BwrapTmpdir
<1>6. k \in {0, 1} /\ 8 + k \in Nat
  OBVIOUS
<1>7. L = a \o b \o c \o d
  BY DEF BwrapPolicy
<1> HIDE DEF a, b, c, d, k, V, L
<1> DEFINE f == a \o b
           g == f \o c
           h == g \o d
<1>8. 1 \in Nat /\ 7 \in Nat /\ 8 \in Nat /\ k \in Nat
  BY <1>6
<1>9. Joined(f, V, a, b, 1, 7)
  BY <1>1, <1>3, <1>8, JoinAt, Zenon
<1>10. f \in Seq(V) /\ Len(f) = 1 + 7
  BY <1>9, Zenon DEF Joined
<1> HIDE DEF f
<1>11. Len(f) = 8
  BY <1>10
<1>12. Joined(g, V, f, c, 8, k)
  BY <1>4, <1>8, <1>10, <1>11, JoinAt, Zenon
<1>13. g \in Seq(V) /\ Len(g) = 8 + k
  BY <1>12, Zenon DEF Joined
<1> HIDE DEF g
<1>14. Joined(h, V, g, d, 8 + k, 1)
  BY <1>5, <1>6, <1>8, <1>13, JoinAt, Zenon
<1> HIDE DEF h
<1>f. LayersAt(h, a, b, c, d, k)
  BY <1>6, <1>9, <1>12, <1>14, LayersNumbered, Zenon
<1>15. /\ DOMAIN h = 1..(9 + k) /\ h[1] = a[1]
       /\ \A i \in 1..7 : h[1 + i] = b[i]
       /\ \A n \in DOMAIN h : n > 8 => (k = 1 /\ h[n] = c[1]) \/ h[n] = d[1]
  BY <1>f, Zenon DEF LayersAt
<1>16. h[2] = b[1] /\ h[3] = b[2] /\ h[4] = b[3] /\ h[5] = b[4] /\ h[6] = b[5] /\ h[7] = b[6] /\ h[8] = b[7]
  <2>1. /\ h[1 + 1] = b[1] /\ h[1 + 2] = b[2] /\ h[1 + 3] = b[3] /\ h[1 + 4] = b[4]
        /\ h[1 + 5] = b[5] /\ h[1 + 6] = b[6] /\ h[1 + 7] = b[7]
    <3>1. \A i \in 1..7 : h[1 + i] = b[i]
      BY <1>15, Zenon
    <3> QED
      BY <3>1
  <2> QED
    BY <2>1
<1>17. DOMAIN h \subseteq 1..10 /\ 1..8 \subseteq DOMAIN h
  <2>1. DOMAIN h = 1..(9 + k)
    BY <1>15, Zenon
  <2> QED
    BY <1>6, <2>1
<1>18. \A n \in DOMAIN h : n > 8 =>
         \/ On(p, "pty") /\ h[n] = Mounts("dev", Terminals)
         \/ h[n] = Mounts("rw", {Tmp})
  BY <1>4, <1>5, <1>15, Zenon
<1>19. h[1] = BwrapEssential
  BY <1>1, <1>15, Zenon
<1>20. Layered(h, p, disk)
  BY <1>2, <1>16, <1>17, <1>18, <1>19, Zenon DEF Layered
<1>21. L = h
  BY <1>7, Zenon DEF f, g, h
<1> QED
  BY <1>20, <1>21, Zenon DEF L


\* What a mount of a layer can be.
LayerKinds(L, p, disk) ==
  \A n \in DOMAIN L : \A m \in L[n] :
    /\ n = 1 => m.kind \in {"ro", "proc"} \/ (m.kind = "dev" /\ m.at \in Devices)
    /\ n = 2 => m.kind = "ro"
    /\ n = 3 => m.kind = "rw" /\ \E a \in Rules(p, "allow_write") : m \in WriteRule(disk, a)
    /\ n \in {4, 7, 8} => m.kind \in {"tmpfs", "null"}
    /\ n = 5 => m.kind = "ro" /\ \E w \in Rules(p, "deny_write") : m \in DenyWriteRule(disk, w)
    /\ n = 6 => m.kind \in {"ro", "null"} /\ \E w \in MandatoryWrite(p) : m \in DenyRule(disk, w)
    /\ n > 8 => /\ m.kind \in {"dev", "rw"}
                /\ m.at = Tmp \/ (On(p, "pty") /\ m.at \in Terminals)

LEMMA MountsOf ==
  ASSUME NEW kind, NEW paths, NEW m \in Mounts(kind, paths)
  PROVE  m.kind = kind /\ m.at \in paths
BY DEF Mounts

LEMMA LayersAreOfKinds ==
  ASSUME NEW p, NEW disk, NEW L, Layered(L, p, disk)
  PROVE  LayerKinds(L, p, disk)
<1> SUFFICES ASSUME NEW n \in DOMAIN L, NEW m \in L[n]
             PROVE  /\ n = 1 => m.kind \in {"ro", "proc"} \/ (m.kind = "dev" /\ m.at \in Devices)
                    /\ n = 2 => m.kind = "ro"
                    /\ n = 3 => m.kind = "rw" /\ \E a \in Rules(p, "allow_write") : m \in WriteRule(disk, a)
                    /\ n \in {4, 7, 8} => m.kind \in {"tmpfs", "null"}
                    /\ n = 5 => m.kind = "ro" /\ \E w \in Rules(p, "deny_write") : m \in DenyWriteRule(disk, w)
                    /\ n = 6 => m.kind \in {"ro", "null"} /\ \E w \in MandatoryWrite(p) : m \in DenyRule(disk, w)
                    /\ n > 8 => /\ m.kind \in {"dev", "rw"}
                                /\ m.at = Tmp \/ (On(p, "pty") /\ m.at \in Terminals)
  BY DEF LayerKinds
<1>1. CASE n = 1
  <2>1. m \in BwrapEssential
    BY <1>1 DEF Layered
  <2> QED
    BY <1>1, <2>1, MountsOf DEF BwrapEssential
<1>2. CASE n = 2
  <2>1. PICK r : m \in ReadRule(disk, r)
    BY <1>2 DEF Layered
  <2> QED
    BY <1>2, <2>1, MountsOf DEF ReadRule
<1>3. CASE n = 3
  <2>1. PICK a \in Rules(p, "allow_write") : m \in WriteRule(disk, a)
    BY <1>3 DEF Layered
  <2>2. m.kind = "rw"
    BY <2>1, MountsOf DEF WriteRule
  <2> QED
    BY <1>3, <2>1, <2>2
<1>4. CASE n = 4
  <2>1. PICK r : m \in DenyReadRule(disk, r)
    BY <1>4 DEF Layered
  <2>2. \A paths : m \in Hide(disk, paths) => m.kind \in {"tmpfs", "null"}
    BY MountsOf DEF Hide
  <2>3. \E paths : m \in Hide(disk, paths)
    BY <2>1 DEF DenyReadRule
  <2> QED
    BY <1>4, <2>2, <2>3
<1>5. CASE n = 5
  <2>1. PICK w \in Rules(p, "deny_write") : m \in DenyWriteRule(disk, w)
    BY <1>5 DEF Layered
  <2>2. m.kind = "ro"
    BY <2>1, MountsOf DEF DenyWriteRule
  <2> QED
    BY <1>5, <2>1, <2>2
<1>6. CASE n = 6
  <2>1. PICK w \in MandatoryWrite(p) : m \in DenyRule(disk, w)
    BY <1>6 DEF Layered
  <2>2. m.kind \in {"ro", "null"}
    BY <2>1, MountsOf DEF DenyRule
  <2> QED
    BY <1>6, <2>1, <2>2
<1>7. CASE n = 7
  <2>1. m \in HiddenDirs(disk, MandatoryBoth(p))
    BY <1>7 DEF Layered
  <2>2. m.kind = "tmpfs"
    BY <2>1, MountsOf DEF HiddenDirs
  <2> QED
    BY <1>7, <2>2
<1>8. CASE n = 8
  <2>1. PICK r : m \in DenyExecRule(disk, r)
    BY <1>8 DEF Layered
  <2>2. m.kind = "null"
    BY <2>1, MountsOf DEF DenyExecRule
  <2> QED
    BY <1>8, <2>2
<1>9. CASE n > 8
  <2>1. (On(p, "pty") /\ m \in Mounts("dev", Terminals)) \/ m \in Mounts("rw", {Tmp})
    BY <1>9 DEF Layered
  <2>2. m.kind \in {"dev", "rw"} /\ (m.at = Tmp \/ (On(p, "pty") /\ m.at \in Terminals))
    BY <2>1, MountsOf
  <2>3. n \in 1..10
    BY DEF Layered
  <2> QED
    BY <1>9, <2>2, <2>3
<1> QED
  <2>1. n \in 1..10
    BY DEF Layered
  <2> QED
    BY <1>1, <1>2, <1>3, <1>4, <1>5, <1>6, <1>7, <1>8, <1>9, <2>1

\* What is permitted is so by the last layer that covers the path.
LastLayer(bp, op, path, n) ==
  /\ n \in DOMAIN bp.layers
  /\ \E m \in bp.layers[n] : IsPrefix(m.at, path)
  /\ \A m \in bp.layers[n] : IsPrefix(m.at, path) => op \in Grants[m.kind]
  /\ \A l \in DOMAIN bp.layers : \A m \in bp.layers[l] : IsPrefix(m.at, path) => l <= n

LEMMA LastLayerDecides ==
  ASSUME NEW bp, DOMAIN bp.layers \subseteq 1..10, NEW op, NEW path, BwrapPermits(bp, op, path)
  PROVE  \E n : LastLayer(bp, op, path, n)
<1> DEFINE over(n) == {m \in bp.layers[n] : IsPrefix(m.at, path)}
           covering == {n \in DOMAIN bp.layers : over(n) # {}}
           last == CHOOSE k \in covering : \A l \in covering : l <= k
<1>1. covering # {} /\ \A m \in over(last) : op \in Grants[m.kind]
  BY DEF BwrapPermits
<1>2. covering \subseteq 1..10 /\ 10 \in Nat
  OBVIOUS
<1> HIDE DEF covering
<1>3. \E k \in covering : \A l \in covering : l <= k
  BY <1>1, <1>2, GreatestNumber
<1>4. last \in covering /\ \A l \in covering : l <= last
  BY <1>3
<1> HIDE DEF last
<1>5. LastLayer(bp, op, path, last)
  BY <1>1, <1>4 DEF LastLayer, covering
<1> QED
  BY <1>5

\* What a denial mounts something on is on disk, at or above what it is about.
LEMMA BwrapFinds ==
  ASSUME NEW disk, DiskOfPaths(disk), NEW p \in Existing(disk),
         NEW r, IsRule(r), Matches(r, p), ~NotSought(r, p, ScanDepth),
         r.base = <<>> /\ ~IsPrefix(Cwd, p) => ~(Cardinality(GlobMatches(disk, r, ScanDepth)) > Threshold)
  PROVE  \E q \in IF IsGlob(r) THEN BwrapExpand(disk, r, ScanDepth) ELSE {r.base} :
           IsPrefix(q, p) /\ Exists(disk, q) /\ (q \in disk \/ IsDir(disk, q))
<1>1. r.var = "/" /\ IsPrefix(r.base, p) /\ Absolute(r) = r.base
  BY SoughtIsAbsolute DEF Absolute
<1>2. IsPath(p) /\ IsPath(r.base) /\ IsPath(Cwd) /\ IsPrefix(p, p)
  BY RulesAssumption, ExistingPath, PrefixOfSelf DEF IsRule
<1>3. \A q : IsPath(q) /\ IsPrefix(q, p) => Exists(disk, q) /\ (q \in disk \/ IsDir(disk, q))
  BY AboveExists
<1>4. CASE ~IsGlob(r)
  BY <1>1, <1>2, <1>3, <1>4
<1>5. CASE IsGlob(r)
  <2>1. p \in GlobMatches(disk, r, ScanDepth)
    BY <1>1, <1>5, GlobFinds, RulesAssumption
  <2>2. CASE ~(Cardinality(GlobMatches(disk, r, ScanDepth)) > Threshold)
    BY <1>2, <1>3, <1>5, <2>1, <2>2 DEF BwrapExpand
  <2>3. CASE Cardinality(GlobMatches(disk, r, ScanDepth)) > Threshold
    <3>1. BwrapExpand(disk, r, ScanDepth) = {GlobParent(r)}
      BY <2>3 DEF BwrapExpand
    <3>2. IsPath(GlobParent(r)) /\ IsPrefix(GlobParent(r), p)
      BY <1>1, <1>2, <2>3 DEF GlobParent
    <3> QED
      BY <1>3, <1>5, <3>1, <3>2
  <2> QED
    BY <2>2, <2>3
<1> QED
  BY <1>4, <1>5

\* Each denial has a layer that covers what it is about.
Covered(L, n, path) == \E m \in L[n] : IsPrefix(m.at, path)

LEMMA DenialsCover ==
  ASSUME NEW p, NEW disk, DiskOfPaths(disk), NEW path \in Existing(disk), NEW L, Layered(L, p, disk),
         NEW r, IsRule(r), Matches(r, path), ~NotSought(r, path, ScanDepth),
         r.base = <<>> /\ ~IsPrefix(Cwd, path) => ~(Cardinality(GlobMatches(disk, r, ScanDepth)) > Threshold)
  PROVE  /\ r \in Rules(p, "deny_read") => Covered(L, 4, path)
         /\ r \in Rules(p, "deny_write") => Covered(L, 5, path)
         /\ r \in MandatoryWrite(p) \ Rules(p, "allow_read") => Covered(L, 6, path)
<1> DEFINE paths == IF IsGlob(r) THEN BwrapExpand(disk, r, ScanDepth) ELSE {r.base}
<1>1. PICK q \in paths : IsPrefix(q, path) /\ Exists(disk, q) /\ (q \in disk \/ IsDir(disk, q))
  BY BwrapFinds
<1>m. ASSUME NEW kind, NEW ps, q \in ps PROVE \E m \in Mounts(kind, ps) : m.at = q
  <2>1. [at |-> q, kind |-> kind] \in Mounts(kind, ps)
    BY <1>m DEF Mounts
  <2> QED
    BY <2>1
<1> HIDE DEF paths
<1>2. ASSUME r \in Rules(p, "deny_read") PROVE Covered(L, 4, path)
  <2>1. \A ps, x : x \in ps /\ (x \in disk \/ IsDir(disk, x)) => \E m \in Hide(disk, ps) : m.at = x
    <3> SUFFICES ASSUME NEW ps, NEW x \in ps, x \in disk \/ IsDir(disk, x)
                 PROVE  \E m \in Hide(disk, ps) : m.at = x
      OBVIOUS
    <3>1. CASE x \in disk
      <4>1. [at |-> x, kind |-> "null"] \in Mounts("null", ps \cap disk)
        BY <3>1 DEF Mounts
      <4> QED
        BY <4>1 DEF Hide
    <3>2. CASE IsDir(disk, x)
      <4>1. [at |-> x, kind |-> "tmpfs"] \in Mounts("tmpfs", {y \in ps : IsDir(disk, y)})
        BY <3>2 DEF Mounts
      <4>2. [at |-> x, kind |-> "tmpfs"] \in Hide(disk, ps)
        BY <4>1, Zenon DEF Hide
      <4> QED
        BY <4>2
    <3> QED
      BY <3>1, <3>2
  <2>2. \E m \in DenyReadRule(disk, r) : IsPrefix(m.at, path)
    <3>1. CASE r.deep
      <4>1. r.base # <<>> /\ IsPrefix(r.base, path)
        BY <3>1, SoughtIsAbsolute DEF NotSought
      <4>2. r.base \in disk \/ IsDir(disk, r.base)
        BY <4>1, AboveExists DEF IsRule
      <4>3. DenyReadRule(disk, r) = Hide(disk, {r.base})
        BY <3>1, <4>1 DEF DenyReadRule
      <4> QED
        BY <2>1, <4>1, <4>2, <4>3
    <3>2. CASE ~r.deep
      <4>1. DenyReadRule(disk, r) = Hide(disk, paths)
        BY <3>2 DEF DenyReadRule, paths
      <4> QED
        BY <1>1, <2>1, <4>1
    <3> QED
      BY <3>1, <3>2
  <2>3. L[4] = UNION {DenyReadRule(disk, s) : s \in Rules(p, "deny_read")}
    BY Zenon DEF Layered
  <2> QED
    BY <1>2, <2>2, <2>3 DEF Covered
<1>3. ASSUME r \in Rules(p, "deny_write") PROVE Covered(L, 5, path)
  <2>1. DenyWriteRule(disk, r) = Mounts("ro", {x \in paths : Exists(disk, x)})
    BY DEF DenyWriteRule, paths
  <2>2. \E m \in DenyWriteRule(disk, r) : IsPrefix(m.at, path)
    BY <1>1, <1>m, <2>1
  <2>3. L[5] = UNION {DenyWriteRule(disk, s) : s \in Rules(p, "deny_write")}
    BY Zenon DEF Layered
  <2> QED
    BY <1>3, <2>2, <2>3 DEF Covered
<1>4. ASSUME r \in MandatoryWrite(p) \ Rules(p, "allow_read") PROVE Covered(L, 6, path)
  <2>1. DenyRule(disk, r) = Mounts("ro", {x \in paths : IsDir(disk, x)}) \cup Mounts("null", paths \cap disk)
    BY DEF DenyRule, paths
  <2>2. \E m \in DenyRule(disk, r) : IsPrefix(m.at, path)
    BY <1>1, <1>m, <2>1
  <2>3. L[6] = UNION {DenyRule(disk, s) : s \in MandatoryWrite(p) \ Rules(p, "allow_read")}
    BY Zenon DEF Layered
  <2> QED
    BY <1>4, <2>2, <2>3 DEF Covered
<1> QED
  BY <1>2, <1>3, <1>4

LEMMA GrantsOf ==
  /\ Grants["ro"] = {"read", "exec"} /\ Grants["rw"] = {"read", "write", "exec"}
  /\ Grants["dev"] = {"read", "write"} /\ Grants["proc"] = {"read"}
  /\ Grants["null"] = {} /\ Grants["tmpfs"] = {}
BY DEF Grants

LEMMA BubblewrapWins ==
  ASSUME PolicyOfRules(policy), DiskOfPaths(asked.disk),
         compiled = BwrapPolicy(policy, asked.disk),
         NEW path \in Existing(asked.disk), NEW op \in {"read", "write", "exec"},
         NEW r \in Denials(op), Matches(r, path), ~BubblewrapOmits(op, r, path)
  PROVE  ~BwrapPermits(compiled, op, path)
<1> DEFINE disk == asked.disk
           L == compiled.layers
<1>1. Layered(L, policy, disk)
  BY BwrapOrder
<1>2. LayerKinds(L, policy, disk)
  BY <1>1, LayersAreOfKinds
<1>3. DOMAIN L \subseteq 1..10 /\ 1..8 \subseteq DOMAIN L
  BY <1>1, Zenon DEF Layered
<1> SUFFICES ASSUME BwrapPermits(compiled, op, path) PROVE FALSE
  OBVIOUS
<1>4. PICK n : LastLayer(compiled, op, path, n)
  BY <1>3, LastLayerDecides
<1> HIDE DEF L
<1>5. n \in DOMAIN L /\ n \in 1..10
  BY <1>3, <1>4 DEF LastLayer, L
<1>6. PICK m \in L[n] : IsPrefix(m.at, path) /\ op \in Grants[m.kind]
  BY <1>4 DEF LastLayer, L
<1>7. \A l \in 1..8 : Covered(L, l, path) => l <= n
  BY <1>3, <1>4 DEF LastLayer, L, Covered
<1>8. ~(n > 8)
  <2>1. n > 8 => m.at = Tmp \/ (On(policy, "pty") /\ m.at \in Terminals)
    BY <1>2, <1>5 DEF LayerKinds
  <2> QED
    BY <1>6, <2>1 DEF BubblewrapOmits, Beneath, Terminal
<1>9. n \notin {4, 7, 8}
  <2>1. n \in {4, 7, 8} => m.kind \in {"tmpfs", "null"}
    BY <1>2, <1>5 DEF LayerKinds
  <2> QED
    BY <1>6, <2>1, GrantsOf
<1>10. /\ IsRule(r)
       /\ \/ r \in Rules(policy, DenyListOf[op])
          \/ op # "exec" /\ r \in Mandatory(policy, AllowListOf[op])
  BY DenialIsRule
<1>11. CASE op = "exec"
  <2>1. /\ r \in Rules(policy, "deny_exec")
        /\ path \in (IF IsGlob(r) THEN Glob(disk, r) ELSE {r.base}) \cap disk
    BY <1>10, <1>11, ListNames DEF BubblewrapOmits
  <2>2. [at |-> path, kind |-> "null"] \in DenyExecRule(disk, r)
    BY <2>1 DEF DenyExecRule, Mounts
  <2>3. L[8] = UNION {DenyExecRule(disk, s) : s \in Rules(policy, "deny_exec")}
    BY <1>1, Zenon DEF Layered
  <2>4. IsPrefix(path, path)
    BY ExistingPath, PrefixOfSelf
  <2>5. Covered(L, 8, path)
    BY <2>1, <2>2, <2>3, <2>4 DEF Covered
  <2> QED
    BY <1>5, <1>7, <1>8, <1>9, <2>5
<1>12. ASSUME op # "exec"
       PROVE  /\ r \in Rules(policy, "deny_read") => Covered(L, 4, path)
              /\ r \in Rules(policy, "deny_write") => Covered(L, 5, path)
              /\ r \in MandatoryWrite(policy) \ Rules(policy, "allow_read") => Covered(L, 6, path)
  <2>1. /\ ~NotSought(r, path, ScanDepth)
        /\ r.base = <<>> /\ ~IsPrefix(Cwd, path) =>
             ~(Cardinality(GlobMatches(disk, r, ScanDepth)) > Threshold)
    BY <1>12 DEF BubblewrapOmits, Beneath, Misplaced
  <2> QED
    BY <1>1, <1>10, <2>1, DenialsCover
<1>13. CASE op = "read"
  <2>1. 4 <= n
    <3>1. Covered(L, 4, path) \/ Covered(L, 6, path)
      BY <1>12, <1>13 DEF BubblewrapOmits
    <3> QED
      BY <1>5, <1>7, <3>1
  <2>2. ~Covered(L, 7, path)
    BY <1>5, <1>7, <1>8, <1>9
  <2>3. ~\E x \in HiddenDirs(disk, MandatoryBoth(policy)) : Beneath(path, x.at)
    <3>1. L[7] = HiddenDirs(disk, MandatoryBoth(policy))
      BY <1>1, Zenon DEF Layered
    <3> QED
      BY <2>2, <3>1 DEF Covered, Beneath
  <2>4. PICK w \in Denials("write") : m \in DenyWriteRule(disk, w) \cup DenyRule(disk, w)
    <3>1. CASE n = 5
      <4>1. \E w \in Rules(policy, "deny_write") : m \in DenyWriteRule(disk, w)
        BY <1>2, <1>5, <3>1 DEF LayerKinds
      <4> QED
        BY <4>1, ListNames DEF Denials
    <3>2. CASE n = 6
      <4>1. \E w \in MandatoryWrite(policy) : m \in DenyRule(disk, w)
        BY <1>2, <1>5, <3>2 DEF LayerKinds
      <4> QED
        BY <4>1, ListNames DEF Denials, MandatoryWrite
    <3> QED
      BY <1>5, <1>8, <1>9, <2>1, <3>1, <3>2
  <2>5. m.kind = "ro"
    <3>1. n = 5 \/ n = 6
      BY <1>5, <1>8, <1>9, <2>1
    <3>2. m.kind \in {"ro", "null"}
      BY <1>2, <1>5, <3>1 DEF LayerKinds
    <3> QED
      BY <1>6, <3>2, GrantsOf
  <2>6. Reexposed(path)
    BY <1>6, <2>3, <2>4, <2>5 DEF Reexposed, Beneath
  <2> QED
    BY <1>13, <2>6 DEF BubblewrapOmits
<1>14. CASE op = "write"
  <2>1. m.kind \notin {"ro", "proc", "null", "tmpfs"}
    BY <1>6, <1>14, GrantsOf
  <2>2. \/ n = 1 /\ m.at \in Devices
        \/ n = 3 /\ \E a \in Rules(policy, "allow_write") : m \in WriteRule(disk, a)
    <3>1. n \in {1, 2, 3, 5, 6}
      BY <1>5, <1>8, <1>9
    <3> QED
      BY <1>2, <1>5, <2>1, <3>1 DEF LayerKinds
  <2>3. r \notin Rules(policy, "deny_write") /\ r \notin MandatoryWrite(policy) \ Rules(policy, "allow_read")
    BY <1>5, <1>7, <1>12, <1>14, <2>2
  <2>4. r \in Rules(policy, "allow_read") \ Rules(policy, "deny_write")
    BY <1>10, <1>14, <2>3, ListNames DEF MandatoryWrite
  <2>5. LeftToReadRule(r, path)
    BY <1>6, <2>2, <2>4 DEF LeftToReadRule, Beneath
  <2> QED
    BY <1>14, <2>5 DEF BubblewrapOmits
<1> QED
  BY <1>11, <1>13, <1>14

-----------------------------------------------------------------------------
(* Allowances                                                               *)

LEMMA MandatoryKinds ==
  ASSUME NEW allowed, NEW git, NEW d \in MandatoryDeny(allowed, git)
  PROVE  d.var = "/" \/ \E f \in DangerousFiles : d = Anywhere(f)
<1>1. \/ d \in GitHooks \/ d \in GitConfig
      \/ d \in UNION {{In(Cwd, f), Anywhere(f), In(Home, f)} : f \in DangerousFiles}
  BY DEF MandatoryDeny, Suppressible
<1>2. CASE d \in GitHooks \cup GitConfig
  BY <1>2 DEF GitHooks, GitConfig, Literal, Below, RuleText
<1>3. CASE d \in UNION {{In(Cwd, f), Anywhere(f), In(Home, f)} : f \in DangerousFiles}
  <2>1. PICK f \in DangerousFiles : d \in {In(Cwd, f), Anywhere(f), In(Home, f)}
    BY <1>3
  <2>2. In(Cwd, f).var = "/" /\ In(Home, f).var = "/"
    BY DEF In, RuleText
  <2> QED
    BY <2>1, <2>2
<1> QED
  BY <1>1, <1>2, <1>3

\* Whoever names a dangerous file is not held up by what every policy says of it.
LEMMA OptedIn ==
  ASSUME NEW allowed, NEW git, NEW r \in allowed, NEW d \in MandatoryDeny(allowed, git), d \in OptedOut(r)
  PROVE  d \in GitHooks
<1> SUFFICES ASSUME d \notin GitHooks PROVE FALSE
  OBVIOUS
<1>1. d \in Suppressible(git) /\ d \notin Suppressed(allowed, git)
  BY DEF MandatoryDeny
<1>2. CASE d = r
  BY <1>1, <1>2 DEF Suppressed
<1>3. CASE d # r
  <2>1. PICK f \in DangerousFiles : r \in {In(Cwd, f), In(Home, f)} /\ d = Anywhere(f)
    BY <1>3 DEF OptedOut
  <2>2. In(Cwd, f) \in allowed \/ In(Home, f) \in allowed
    BY <2>1
  <2> QED
    BY <1>1, <2>1, <2>2 DEF Suppressed
<1> QED
  BY <1>2, <1>3

\* No denial is about what is allowed and not opposed.
LEMMA NoDenialMatches ==
  ASSUME NEW op \in {"read", "write"}, NEW path, NEW r \in Rules(policy, AllowListOf[op]), ~Opposed(op, r, path),
         NEW d, d \in Rules(policy, DenyListOf[op]) \/ d \in Mandatory(policy, AllowListOf[op])
  PROVE  ~Matches(d, path)
<1>1. CASE d \in Rules(policy, DenyListOf[op])
  BY <1>1 DEF Opposed
<1>2. CASE d \in Mandatory(policy, AllowListOf[op])
  <2>1. d \in Denials(op)
    BY <1>2 DEF Denials
  <2>2. d \in OptedOut(r) => d \in GitHooks
    BY <1>2, OptedIn DEF Mandatory
  <2> QED
    BY <2>1, <2>2 DEF Opposed
<1> QED
  BY <1>1, <1>2

\* A denial that finds a directory of the path by its text alone is about the path.
LEMMA LiteralMatches ==
  ASSUME NEW d, d.var = "/", ~IsGlob(d), NEW path, IsPrefix(d.base, path)
  PROVE  Matches(d, path)
BY DEF Matches, IsGlob

-----------------------------------------------------------------------------
(* Landlock, which allows                                                    *)

LEMMA LandlockDenialsOf ==
  ASSUME NEW p, NEW disk, NEW op \in {"read", "write"}, NEW e \in LandlockDenials(p, disk), op \in e.mode
  PROVE  \E d : /\ d \in Rules(p, DenyListOf[op]) \/ d \in Mandatory(p, AllowListOf[op])
                /\ e.path \in LandlockDenied(disk, d)
<1> DEFINE deny(mode, rules) ==
             {[path |-> x, mode |-> mode] : x \in UNION {LandlockDenied(disk, s) : s \in rules}}
<1>1. ASSUME NEW mode, NEW rules, e \in deny(mode, rules)
      PROVE  e.mode = mode /\ \E d \in rules : e.path \in LandlockDenied(disk, d)
  BY <1>1
<1>2. LandlockDenials(p, disk) =
        deny({"read"}, {s \in Rules(p, "deny_read") : ~IsProc(s)})
        \cup deny({"write"}, {s \in Rules(p, "deny_write") : ~IsProc(s) /\ WithinWritable(p, s)})
        \cup deny({"read", "write"}, MandatoryBoth(p))
        \cup deny({"read"}, MandatoryRead(p) \ MandatoryBoth(p))
        \cup deny({"write"}, MandatoryWrite(p) \ MandatoryBoth(p))
  BY DEF LandlockDenials
<1> HIDE DEF deny
<1>3. \/ op = "read" /\ \E d \in {s \in Rules(p, "deny_read") : ~IsProc(s)} : e.path \in LandlockDenied(disk, d)
      \/ op = "write" /\ \E d \in {s \in Rules(p, "deny_write") : ~IsProc(s) /\ WithinWritable(p, s)} :
                            e.path \in LandlockDenied(disk, d)
      \/ \E d \in MandatoryBoth(p) : e.path \in LandlockDenied(disk, d)
      \/ op = "read" /\ \E d \in MandatoryRead(p) \ MandatoryBoth(p) : e.path \in LandlockDenied(disk, d)
      \/ op = "write" /\ \E d \in MandatoryWrite(p) \ MandatoryBoth(p) : e.path \in LandlockDenied(disk, d)
  <2>1. \/ e \in deny({"read"}, {s \in Rules(p, "deny_read") : ~IsProc(s)})
        \/ e \in deny({"write"}, {s \in Rules(p, "deny_write") : ~IsProc(s) /\ WithinWritable(p, s)})
        \/ e \in deny({"read", "write"}, MandatoryBoth(p))
        \/ e \in deny({"read"}, MandatoryRead(p) \ MandatoryBoth(p))
        \/ e \in deny({"write"}, MandatoryWrite(p) \ MandatoryBoth(p))
    BY <1>2
  <2> QED
    BY <1>1, <2>1
<1>4. /\ MandatoryRead(p) = Mandatory(p, "allow_read") /\ MandatoryWrite(p) = Mandatory(p, "allow_write")
      /\ MandatoryBoth(p) = MandatoryRead(p) \cap MandatoryWrite(p)
  BY DEF MandatoryRead, MandatoryWrite, MandatoryBoth
<1> QED
  BY <1>3, <1>4, ListNames

\* What a rule opens is at or above what it is about.
LEMMA LandlockOpens ==
  ASSUME NEW disk, DiskOfPaths(disk), NEW p \in Existing(disk),
         NEW r, IsRule(r), Matches(r, p), ~NotSought(r, p, GlobDepth),
         r.base = <<>> /\ ~IsPrefix(Cwd, p) => ~(Cardinality(GlobMatches(disk, r, GlobDepth)) > Threshold)
  PROVE  \E q \in LandlockExpand(disk, r) : IsPrefix(q, p)
<1>1. r.var = "/" /\ IsPrefix(r.base, p) /\ Absolute(r) = r.base
  BY SoughtIsAbsolute DEF Absolute
<1>2. IsPrefix(p, p)
  BY ExistingPath, PrefixOfSelf
<1>3. CASE ~IsGlob(r)
  BY <1>1, <1>3 DEF LandlockExpand
<1>4. CASE IsGlob(r)
  <2>1. p \in GlobMatches(disk, r, GlobDepth)
    BY <1>1, <1>4, GlobFinds, RulesAssumption
  <2>2. LandlockExpand(disk, r) = IF Cardinality(GlobMatches(disk, r, GlobDepth)) > Threshold
                                  THEN {GlobParent(r)} ELSE GlobMatches(disk, r, GlobDepth)
    BY <1>4 DEF LandlockExpand
  <2>3. Cardinality(GlobMatches(disk, r, GlobDepth)) > Threshold => IsPrefix(GlobParent(r), p)
    BY <1>1 DEF GlobParent
  <2> QED
    BY <1>2, <2>1, <2>2, <2>3
<1> QED
  BY <1>3, <1>4

LEMMA LandlockAllowed ==
  ASSUME NEW p, NEW disk, NEW op \in {"read", "write"}, NEW r \in Rules(p, AllowListOf[op]),
         NEW q \in LandlockExpand(disk, r)
  PROVE  \E e \in LandlockRules(p, disk) : e.path = q /\ op \in e.access
<1> DEFINE paths(list) == UNION {LandlockExpand(disk, s) : s \in Rules(p, list)}
           execs == paths("allow_exec")
           reads == paths("allow_read") \cup execs \cup UNION {UsrAlternate(x) : x \in execs}
<1>1. LandlockRules(p, disk) =
        Allow(ReadAccess, reads) \cup Allow(ReadAccess \cup WriteAccess, paths("allow_write"))
        \cup LandlockSystemRules(p)
  BY DEF LandlockRules
<1>2. q \in paths(AllowListOf[op])
  OBVIOUS
<1>3. ASSUME NEW access, NEW ps, q \in ps
      PROVE  \E e \in Allow(access, ps) : e.path = q /\ e.access = access
  <2>1. [path |-> q, access |-> access] \in Allow(access, ps)
    BY <1>3 DEF Allow
  <2> QED
    BY <2>1
<1>4. CASE op = "read"
  <2>1. q \in reads
    BY <1>2, <1>4, ListNames
  <2> HIDE DEF reads, paths
  <2>2. "read" \in ReadAccess
    BY DEF ReadAccess
  <2> QED
    BY <1>1, <1>3, <1>4, <2>1, <2>2
<1>5. CASE op = "write"
  <2>1. q \in paths("allow_write")
    BY <1>2, <1>5, ListNames
  <2> HIDE DEF reads, paths
  <2>2. "write" \in ReadAccess \cup WriteAccess
    BY DEF WriteAccess
  <2> QED
    BY <1>1, <1>3, <1>5, <2>1, <2>2
<1> QED
  BY <1>4, <1>5

LEMMA LandlockAllows ==
  ASSUME PolicyOfRules(policy), DiskOfPaths(asked.disk),
         compiled = LandlockPolicy(policy, asked.disk),
         NEW path \in Existing(asked.disk), NEW op \in {"read", "write"},
         NEW r \in Rules(policy, AllowListOf[op]), Matches(r, path),
         ~Opposed(op, r, path), ~Collateral(op, path),
         ~NotSought(r, path, GlobDepth), ~Misplaced(r, path, GlobDepth)
  PROVE  LandlockPermits(compiled, op, path)
<1> DEFINE disk == asked.disk
<1>1. /\ compiled.driver = "landlock" /\ compiled.allow = LandlockRules(policy, disk)
      /\ compiled.deny = LandlockDenials(policy, disk)
  BY DEF LandlockPolicy
<1>2. IsRule(r)
  <2>1. AllowListOf[op] \in PathLists
    BY ListNames DEF PathLists, Lists
  <2> QED
    BY <2>1, ExpandedRules
<1>3. PICK q \in LandlockExpand(disk, r) : IsPrefix(q, path)
  BY <1>2, LandlockOpens DEF Misplaced, Beneath
<1>4. \E e \in compiled.allow : IsPrefix(e.path, path) /\ op \in e.access
  BY <1>1, <1>3, LandlockAllowed
<1>5. ASSUME NEW e \in compiled.deny, IsPrefix(e.path, path), op \in e.mode
      PROVE  FALSE
  <2>1. PICK d : /\ d \in Rules(policy, DenyListOf[op]) \/ d \in Mandatory(policy, AllowListOf[op])
                 /\ e.path \in LandlockDenied(disk, d)
    BY <1>1, <1>5, LandlockDenialsOf
  <2>2. d \in Denials(op)
    BY <2>1 DEF Denials
  <2>3. ~IsGlob(d)
    BY <1>1, <1>5, <2>1, <2>2 DEF Collateral, Beneath
  <2>4. d.var = "/" /\ e.path = d.base
    BY <2>1, <2>3 DEF LandlockDenied
  <2>5. Matches(d, path)
    BY <1>5, <2>3, <2>4, LiteralMatches
  <2> QED
    BY <2>1, <2>5, NoDenialMatches
<1> QED
  BY <1>4, <1>5 DEF LandlockPermits

-----------------------------------------------------------------------------
(* Seatbelt, which allows                                                    *)

LEMMA SeatbeltAllows ==
  ASSUME compiled = SeatbeltPolicy(policy),
         NEW path, NEW op \in {"read", "write"},
         NEW r \in Rules(policy, AllowListOf[op]), Matches(r, path), ~Opposed(op, r, path)
  PROVE  SeatbeltPermits(compiled, op, path)
<1> DEFINE s == compiled.rules
           about == {n \in DOMAIN s : s[n].op = op /\ Concerns(s[n], path)}
           last == CHOOSE k \in about : \A l \in about : l <= k
<1>0. InOrder(s, policy)
  BY SeatbeltOrder
<1>1. /\ DOMAIN s \subseteq 1..13 /\ 1..11 \subseteq DOMAIN s
      /\ s[3] = Verdict(TRUE, "read", "below", Rules(policy, "allow_read"))
      /\ s[4].allow = TRUE
      /\ s[5] = Verdict(TRUE, "write", "below", Rules(policy, "allow_write"))
      /\ s[6] = Verdict(FALSE, "read", "subpath", Rules(policy, "deny_read"))
      /\ s[7] = Verdict(FALSE, "write", "subpath", Rules(policy, "deny_write"))
      /\ s[8] = Verdict(FALSE, "write", "subpath", MandatoryWrite(policy))
      /\ s[9] = Verdict(FALSE, "read", "subpath", MandatoryRead(policy))
      /\ s[10] = Verdict(TRUE, "exec", "literal", Rules(policy, "allow_exec"))
      /\ s[11] = Verdict(FALSE, "exec", "literal", Rules(policy, "deny_exec"))
      /\ \A n \in DOMAIN s : n > 11 => s[n].allow = TRUE
  BY <1>0, Zenon DEF InOrder
<1> HIDE DEF s
<1>2. PICK n \in {3, 5} : s[n].op = op /\ Concerns(s[n], path)
  BY <1>1, ListNames DEF Verdict, Concerns
<1>3. n \in about
  BY <1>1, <1>2
<1>4. \E k \in about : \A l \in about : l <= k
  BY <1>1, <1>3, GreatestNumber
<1>5. last \in about /\ n <= last
  BY <1>3, <1>4
<1> HIDE DEF last
<1>6. last \in 3..13 /\ last \in DOMAIN s /\ s[last].op = op /\ Concerns(s[last], path)
  BY <1>1, <1>5
<1>7. last \notin 6..9
  <2> SUFFICES ASSUME last \in 6..9 PROVE FALSE
    OBVIOUS
  <2>1. s[last].kind = "subpath"
    BY <1>1 DEF Verdict
  <2>2. PICK d \in s[last].rules : Matches(d, path)
    BY <1>6, <2>1 DEF Concerns
  <2>3. d \in Rules(policy, DenyListOf[op]) \/ d \in Mandatory(policy, AllowListOf[op])
    BY <1>1, <1>6, ListNames DEF Verdict, MandatoryRead, MandatoryWrite
  <2> QED
    BY <2>2, <2>3, NoDenialMatches
<1>8. last \notin {10, 11}
  BY <1>1, <1>6 DEF Verdict
<1>9. s[last].allow = TRUE
  BY <1>1, <1>6, <1>7, <1>8 DEF Verdict
<1> QED
  BY <1>3, <1>9 DEF SeatbeltPermits, s, last

-----------------------------------------------------------------------------
(* Bubblewrap, which allows                                                  *)

\* A layer that covers the path permits what it and those behind it all grant.
LEMMA LayersPermit ==
  ASSUME NEW bp, DOMAIN bp.layers \subseteq 1..10, NEW op, NEW path,
         NEW n \in DOMAIN bp.layers, Covered(bp.layers, n, path),
         \A l \in DOMAIN bp.layers : \A m \in bp.layers[l] :
           l >= n /\ IsPrefix(m.at, path) => op \in Grants[m.kind]
  PROVE  BwrapPermits(bp, op, path)
<1> DEFINE over(k) == {m \in bp.layers[k] : IsPrefix(m.at, path)}
           covering == {k \in DOMAIN bp.layers : over(k) # {}}
           last == CHOOSE k \in covering : \A l \in covering : l <= k
<1>1. n \in covering
  BY DEF Covered
<1>2. covering \subseteq 1..10 /\ 10 \in Nat
  OBVIOUS
<1> HIDE DEF covering
<1>3. \E k \in covering : \A l \in covering : l <= k
  BY <1>1, <1>2, GreatestNumber
<1>4. last \in covering /\ n <= last
  BY <1>1, <1>3
<1> HIDE DEF last
<1>5. last \in DOMAIN bp.layers /\ last >= n
  BY <1>2, <1>4 DEF covering
<1>6. \A m \in over(last) : op \in Grants[m.kind]
  BY <1>5
<1> QED
  BY <1>1, <1>6 DEF BwrapPermits, covering, last

\* What a rule mounts is at or above what it is about.
LEMMA BwrapOpens ==
  ASSUME NEW p, NEW disk, DiskOfPaths(disk), NEW path \in Existing(disk), NEW L, Layered(L, p, disk),
         NEW r, IsRule(r), Matches(r, path), ~NotSought(r, path, GlobDepth),
         r.base = <<>> /\ ~IsPrefix(Cwd, path) => ~(Cardinality(GlobMatches(disk, r, GlobDepth)) > Threshold)
  PROVE  /\ r \in Rules(p, "allow_read") => Covered(L, 2, path)
         /\ r \in Rules(p, "allow_write") => Covered(L, 3, path)
<1> DEFINE paths == IF IsGlob(r) THEN BwrapExpand(disk, r, GlobDepth) ELSE {r.base}
<1>1. r.var = "/" /\ IsPrefix(r.base, path) /\ Absolute(r) = r.base
  BY SoughtIsAbsolute DEF Absolute
<1>2. IsPath(path) /\ IsPath(r.base) /\ IsPath(Cwd) /\ IsPrefix(path, path)
  BY RulesAssumption, ExistingPath, PrefixOfSelf DEF IsRule
<1>3. \E q \in paths : IsPrefix(q, path) /\ IsPath(q)
  <2>1. CASE ~IsGlob(r)
    BY <1>1, <1>2, <2>1
  <2>2. CASE IsGlob(r)
    <3>1. path \in GlobMatches(disk, r, GlobDepth)
      BY <1>1, <2>2, GlobFinds, RulesAssumption
    <3>2. paths = IF Cardinality(GlobMatches(disk, r, GlobDepth)) > Threshold
                  THEN {GlobParent(r)} ELSE GlobMatches(disk, r, GlobDepth)
      BY <2>2 DEF BwrapExpand
    <3>3. Cardinality(GlobMatches(disk, r, GlobDepth)) > Threshold =>
            IsPrefix(GlobParent(r), path) /\ IsPath(GlobParent(r))
      BY <1>1, <1>2 DEF GlobParent
    <3> HIDE DEF paths
    <3> QED
      BY <1>2, <3>1, <3>2, <3>3
  <2> QED
    BY <2>1, <2>2
<1>4. PICK q \in paths : IsPrefix(q, path) /\ IsPath(q)
  BY <1>3
<1>5. Exists(disk, q)
  BY <1>4, AboveExists
<1>6. ASSUME NEW kind, NEW ps, q \in ps PROVE \E m \in Mounts(kind, ps) : m.at = q
  <2>1. [at |-> q, kind |-> kind] \in Mounts(kind, ps)
    BY <1>6 DEF Mounts
  <2> QED
    BY <2>1
<1> HIDE DEF paths
<1>7. ASSUME r \in Rules(p, "allow_read") PROVE Covered(L, 2, path)
  <2>1. ReadRule(disk, r) = Mounts("ro", paths)
    BY DEF ReadRule, paths
  <2>2. \E m \in ReadRule(disk, r) : IsPrefix(m.at, path)
    BY <1>4, <1>6, <2>1
  <2>3. L[2] = UNION {ReadRule(disk, s) : s \in Rules(p, "allow_read")}
    BY Zenon DEF Layered
  <2> QED
    BY <1>7, <2>2, <2>3 DEF Covered
<1>8. ASSUME r \in Rules(p, "allow_write") PROVE Covered(L, 3, path)
  <2> DEFINE creatable(x) == IF Exists(disk, x) \/ Len(x) <= 1 THEN x ELSE Front(x)
             opened == IF IsGlob(r) THEN {creatable(x) : x \in BwrapExpand(disk, r, GlobDepth)} ELSE {r.base}
  <2>1. WriteRule(disk, r) = Mounts("rw", opened)
    BY DEF WriteRule
  <2>2. q \in opened
    <3>1. creatable(q) = q
      BY <1>5
    <3> HIDE DEF creatable
    <3> QED
      BY <1>4, <3>1 DEF paths
  <2> HIDE DEF opened
  <2>3. \E m \in WriteRule(disk, r) : IsPrefix(m.at, path)
    BY <1>4, <1>6, <2>1, <2>2
  <2>4. L[3] = UNION {WriteRule(disk, s) : s \in Rules(p, "allow_write")}
    BY Zenon DEF Layered
  <2> QED
    BY <1>8, <2>3, <2>4 DEF Covered
<1> QED
  BY <1>7, <1>8

\* What a glob finds is beneath the directory it begins with.
LEMMA FoundBeneath ==
  ASSUME NEW disk, DiskOfPaths(disk), NEW d, IsRule(d), NEW depth, NEW q,
         q \in GlobMatches(disk, d, depth) \/ q \in Glob(disk, d) \/ q = GlobParent(d)
  PROVE  IsPath(q) /\ IsPath(Absolute(d)) /\ IsPrefix(Absolute(d), q)
<1> DEFINE base == Absolute(d)
<1>1. IsPath(base) /\ IsPrefix(base, base)
  BY RulesAssumption, PathsJoin, PrefixOfSelf DEF Absolute, IsRule
<1>2. d.base = <<>> => IsPrefix(base, Cwd)
  <2>1. d.var = "/" /\ d.base = <<>> => base = <<>>
    BY DEF Absolute
  <2>2. d.var # "/" /\ d.base = <<>> => base = Cwd
    <3>1. PICK T : Cwd \in Seq(T)
      BY TwoPaths, RulesAssumption
    <3>2. Cwd \o <<>> = Cwd
      BY <3>1, ConcatEmptySeq
    <3> QED
      BY <3>2 DEF Absolute
  <2>3. IsPath(Cwd) /\ IsPrefix(Cwd, Cwd) /\ IsPrefix(<<>>, Cwd)
    BY RulesAssumption, PrefixOfSelf, EmptyPath
  <2> HIDE DEF base
  <2> QED
    BY <2>1, <2>2, <2>3
<1>3. q \in Glob(disk, d) => q \in Existing(disk) /\ IsPrefix(base, q)
  BY DEF Glob
<1>4. q \in WalkGlob(disk, d, depth) => q \in Existing(disk) /\ IsPrefix(base, q)
  BY DEF WalkGlob
<1>5. q \in GlobMatches(disk, d, depth) => q \in Glob(disk, d) \/ q \in WalkGlob(disk, d, depth) \/ q = base
  <2>1. q \in ExpandGlobstar(disk, d, depth) => q = base \/ q \in WalkGlob(disk, d, depth)
    BY DEF ExpandGlobstar
  <2> QED
    BY <2>1 DEF GlobMatches
<1>6. q = GlobParent(d) => q = base \/ (q = Cwd /\ d.base = <<>>)
  BY DEF GlobParent
<1>7. q \in Existing(disk) => IsPath(q)
  BY ExistingPath
<1> HIDE DEF base
<1>8. IsPath(q) /\ IsPrefix(base, q)
  BY <1>1, <1>2, <1>3, <1>4, <1>5, <1>6, <1>7, RulesAssumption
<1> QED
  BY <1>1, <1>8 DEF base

\* A denial takes in all it mounts something on.
LEMMA MountTakesIn ==
  ASSUME NEW disk, DiskOfPaths(disk), NEW d, IsRule(d), NEW path, IsPath(path), NEW q, IsPrefix(q, path),
         \/ q = d.base /\ (IsGlob(d) => d.deep)
         \/ IsGlob(d) /\ \E depth : q \in BwrapExpand(disk, d, depth)
         \/ IsGlob(d) /\ q \in Glob(disk, d)
  PROVE  TakesIn(d, path)
<1>1. CASE q = d.base /\ ~IsGlob(d)
  BY <1>1, LiteralMatches DEF TakesIn, Beneath
<1>2. CASE q = d.base /\ IsGlob(d)
  BY <1>2 DEF TakesIn, Beneath, Absolute
<1>3. CASE IsGlob(d) /\ (q \in Glob(disk, d) \/ \E depth : q \in BwrapExpand(disk, d, depth))
  <2>1. \E depth : q \in GlobMatches(disk, d, depth) \/ q \in Glob(disk, d) \/ q = GlobParent(d)
    BY <1>3 DEF BwrapExpand
  <2>2. IsPath(q) /\ IsPath(Absolute(d)) /\ IsPrefix(Absolute(d), q)
    BY <2>1, FoundBeneath
  <2>3. IsPrefix(Absolute(d), path)
    BY <2>2, PrefixOfPrefix
  <2> QED
    BY <1>3, <2>3 DEF TakesIn, Beneath
<1> QED
  BY <1>1, <1>2, <1>3

LEMMA AtOf ==
  ASSUME NEW disk, NEW paths, NEW m
  PROVE  /\ m \in Hide(disk, paths) => m.at \in paths
         /\ \A kind : m \in Mounts(kind, paths) => m.at \in paths
BY DEF Hide, Mounts

\* What the layers of denials are on.
LEMMA DenialMounts ==
  ASSUME NEW p, PolicyOfRules(p), NEW disk, DiskOfPaths(disk), NEW path, IsPath(path),
         NEW L, Layered(L, p, disk), NEW n \in DOMAIN L, NEW m \in L[n], IsPrefix(m.at, path)
  PROVE  /\ n = 4 => \E d \in Rules(p, "deny_read") : TakesIn(d, path)
         /\ n = 5 => \E d \in Rules(p, "deny_write") : TakesIn(d, path)
         /\ n = 8 => \E d \in Rules(p, "deny_exec") : TakesIn(d, path)
         /\ n = 6 => \E d \in MandatoryWrite(p) \ Rules(p, "allow_read") :
                       m.at \in IF IsGlob(d) THEN BwrapExpand(disk, d, ScanDepth) ELSE {d.base}
         /\ n = 7 => \E d \in MandatoryBoth(p) :
                       m.at \in IF IsGlob(d) THEN Glob(disk, d) ELSE {d.base}
<1>0. {"deny_read", "deny_write", "deny_exec"} \subseteq PathLists
  BY DEF PathLists, Lists
<1>1. ASSUME n = 4 PROVE \E d \in Rules(p, "deny_read") : TakesIn(d, path)
  <2>1. PICK d \in Rules(p, "deny_read") : m \in DenyReadRule(disk, d)
    BY <1>1 DEF Layered
  <2>2. IsRule(d)
    BY <1>0, ExpandedRules
  <2>3. \/ d.deep /\ m \in Hide(disk, {d.base})
        \/ IsGlob(d) /\ m \in Hide(disk, BwrapExpand(disk, d, ScanDepth))
        \/ ~IsGlob(d) /\ m \in Hide(disk, {d.base})
    BY <2>1 DEF DenyReadRule, IsGlob
  <2>4. \/ m.at = d.base /\ (IsGlob(d) => d.deep)
        \/ IsGlob(d) /\ m.at \in BwrapExpand(disk, d, ScanDepth)
    BY <2>3, AtOf
  <2> QED
    BY <2>2, <2>4, MountTakesIn
<1>2. ASSUME n = 5 PROVE \E d \in Rules(p, "deny_write") : TakesIn(d, path)
  <2>1. PICK d \in Rules(p, "deny_write") : m \in DenyWriteRule(disk, d)
    BY <1>2 DEF Layered
  <2>2. IsRule(d)
    BY <1>0, ExpandedRules
  <2>3. m.at \in IF IsGlob(d) THEN BwrapExpand(disk, d, ScanDepth) ELSE {d.base}
    <3> DEFINE X == IF IsGlob(d) THEN BwrapExpand(disk, d, ScanDepth) ELSE {d.base}
    <3>1. m \in Mounts("ro", {x \in X : Exists(disk, x)})
      BY <2>1 DEF DenyWriteRule
    <3> HIDE DEF X
    <3>2. m.at \in {x \in X : Exists(disk, x)}
      BY <3>1, AtOf
    <3> QED
      BY <3>2 DEF X
  <2> QED
    BY <2>2, <2>3, MountTakesIn
<1>3. ASSUME n = 8 PROVE \E d \in Rules(p, "deny_exec") : TakesIn(d, path)
  <2>1. PICK d \in Rules(p, "deny_exec") : m \in DenyExecRule(disk, d)
    BY <1>3 DEF Layered
  <2>2. IsRule(d)
    BY <1>0, ExpandedRules
  <2>3. m.at \in IF IsGlob(d) THEN Glob(disk, d) ELSE {d.base}
    <3> DEFINE X == IF IsGlob(d) THEN Glob(disk, d) ELSE {d.base}
    <3>1. m \in Mounts("null", X \cap disk)
      BY <2>1 DEF DenyExecRule
    <3> HIDE DEF X
    <3>2. m.at \in X \cap disk
      BY <3>1, AtOf
    <3> QED
      BY <3>2 DEF X
  <2> QED
    BY <2>2, <2>3, MountTakesIn
<1>4. ASSUME n = 6
      PROVE  \E d \in MandatoryWrite(p) \ Rules(p, "allow_read") :
               m.at \in IF IsGlob(d) THEN BwrapExpand(disk, d, ScanDepth) ELSE {d.base}
  <2>1. PICK d \in MandatoryWrite(p) \ Rules(p, "allow_read") : m \in DenyRule(disk, d)
    BY <1>4 DEF Layered
  <2>2. m.at \in IF IsGlob(d) THEN BwrapExpand(disk, d, ScanDepth) ELSE {d.base}
    <3> DEFINE X == IF IsGlob(d) THEN BwrapExpand(disk, d, ScanDepth) ELSE {d.base}
    <3>1. m \in Mounts("ro", {x \in X : IsDir(disk, x)}) \/ m \in Mounts("null", X \cap disk)
      BY <2>1 DEF DenyRule
    <3> HIDE DEF X
    <3>2. m.at \in {x \in X : IsDir(disk, x)} \/ m.at \in X \cap disk
      BY <3>1, AtOf
    <3> QED
      BY <3>2 DEF X
  <2> QED
    BY <2>1, <2>2
<1>5. ASSUME n = 7
      PROVE  \E d \in MandatoryBoth(p) : m.at \in IF IsGlob(d) THEN Glob(disk, d) ELSE {d.base}
  <2>1. m \in HiddenDirs(disk, MandatoryBoth(p))
    BY <1>5 DEF Layered
  <2>2. m.at \in UNION {IF IsGlob(d) THEN Glob(disk, d) ELSE {d.base} : d \in MandatoryBoth(p)}
    BY <2>1, AtOf DEF HiddenDirs
  <2> QED
    BY <2>2
<1> QED
  BY <1>1, <1>2, <1>3, <1>4, <1>5

\* What may not be written may not be read either, unless a rule names it to be read, or it
\* is looked for everywhere, which finds nothing.
LEMMA WriteDenialsDenyReads ==
  ASSUME NEW p, NEW disk, NEW d \in MandatoryWrite(p) \ Rules(p, "allow_read"), NEW q,
         q \in IF IsGlob(d) THEN BwrapExpand(disk, d, ScanDepth) ELSE {d.base}
  PROVE  d \in MandatoryRead(p) /\ d.var = "/"
<1> DEFINE git == On(p, "git_config")
<1>1. /\ d \in MandatoryDeny(Rules(p, "allow_write"), git)
      /\ MandatoryRead(p) = MandatoryDeny(Rules(p, "allow_read"), git)
  BY DEF MandatoryWrite, MandatoryRead, Mandatory
<1>2. ASSUME NEW f \in DangerousFiles, d = Anywhere(f) PROVE FALSE
  <2>1. d.deep /\ d.base = <<>> /\ IsGlob(d)
    BY <1>2 DEF Anywhere, RuleText, IsGlob
  <2>2. GlobMatches(disk, d, ScanDepth) = {}
    BY <2>1 DEF GlobMatches, ExpandGlobstar
  <2>3. Cardinality(GlobMatches(disk, d, ScanDepth)) = 0
    BY <2>2, FS_EmptySet
  <2>4. BwrapExpand(disk, d, ScanDepth) = {}
    BY <2>2, <2>3, RulesAssumption DEF BwrapExpand
  <2> QED
    BY <2>1, <2>4
<1>3. d.var = "/"
  BY <1>1, <1>2, MandatoryKinds
<1>4. d \notin Suppressed(Rules(p, "allow_read"), git)
  BY <1>2 DEF Suppressed
<1>5. d \in MandatoryRead(p)
  BY <1>1, <1>4 DEF MandatoryDeny
<1> QED
  BY <1>3, <1>5

LEMMA BubblewrapAllows ==
  ASSUME PolicyOfRules(policy), DiskOfPaths(asked.disk),
         compiled = BwrapPolicy(policy, asked.disk),
         NEW path \in Existing(asked.disk), NEW op \in {"read", "write"},
         NEW r \in Rules(policy, AllowListOf[op]), Matches(r, path),
         ~Opposed(op, r, path), ~Collateral(op, path),
         ~NotSought(r, path, GlobDepth), ~Misplaced(r, path, GlobDepth)
  PROVE  BwrapPermits(compiled, op, path)
<1> DEFINE disk == asked.disk
           L == compiled.layers
           n == IF op = "read" THEN 2 ELSE 3
<1>1. Layered(L, policy, disk)
  BY BwrapOrder
<1>2. LayerKinds(L, policy, disk)
  BY <1>1, LayersAreOfKinds
<1>3. DOMAIN L \subseteq 1..10 /\ 1..8 \subseteq DOMAIN L
  BY <1>1, Zenon DEF Layered
<1>4. compiled.driver = "bubblewrap"
  BY DEF BwrapPolicy
<1> HIDE DEF L
<1>5. IsRule(r)
  <2>1. AllowListOf[op] \in PathLists
    BY ListNames DEF PathLists, Lists
  <2> QED
    BY <2>1, ExpandedRules
<1>6. Covered(L, n, path)
  <2>1. /\ r \in Rules(policy, "allow_read") => Covered(L, 2, path)
        /\ r \in Rules(policy, "allow_write") => Covered(L, 3, path)
    BY <1>1, <1>5, BwrapOpens DEF Misplaced, Beneath
  <2> QED
    BY <2>1, ListNames
<1>7. IsPath(path)
  BY ExistingPath
<1>8. ASSUME NEW l \in DOMAIN L, NEW m \in L[l], l >= n, IsPrefix(m.at, path)
      PROVE  op \in Grants[m.kind]
  <2>1. l \in 2..10
    BY <1>3, <1>8
  <2>2. CASE l = 2
    <3>1. op = "read" /\ m.kind = "ro"
      BY <1>2, <1>8, <2>2 DEF LayerKinds
    <3> QED
      BY <3>1, GrantsOf
  <2>3. CASE l = 3
    <3>1. m.kind = "rw"
      BY <1>2, <2>3 DEF LayerKinds
    <3> QED
      BY <3>1, GrantsOf
  <2>4. CASE l \in {4, 8}
    <3>1. \E d \in Rules(policy, "deny_read") \cup Rules(policy, "deny_exec") : TakesIn(d, path)
      BY <1>1, <1>7, <1>8, <2>4, DenialMounts
    <3> QED
      BY <1>4, <3>1 DEF Collateral
  <2>5. CASE l = 5
    <3>1. CASE op = "read"
      <4>1. m.kind = "ro"
        BY <1>2, <2>5 DEF LayerKinds
      <4> QED
        BY <3>1, <4>1, GrantsOf
    <3>2. CASE op = "write"
      <4>1. \E d \in Rules(policy, "deny_write") : TakesIn(d, path)
        BY <1>1, <1>7, <1>8, <2>5, DenialMounts
      <4> QED
        BY <1>4, <3>2, <4>1 DEF Collateral
    <3> QED
      BY <3>1, <3>2
  <2>6. CASE l = 6
    <3>1. PICK d \in MandatoryWrite(policy) \ Rules(policy, "allow_read") :
            m.at \in IF IsGlob(d) THEN BwrapExpand(disk, d, ScanDepth) ELSE {d.base}
      BY <1>1, <1>7, <1>8, <2>6, DenialMounts
    <3>2. d \in Mandatory(policy, AllowListOf[op]) /\ d.var = "/"
      BY <3>1, WriteDenialsDenyReads, ListNames DEF MandatoryRead, MandatoryWrite
    <3>3. ~IsGlob(d)
      BY <1>4, <1>8, <3>1 DEF Collateral, Beneath
    <3>4. Matches(d, path)
      BY <1>8, <3>1, <3>2, <3>3, LiteralMatches
    <3> QED
      BY <3>2, <3>4, NoDenialMatches
  <2>7. CASE l = 7
    <3>1. PICK d \in MandatoryBoth(policy) : m.at \in IF IsGlob(d) THEN Glob(disk, d) ELSE {d.base}
      BY <1>1, <1>7, <1>8, <2>7, DenialMounts
    <3>2. d \in Mandatory(policy, AllowListOf[op])
      BY <3>1, ListNames DEF MandatoryBoth, MandatoryRead, MandatoryWrite
    <3>3. ~IsGlob(d)
      BY <1>4, <1>8, <3>1 DEF Collateral, Beneath
    <3>4. d.var = "/"
      <4>1. \A f \in DangerousFiles : IsGlob(Anywhere(f))
        BY DEF Anywhere, RuleText, IsGlob
      <4> QED
        BY <3>2, <3>3, <4>1, MandatoryKinds DEF Mandatory
    <3>5. Matches(d, path)
      BY <1>8, <3>1, <3>3, <3>4, LiteralMatches
    <3> QED
      BY <3>2, <3>5, NoDenialMatches
  <2>8. CASE l > 8
    <3>1. m.kind \in {"dev", "rw"}
      BY <1>2, <2>8 DEF LayerKinds
    <3> QED
      BY <3>1, GrantsOf
  <2> QED
    BY <2>1, <2>2, <2>3, <2>4, <2>5, <2>6, <2>7, <2>8
<1>9. n \in DOMAIN L
  BY <1>3
<1> HIDE DEF n
<1> QED
  BY <1>3, <1>6, <1>8, <1>9, LayersPermit DEF L

-----------------------------------------------------------------------------
(* What a profile inherits                                                  *)

LEMMA RootHasNoAncestors ==
  ASSUME NEW p, p.inherits = NoParent
  PROVE  Ancestors(p) = {}
<1>1. p.inherits \notin DOMAIN Builtins
  BY PolicyAssumption
<1>2. Closed({}) /\ {} \in SUBSET DOMAIN Builtins
  BY DEF Closed
<1> QED
  BY <1>1, <1>2 DEF Ancestors

LEMMA AncestorsOfChild ==
  ASSUME NEW p, p.inherits \in DOMAIN Builtins
  PROVE  Ancestors(p) = {p.inherits} \cup Ancestors(Builtins[p.inherits])
<1> DEFINE q == p.inherits
           Near == {q} \cup Ancestors(Builtins[q])
<1>1. ASSUME NEW m \in Ancestors(Builtins[q]), Builtins[m].inherits \in DOMAIN Builtins
      PROVE  Builtins[m].inherits \in Ancestors(Builtins[q])
  BY <1>1 DEF Ancestors, Closed
<1>2. Builtins[q].inherits \in DOMAIN Builtins => Builtins[q].inherits \in Ancestors(Builtins[q])
  BY DEF Ancestors
<1>3. Near \in SUBSET DOMAIN Builtins /\ q \in Near
  BY DEF Ancestors
<1>4. Closed(Near)
  BY <1>1, <1>2 DEF Closed
<1>5. Ancestors(p) \subseteq Near
  <2> HIDE DEF Near
  <2> QED
    BY <1>3, <1>4 DEF Ancestors
<1>6. q \in Ancestors(p)
  BY DEF Ancestors
<1>7. ASSUME NEW m \in Ancestors(Builtins[q])
      PROVE  m \in Ancestors(p)
  <2>1. ASSUME NEW S \in SUBSET DOMAIN Builtins, Closed(S), q \in S
        PROVE  m \in S
    <3>1. Builtins[q].inherits \in DOMAIN Builtins => Builtins[q].inherits \in S
      BY <2>1 DEF Closed
    <3> QED
      BY <1>7, <2>1, <3>1 DEF Ancestors
  <2> QED
    BY <1>7, <2>1 DEF Ancestors
<1> QED
  BY <1>5, <1>6, <1>7

LEMMA RootSaysItsOwn ==
  ASSUME NEW p, p.inherits = NoParent, NEW l
  PROVE  Said(p, l) = p.rules[l]
BY RootHasNoAncestors DEF Said

LEMMA ChildSaysMore ==
  ASSUME NEW p, p.inherits \in DOMAIN Builtins, NEW l
  PROVE  Said(p, l) = Said(Builtins[p.inherits], l) \cup p.rules[l]
<1> DEFINE q == p.inherits
           far == Ancestors(Builtins[q])
<1>1. Ancestors(p) = {q} \cup far
  BY AncestorsOfChild
<1> HIDE DEF far
<1>2. UNION {Builtins[n].rules[l] : n \in {q} \cup far}
        = Builtins[q].rules[l] \cup (UNION {Builtins[n].rules[l] : n \in far})
  OBVIOUS
<1>3. Said(Builtins[q], l) = Builtins[q].rules[l] \cup (UNION {Builtins[n].rules[l] : n \in far})
  BY DEF Said, far
<1>4. Said(p, l) = p.rules[l] \cup (UNION {Builtins[n].rules[l] : n \in {q} \cup far})
  BY <1>1 DEF Said
<1> QED
  BY <1>2, <1>3, <1>4

\* p is c with what q says.
Merged(p, c, q) ==
  /\ IsProfile(p) /\ p.inherits = NoParent
  /\ \A l \in Lists : p.rules[l] = q.rules[l] \cup c.rules[l]

LEMMA MergedRules ==
  ASSUME NEW c, NEW q, IsProfile(c), IsProfile(q)
  PROVE  Merged(MergeWithParent(c, q), c, q)
<1> DEFINE m == MergeWithParent(c, q)
<1>1. /\ DOMAIN m = DOMAIN c /\ m.inherits = NoParent /\ DOMAIN m.rules = Lists
      /\ \A l \in Lists : m.rules[l] = q.rules[l] \cup c.rules[l]
  BY DEF IsProfile, MergeWithParent
<1>2. PathLists \subseteq Lists
  BY DEF PathLists
<1> HIDE DEF m
<1>3. \A l \in PathLists : \A r \in m.rules[l] : IsRule(r)
  BY <1>1, <1>2 DEF IsProfile
<1> QED
  BY <1>1, <1>3 DEF IsProfile, Merged, m

-----------------------------------------------------------------------------
(* What the overrides make of a policy                                      *)

\* The policy after each of the first n overrides.
Overrides(f, p, raws, n) ==
  f = [k \in 0..n |-> IF k = 0 THEN p ELSE ApplyOverride(f[k - 1], raws[k])]

LEMMA OverridesExist ==
  ASSUME NEW p, NEW raws, NEW n \in Nat
  PROVE  \E f : Overrides(f, p, raws, n)
<1> DEFINE T == {m \in Nat : ~\E f : Overrides(f, p, raws, m)}
<1>1. SUFFICES T = {}
  OBVIOUS
<1>2. SUFFICES ASSUME T # {} PROVE FALSE
  OBVIOUS
<1>3. PICK x \in T : \A y \in T : x <= y
  BY <1>2, LeastNumber
<1>4. x # 0
  <2>1. Overrides([k \in 0..0 |-> p], p, raws, 0)
    BY DEF Overrides
  <2> QED
    BY <2>1
<1>5. x \in Nat /\ x - 1 \in Nat /\ x - 1 \notin T
  BY <1>3, <1>4
<1>6. PICK g : Overrides(g, p, raws, x - 1)
  BY <1>5
<1>7. DOMAIN g = 0..(x - 1)
      /\ \A k \in 0..(x - 1) : g[k] = IF k = 0 THEN p ELSE ApplyOverride(g[k - 1], raws[k])
  <2>1. g = [k \in 0..(x - 1) |-> IF k = 0 THEN p ELSE ApplyOverride(g[k - 1], raws[k])]
    BY <1>6 DEF Overrides
  <2> QED
    BY <2>1
<1> DEFINE last == ApplyOverride(g[x - 1], raws[x])
           h == [k \in 0..x |-> IF k < x THEN g[k] ELSE last]
<1>8. /\ \A k \in 0..(x - 1) : h[k] = g[k]
      /\ h[x] = last
  <2> HIDE DEF last
  <2> QED
    BY <1>5
<1>9. ASSUME NEW k \in 0..x
      PROVE  h[k] = IF k = 0 THEN p ELSE ApplyOverride(h[k - 1], raws[k])
  <2> HIDE DEF h, last
  <2>1. CASE k = x
    BY <2>1, <1>5, <1>4, <1>8 DEF last
  <2>2. CASE k # x
    <3>1. k \in 0..(x - 1) /\ (k # 0 => k - 1 \in 0..(x - 1))
      BY <2>2, <1>5
    <3> QED
      BY <3>1, <1>7, <1>8
  <2> QED
    BY <2>1, <2>2
<1>10. Overrides(h, p, raws, x)
  <2>1. h = [k \in 0..x |-> IF k = 0 THEN p ELSE ApplyOverride(h[k - 1], raws[k])]
    <3> HIDE DEF last
    <3> DEFINE H(k) == IF k < x THEN g[k] ELSE last
               K(k) == IF k = 0 THEN p ELSE ApplyOverride(h[k - 1], raws[k])
    <3>1. \A k \in 0..x : H(k) = K(k)
      BY <1>9
    <3> HIDE DEF K
    <3>2. [k \in 0..x |-> H(k)] = [k \in 0..x |-> K(k)]
      BY <3>1
    <3> QED
      BY <3>2 DEF K
  <2> QED
    BY <2>1 DEF Overrides
<1> QED
  BY <1>3, <1>10

\* What the first n overrides put into a list and take out of one.
Added(raws, n, l) == {ResolvedValue(raws[k]) : k \in {j \in 1..n : Adds(raws[j], l)}}
Taken(raws, n, l) == {ResolvedValue(raws[k]) : k \in {j \in 1..n : Takes(raws[j], l)}}

\* No list is added to by overrides of one type and taken from by those of another.
LEMMA ListsAreApart ==
  ASSUME NEW a, NEW b, NEW l, Adds(a, l)
  PROVE  ~Takes(b, l)
BY DEF Adds, Takes, AllowListOf, DenyListOf

\* q is what an override makes of p.
Applied(q, p, raw) ==
  /\ IsProfile(q)
  /\ \A l \in Lists :
       q.rules[l] = IF Adds(raw, l) THEN p.rules[l] \cup {ResolvedValue(raw)}
                    ELSE IF Takes(raw, l) THEN p.rules[l] \ {ResolvedValue(raw)}
                    ELSE p.rules[l]

\* What an override of a path names is a rule, whichever way it was written.
PathTypes == {"read", "write", "exec"}
OfRule(raw) == raw.type \in PathTypes => IsRule(raw.value)

LEMMA RuleMoved ==
  ASSUME NEW r, IsRule(r), NEW v, NEW b, IsPath(b), NEW s, s = [r EXCEPT !.var = v, !.base = b]
  PROVE  IsRule(s)
BY DEF IsRule

LEMMA ResolvedIsRule ==
  ASSUME NEW raw, IsRule(raw.value)
  PROVE  IsRule(ResolvedValue(raw))
<1>1. IsPath(Cwd \o raw.value.base)
  BY PathsJoin, RulesAssumption DEF IsRule
<1>2. IsRule([raw.value EXCEPT !.var = "/", !.base = Cwd \o raw.value.base])
  BY <1>1, RuleMoved
<1>3. ResolvedValue(raw) \in {raw.value, [raw.value EXCEPT !.var = "/", !.base = Cwd \o raw.value.base]}
  BY Zenon DEF ResolvedValue
<1> QED
  BY <1>2, <1>3

LEMMA AddsToPaths ==
  ASSUME NEW raw, NEW l \in PathLists, Adds(raw, l)
  PROVE  raw.type \in PathTypes
BY DEF Adds, AllowListOf, PathLists, Lists, PathTypes

LEMMA OverrideRules ==
  ASSUME NEW p, NEW raw, IsProfile(p), OfRule(raw)
  PROVE  Applied(ApplyOverride(p, raw), p, raw)
<1> DEFINE q == ApplyOverride(p, raw)
           v == ResolvedValue(raw)
<1>1. /\ DOMAIN q = DOMAIN p /\ DOMAIN q.rules = Lists
      /\ \A l \in Lists :
           q.rules[l] = IF Adds(raw, l) THEN p.rules[l] \cup {v}
                        ELSE IF Takes(raw, l) THEN p.rules[l] \ {v}
                        ELSE p.rules[l]
  <2> HIDE DEF v
  <2> QED
    BY DEF IsProfile, ApplyOverride, v
<1>2. PathLists \subseteq Lists
  BY DEF PathLists
<1> HIDE DEF q
<1>3. ASSUME NEW l \in PathLists, NEW r \in q.rules[l]
      PROVE  IsRule(r)
  <2>1. r \in p.rules[l] \/ (Adds(raw, l) /\ r = v)
    BY <1>1, <1>2, <1>3
  <2>2. Adds(raw, l) => IsRule(v)
    BY AddsToPaths, ResolvedIsRule DEF OfRule
  <2> QED
    BY <2>1, <2>2 DEF IsProfile
<1> QED
  BY <1>1, <1>3 DEF IsProfile, Applied, q

LEMMA OneMore ==
  ASSUME NEW raws, NEW n \in Nat, NEW l
  PROVE  /\ Added(raws, n + 1, l) = Added(raws, n, l)
              \cup (IF Adds(raws[n + 1], l) THEN {ResolvedValue(raws[n + 1])} ELSE {})
         /\ Taken(raws, n + 1, l) = Taken(raws, n, l)
              \cup (IF Takes(raws[n + 1], l) THEN {ResolvedValue(raws[n + 1])} ELSE {})
<1>1. 1..(n + 1) = (1..n) \cup {n + 1}
  OBVIOUS
<1> QED
  BY <1>1 DEF Added, Taken

LEMMA OverriddenRules ==
  ASSUME NEW p, NEW raws, Len(raws) \in Nat, IsProfile(p), \A k \in 1..Len(raws) : OfRule(raws[k])
  PROVE  /\ IsProfile(Overridden(p, raws))
         /\ \A l \in Lists :
              Overridden(p, raws).rules[l]
                = (p.rules[l] \cup Added(raws, Len(raws), l)) \ Taken(raws, Len(raws), l)
<1> DEFINE n == Len(raws)
           f == CHOOSE f : Overrides(f, p, raws, n)
<1>1. Overrides(f, p, raws, n)
  BY OverridesExist
<1>2. Overridden(p, raws) = f[n]
  BY DEF Overridden, Overrides
<1> HIDE DEF f
<1>3. \A k \in 0..n : f[k] = IF k = 0 THEN p ELSE ApplyOverride(f[k - 1], raws[k])
  <2>1. f = [k \in 0..n |-> IF k = 0 THEN p ELSE ApplyOverride(f[k - 1], raws[k])]
    BY <1>1 DEF Overrides
  <2> QED
    BY <2>1
<1> HIDE DEF n
<1>4. n \in Nat /\ \A k \in 1..n : OfRule(raws[k])
  BY DEF n
<1> DEFINE Right(k) ==
             /\ IsProfile(f[k])
             /\ \A l \in Lists :
                  f[k].rules[l] = (p.rules[l] \cup Added(raws, k, l)) \ Taken(raws, k, l)
           T == {k \in Nat : k <= n /\ ~Right(k)}
<1>5. Right(0)
  <2>1. f[0] = p
    BY <1>3, <1>4
  <2>2. \A l : Added(raws, 0, l) = {} /\ Taken(raws, 0, l) = {}
    BY DEF Added, Taken
  <2> QED
    BY <2>1, <2>2
<1>6. ASSUME NEW k \in Nat, k + 1 <= n, Right(k)
      PROVE  Right(k + 1)
  <2>1. f[k + 1] = ApplyOverride(f[k], raws[k + 1])
    <3>1. k + 1 \in 0..n /\ k + 1 # 0 /\ (k + 1) - 1 = k
      BY <1>4, <1>6
    <3> QED
      BY <1>3, <3>1
  <2> DEFINE raw == raws[k + 1]
             v == ResolvedValue(raw)
  <2>2. /\ IsProfile(f[k + 1])
        /\ \A l \in Lists :
             f[k + 1].rules[l] = IF Adds(raw, l) THEN f[k].rules[l] \cup {v}
                                 ELSE IF Takes(raw, l) THEN f[k].rules[l] \ {v}
                                 ELSE f[k].rules[l]
    <3>1. IsProfile(f[k])
      BY <1>6
    <3>2. Applied(ApplyOverride(f[k], raw), f[k], raw)
      <4>1. k + 1 \in 1..n
        BY <1>6
      <4>2. OfRule(raw)
        BY <1>4, <4>1
      <4> QED
        BY <3>1, <4>2, OverrideRules
    <3> HIDE DEF raw
    <3> QED
      BY <2>1, <3>2 DEF Applied, raw
  <2>3. ASSUME NEW l \in Lists
        PROVE  f[k + 1].rules[l]
                 = (p.rules[l] \cup Added(raws, k + 1, l)) \ Taken(raws, k + 1, l)
    <3> DEFINE a == Added(raws, k, l)
               t == Taken(raws, k, l)
    <3>1. /\ Added(raws, k + 1, l) = a \cup (IF Adds(raw, l) THEN {v} ELSE {})
          /\ Taken(raws, k + 1, l) = t \cup (IF Takes(raw, l) THEN {v} ELSE {})
      BY OneMore
    <3>2. f[k].rules[l] = (p.rules[l] \cup a) \ t
      BY <1>6
    <3>3. Adds(raw, l) => t = {} /\ ~Takes(raw, l)
      BY ListsAreApart DEF Taken
    <3> HIDE DEF a, t, raw, v, Right
    <3> QED
      BY <2>2, <3>1, <3>2, <3>3
  <2> QED
    BY <2>2, <2>3
<1> HIDE DEF Right
<1>7. T = {}
  <2> SUFFICES ASSUME T # {} PROVE FALSE
    OBVIOUS
  <2>1. PICK k \in T : \A j \in T : k <= j
    BY LeastNumber
  <2>2. k # 0
    BY <1>5, <2>1
  <2>3. k - 1 \in Nat /\ (k - 1) + 1 = k /\ (k - 1) + 1 <= n /\ Right(k - 1)
    BY <1>4, <2>1, <2>2
  <2>4. Right((k - 1) + 1)
    BY <1>6, <2>3
  <2> QED
    BY <2>1, <2>3, <2>4
<1>8. Right(n)
  BY <1>4, <1>7
<1> QED
  BY <1>2, <1>8 DEF Right, n

-----------------------------------------------------------------------------
(* The policy of a run                                                      *)

\* Until a profile is taken from the registry: one that does not inherit any more says
\* all that was written for it and its ancestors, one that does is as it was.
Entry(n, p) ==
  /\ IsProfile(p)
  /\ p.inherits # NoParent => p = Builtins[n]
  /\ p.inherits = NoParent => \A l \in Lists : p.rules[l] = Said(Builtins[n], l)

RegistryHolds ==
  stage = "load" =>
    /\ DOMAIN profiles = DOMAIN Builtins /\ unresolved \subseteq DOMAIN Builtins
    /\ \A n \in DOMAIN Builtins :
         Entry(n, profiles[n]) /\ (profiles[n].inherits # NoParent => n \in unresolved)

AskedHolds ==
  stage \in {"load", "loaded", "ready", "confined"} =>
    /\ asked.files \in UserFiles /\ asked.driver \in Drivers /\ asked.disk \in Disks
    /\ Len(asked.overrides) \in Nat /\ \A k \in 1..Len(asked.overrides) : OfRule(asked.overrides[k])

\* The policy says what its profile does, then also what the overrides do.
PolicyFollows ==
  /\ stage = "loaded" => IsProfile(policy) /\ \A l \in Lists : policy.rules[l] = Said(Written, l)
  /\ stage \in {"ready", "confined"} =>
       /\ IsProfile(policy)
       /\ \A l \in Lists : policy.rules[l] = (Said(Written, l) \cup Granted(l)) \ Named(l)
  /\ stage = "confined" => compiled = Translate(asked.driver, policy, asked.disk)

PolicyInv == RegistryHolds /\ AskedHolds /\ PolicyFollows

LEMMA PolicyStarts == PolicyInit => PolicyInv
<1> SUFFICES ASSUME PolicyInit PROVE PolicyInv
  OBVIOUS
<1>1. RegistryHolds
  <2>1. profiles = Builtins /\ unresolved = DOMAIN Builtins
    BY DEF PolicyInit
  <2>2. \A n \in DOMAIN Builtins : IsProfile(Builtins[n])
    BY PolicyAssumption
  <2>3. \A n \in DOMAIN Builtins :
          Builtins[n].inherits = NoParent => \A l \in Lists : Builtins[n].rules[l] = Said(Builtins[n], l)
    BY RootSaysItsOwn
  <2> QED
    BY <2>1, <2>2, <2>3 DEF RegistryHolds, Entry
<1>2. AskedHolds
  <2>1. asked.files \in UserFiles
    BY DEF PolicyInit
  <2>2. asked.overrides \in RawOverrides \/ asked.overrides = <<>>
    BY DEF PolicyInit
  <2>3. Len(asked.overrides) \in Nat
    BY <2>2, PolicyAssumption
  <2>4. \A k \in 1..Len(asked.overrides) : OfRule(asked.overrides[k])
    <3>1. CASE asked.overrides \in RawOverrides
      BY <3>1, PolicyAssumption DEF OfRule, PathTypes
    <3>2. CASE asked.overrides = <<>>
      BY <3>2
    <3> QED
      BY <2>2, <3>1, <3>2
  <2>5. asked.driver \in Drivers /\ asked.disk \in Disks
    BY DEF PolicyInit
  <2> QED
    BY <2>1, <2>3, <2>4, <2>5 DEF AskedHolds
<1>3. PolicyFollows
  BY DEF PolicyInit, PolicyFollows
<1> QED
  BY <1>1, <1>2, <1>3 DEF PolicyInv

LEMMA ResolveStep ==
  ASSUME PolicyInv, ResolveInheritance
  PROVE  PolicyInv'
<1> DEFINE merged(n) == MergeWithParent(profiles[n], profiles[profiles[n].inherits])
<1>1. PICK n \in unresolved :
        /\ unresolved' = unresolved \ {n}
        /\ \/ profiles[n].inherits = NoParent /\ UNCHANGED <<stage, profiles>>
           \/ /\ profiles[n].inherits # NoParent /\ Inheritable(profiles[n])
              /\ profiles' = [profiles EXCEPT ![n] = merged(n)] /\ UNCHANGED stage
           \/ stage' = "failed"
  <2> HIDE DEF merged
  <2> QED
    BY DEF ResolveInheritance, Fail, merged
<1>2. stage = "load" /\ UNCHANGED asked
  BY DEF ResolveInheritance
<1>3. CASE stage' = "failed"
  BY <1>3 DEF PolicyInv, RegistryHolds, AskedHolds, PolicyFollows
<1>4. CASE stage' = stage
  <2>1. AskedHolds' /\ PolicyFollows'
    BY <1>2, <1>4 DEF PolicyInv, AskedHolds, PolicyFollows
  <2>2. /\ DOMAIN profiles = DOMAIN Builtins /\ unresolved \subseteq DOMAIN Builtins
        /\ \A m \in DOMAIN Builtins :
             Entry(m, profiles[m]) /\ (profiles[m].inherits # NoParent => m \in unresolved)
    BY <1>2 DEF PolicyInv, RegistryHolds
  <2>3. CASE profiles[n].inherits = NoParent /\ UNCHANGED profiles
    BY <1>1, <2>1, <2>2, <2>3 DEF PolicyInv, RegistryHolds
  <2>4. CASE /\ profiles[n].inherits # NoParent /\ Inheritable(profiles[n])
             /\ profiles' = [profiles EXCEPT ![n] = merged(n)]
    <3> DEFINE q == Builtins[n].inherits
    <3>1. /\ n \in DOMAIN Builtins /\ profiles[n] = Builtins[n] /\ IsProfile(profiles[n])
          /\ q \in DOMAIN Builtins /\ profiles[q].inherits = NoParent /\ IsProfile(profiles[q])
      BY <1>1, <2>2, <2>4 DEF Inheritable, Entry
    <3>2. /\ IsProfile(merged(n)) /\ merged(n).inherits = NoParent
          /\ \A l \in Lists : merged(n).rules[l] = profiles[q].rules[l] \cup Builtins[n].rules[l]
      <4>1. /\ merged(n) = MergeWithParent(Builtins[n], profiles[q])
            /\ IsProfile(Builtins[n]) /\ IsProfile(profiles[q])
        BY <3>1
      <4> HIDE DEF merged
      <4>2. Merged(merged(n), Builtins[n], profiles[q])
        BY <4>1, MergedRules
      <4> QED
        BY <4>2 DEF Merged
    <3>3. \A l \in Lists : merged(n).rules[l] = Said(Builtins[n], l)
      <4>1. \A l \in Lists : profiles[q].rules[l] = Said(Builtins[q], l)
        BY <2>2, <3>1 DEF Entry
      <4> HIDE DEF merged
      <4> QED
        BY <3>1, <3>2, <4>1, ChildSaysMore
    <3>4. /\ DOMAIN profiles' = DOMAIN Builtins /\ unresolved' \subseteq DOMAIN Builtins
          /\ profiles'[n] = merged(n)
          /\ \A m \in DOMAIN Builtins \ {n} : profiles'[m] = profiles[m] /\ (m \in unresolved => m \in unresolved')
      <4> HIDE DEF merged
      <4> QED
        BY <1>1, <2>2, <2>4, <3>1
    <3> HIDE DEF merged
    <3>5. \A m \in DOMAIN Builtins :
             Entry(m, profiles'[m]) /\ (profiles'[m].inherits # NoParent => m \in unresolved')
      <4> TAKE m \in DOMAIN Builtins
      <4>1. CASE m = n
        BY <3>2, <3>3, <3>4, <4>1 DEF Entry
      <4>2. CASE m # n
        BY <2>2, <3>4, <4>2
      <4> QED
        BY <4>1, <4>2
    <3> QED
      BY <2>1, <3>4, <3>5 DEF PolicyInv, RegistryHolds
  <2> QED
    BY <1>1, <1>2, <1>4, <2>1, <2>3, <2>4 DEF PolicyInv
<1> QED
  BY <1>1, <1>2, <1>3, <1>4

LEMMA BuiltinStep ==
  ASSUME PolicyInv, GetBuiltin
  PROVE  PolicyInv'
<1>1. /\ stage = "load" /\ stage' = "loaded" /\ unresolved = {} /\ UNCHANGED asked
      /\ asked.wanted.bare /\ asked.wanted.name \in DOMAIN Builtins
      /\ policy' = profiles[asked.wanted.name]
  BY DEF GetBuiltin
<1>2. RegistryHolds' /\ AskedHolds'
  BY <1>1 DEF PolicyInv, RegistryHolds, AskedHolds
<1>3. Written' = Written /\ Written = Builtins[asked.wanted.name]
  BY <1>1 DEF Written
<1>4. /\ IsProfile(policy')
      /\ \A l \in Lists : policy'.rules[l] = Said(Builtins[asked.wanted.name], l)
  BY <1>1 DEF PolicyInv, RegistryHolds, Entry
<1>5. PolicyFollows'
  BY <1>1, <1>3, <1>4 DEF PolicyFollows
<1> QED
  BY <1>2, <1>5 DEF PolicyInv

LEMMA CustomStep ==
  ASSUME PolicyInv, LoadCustomProfile
  PROVE  PolicyInv'
<1> DEFINE file == CHOOSE f \in Found(asked.wanted, asked.files) : TRUE
           p == asked.files[file]
           whole == IF p.inherits = NoParent THEN p ELSE MergeWithParent(p, profiles[p.inherits])
<1>1. /\ stage = "load" /\ unresolved = {} /\ UNCHANGED asked
      /\ ~(asked.wanted.bare /\ asked.wanted.name \in DOMAIN Builtins)
  BY DEF LoadCustomProfile
<1>2. \/ stage' = "failed"
      \/ /\ Found(asked.wanted, asked.files) # {} /\ p # Unreadable
         /\ p.inherits = NoParent \/ Inheritable(p)
         /\ policy' = whole /\ stage' = "loaded"
  BY DEF LoadCustomProfile, Fail
<1>3. CASE stage' = "failed"
  BY <1>3 DEF PolicyInv, RegistryHolds, AskedHolds, PolicyFollows
<1>4. CASE stage' = "loaded"
  <2>1. RegistryHolds' /\ AskedHolds'
    BY <1>1, <1>4 DEF PolicyInv, RegistryHolds, AskedHolds
  <2>2. Written' = Written /\ Written = p
    BY <1>1 DEF Written
  <2>3. file \in DOMAIN asked.files
    <3>1. file \in Found(asked.wanted, asked.files)
      BY <1>2, <1>4
    <3>2. Found(asked.wanted, asked.files) \subseteq DOMAIN asked.files
      BY DEF Found, UserProfileFile
    <3> QED
      BY <3>1, <3>2
  <2> HIDE DEF file
  <2>4. IsProfile(p)
    <3>1. asked.files \in UserFiles
      BY <1>1 DEF PolicyInv, AskedHolds
    <3> QED
      BY <1>2, <1>4, <2>3, <3>1, PolicyAssumption
  <2> HIDE DEF p
  <2>5. /\ IsProfile(whole)
        /\ \A l \in Lists : whole.rules[l] = Said(p, l)
    <3>1. CASE p.inherits = NoParent
      BY <2>4, <3>1, RootSaysItsOwn
    <3>2. CASE p.inherits # NoParent
      <4> DEFINE q == p.inherits
                 merged == MergeWithParent(p, profiles[q])
      <4>1. /\ q \in DOMAIN Builtins /\ IsProfile(profiles[q])
            /\ \A l \in Lists : profiles[q].rules[l] = Said(Builtins[q], l)
        BY <1>1, <1>2, <1>4, <3>2 DEF Inheritable, PolicyInv, RegistryHolds, Entry
      <4>2. /\ IsProfile(merged)
            /\ \A l \in Lists : merged.rules[l] = profiles[q].rules[l] \cup p.rules[l]
        BY <2>4, <4>1, MergedRules DEF Merged
      <4> HIDE DEF merged
      <4>3. \A l \in Lists : merged.rules[l] = Said(p, l)
        BY <4>1, <4>2, ChildSaysMore
      <4>4. whole = merged
        BY <3>2 DEF merged
      <4> QED
        BY <4>2, <4>3, <4>4
    <3> QED
      BY <3>1, <3>2
  <2> HIDE DEF whole
  <2>6. PolicyFollows'
    BY <1>2, <1>4, <2>2, <2>5 DEF PolicyFollows
  <2> QED
    BY <2>1, <2>6 DEF PolicyInv
<1> QED
  BY <1>2, <1>3, <1>4

LEMMA OverridesStep ==
  ASSUME PolicyInv, ApplyRuntimeOverrides
  PROVE  PolicyInv'
<1>1. /\ stage = "loaded" /\ UNCHANGED asked
      /\ \/ stage' = "failed"
         \/ stage' = "ready" /\ policy' = Overridden(policy, asked.overrides)
  BY DEF ApplyRuntimeOverrides, Fail
<1>2. RegistryHolds' /\ AskedHolds'
  BY <1>1 DEF PolicyInv, RegistryHolds, AskedHolds
<1>3. CASE stage' = "failed"
  BY <1>2, <1>3 DEF PolicyInv, PolicyFollows
<1>4. CASE stage' = "ready"
  <2> DEFINE raws == asked.overrides
  <2>1. Len(raws) \in Nat /\ \A k \in 1..Len(raws) : OfRule(raws[k])
    BY <1>1 DEF PolicyInv, AskedHolds
  <2>2. IsProfile(policy) /\ \A l \in Lists : policy.rules[l] = Said(Written, l)
    BY <1>1 DEF PolicyInv, PolicyFollows
  <2>3. /\ IsProfile(Overridden(policy, raws))
        /\ \A l \in Lists :
             Overridden(policy, raws).rules[l]
               = (policy.rules[l] \cup Added(raws, Len(raws), l)) \ Taken(raws, Len(raws), l)
    BY <2>1, <2>2, OverriddenRules
  <2>4. /\ Written' = Written
        /\ \A l : Granted(l)' = Added(raws, Len(raws), l) /\ Named(l)' = Taken(raws, Len(raws), l)
    BY <1>1 DEF Written, Granted, Named, Added, Taken
  <2>5. PolicyFollows'
    BY <1>1, <1>4, <2>2, <2>3, <2>4 DEF PolicyFollows
  <2> QED
    BY <1>2, <2>5 DEF PolicyInv
<1> QED
  BY <1>1, <1>3, <1>4

\* Every other step leaves the policy, or forgets it.
LEMMA OtherPolicySteps ==
  ASSUME PolicyInv,
         \/ Execute \/ Show \/ Lint \/ HandOver \/ NotHere \/ UNCHANGED policyVars
  PROVE  PolicyInv'
<1>1. CASE Execute
  <2>1. /\ stage = "ready" /\ stage' = "confined" /\ UNCHANGED <<asked, policy>>
        /\ compiled' = Translate(asked.driver, policy, asked.disk)
    BY <1>1 DEF Execute
  <2>2. Written' = Written /\ \A l : Granted(l)' = Granted(l) /\ Named(l)' = Named(l)
    BY <2>1 DEF Written, Granted, Named
  <2> QED
    BY <2>1, <2>2 DEF PolicyInv, RegistryHolds, AskedHolds, PolicyFollows
<1>2. CASE Show \/ Lint \/ HandOver
  BY <1>2 DEF Show, Lint, HandOver, PolicyInv, RegistryHolds, AskedHolds, PolicyFollows
<1>3. CASE NotHere \/ UNCHANGED policyVars
  <2>1. UNCHANGED policyVars
    BY <1>3 DEF NotHere, allVars
  <2>2. UNCHANGED <<stage, asked, profiles, unresolved, policy, compiled>>
    BY <2>1 DEF policyVars
  <2>3. Written' = Written /\ \A l : Granted(l)' = Granted(l) /\ Named(l)' = Named(l)
    BY <2>2 DEF Written, Granted, Named
  <2> QED
    BY <2>2, <2>3 DEF PolicyInv, RegistryHolds, AskedHolds, PolicyFollows
<1> QED
  BY <1>1, <1>2, <1>3

LEMMA PolicyIsInvariant == SandboxedSpec => []PolicyInv
<1>1. SandboxedInit => PolicyInv
  <2>1. PolicyIdle => PolicyInv
    BY DEF PolicyIdle, PolicyInv, RegistryHolds, AskedHolds, PolicyFollows
  <2> QED
    BY <2>1, PolicyStarts DEF SandboxedInit
<1>2. PolicyInv /\ [SandboxedNext]_allVars => PolicyInv'
  <2> SUFFICES ASSUME PolicyInv, [SandboxedNext]_allVars PROVE PolicyInv'
    OBVIOUS
  <2>1. CASE PolicyNext
    BY <2>1, ResolveStep, BuiltinStep, CustomStep, OverridesStep, OtherPolicySteps DEF PolicyNext
  <2>2. CASE HandOver \/ NotHere
    BY <2>2, OtherPolicySteps
  <2>3. CASE UNCHANGED policyVars
    BY <2>3, OtherPolicySteps
  <2> QED
    BY <2>1, <2>2, <2>3 DEF SandboxedNext, allVars
<1> QED
  BY <1>1, <1>2, PTL DEF SandboxedSpec

\* A command is confined by all its profile says and inherits, in whatever order the
\* builtin profiles were resolved and however long their lines are; the overrides add
\* what they name and take away nothing but the denial of exactly that (registry.go,
\* policy.go, apply.go).
THEOREM PolicyKept == SandboxedSpec => []PolicyIsKept
<1>1. PolicyInv => PolicyIsKept
  <2>1. \A l \in Lists : Excused(l) \cup ExcusedGlobs(l) = Named(l)
    BY DEF Excused, ExcusedGlobs
  <2> QED
    BY <2>1 DEF PolicyInv, PolicyFollows, PolicyIsKept
<1> QED
  BY <1>1, PolicyIsInvariant, PTL

\* What the policy is translated to, as its platform has it.
OfPlatform ==
  \/ compiled = LandlockPolicy(policy, asked.disk) /\ compiled.driver = "landlock"
  \/ compiled = BwrapPolicy(policy, asked.disk) /\ compiled.driver = "bubblewrap"
  \/ compiled = SeatbeltPolicy(policy) /\ compiled.driver = "seatbelt"

LEMMA OfItsPlatform ==
  ASSUME asked.driver \in {"landlock", "bubblewrap", "seatbelt"},
         compiled = Translate(asked.driver, policy, asked.disk)
  PROVE  OfPlatform
<1>1. /\ asked.driver = "landlock" => compiled = LandlockPolicy(policy, asked.disk)
      /\ asked.driver = "bubblewrap" => compiled = BwrapPolicy(policy, asked.disk)
      /\ asked.driver = "seatbelt" => compiled = SeatbeltPolicy(policy)
  BY DEF Translate
<1>2. compiled.driver = asked.driver
  BY <1>1 DEF LandlockPolicy, BwrapPolicy, SeatbeltPolicy
<1> QED
  BY <1>1, <1>2 DEF OfPlatform

\* What a command is confined by is the policy, of rules, as its platform has it.
LEMMA ConfinedByPolicy ==
  ASSUME PolicyInv, stage = "confined"
  PROVE  PolicyOfRules(policy) /\ DiskOfPaths(asked.disk) /\ OfPlatform
<1>1. PolicyOfRules(policy)
  BY DEF PolicyInv, PolicyFollows, IsProfile, PolicyOfRules
<1>2. DiskOfPaths(asked.disk)
  BY PolicyAssumption DEF PolicyInv, AskedHolds, DiskOfPaths
<1>3. asked.driver \in {"landlock", "bubblewrap", "seatbelt"}
  BY PolicyAssumption DEF PolicyInv, AskedHolds
<1>4. compiled = Translate(asked.driver, policy, asked.disk)
  BY DEF PolicyInv, PolicyFollows
<1> QED
  BY <1>1, <1>2, <1>3, <1>4, OfItsPlatform

\* Whatever a policy denies, what it is translated to does not permit.
LEMMA DenialStands ==
  ASSUME PolicyOfRules(policy), DiskOfPaths(asked.disk), OfPlatform,
         NEW path \in Existing(asked.disk), NEW op \in {"read", "write", "exec"},
         NEW r \in Denials(op), Matches(r, path), ~Omits(op, r, path)
  PROVE  ~Permits(compiled, op, path)
<1>1. CASE compiled = LandlockPolicy(policy, asked.disk) /\ compiled.driver = "landlock"
  <2>1. ~LandlockOmits(op, r, path)
    BY <1>1 DEF Omits
  <2> QED
    BY <1>1, <2>1, LandlockWins DEF Permits
<1>2. CASE compiled = BwrapPolicy(policy, asked.disk) /\ compiled.driver = "bubblewrap"
  <2>1. ~BubblewrapOmits(op, r, path)
    BY <1>2 DEF Omits
  <2> QED
    BY <1>2, <2>1, BubblewrapWins DEF Permits
<1>3. CASE compiled = SeatbeltPolicy(policy) /\ compiled.driver = "seatbelt"
  <2>1. ~SeatbeltOmits(op, r, path)
    BY <1>3 DEF Omits
  <2> QED
    BY <1>3, <2>1, SeatbeltWins DEF Permits
<1> QED
  BY <1>1, <1>2, <1>3 DEF OfPlatform

\* What the profile denies, and what every policy does, a confined command cannot do, on
\* each of the platforms and for any profiles, overrides and files on disk, but for what
\* the platform does not deny (landlock_translator_linux.go,
\* bubblewrap_translator_linux.go, seatbelt_translator_darwin.go, dangerous.go).
THEOREM DenialsPrevail == SandboxedSpec => []DenialsWin
<1>1. PolicyInv => DenialsWin
  <2> SUFFICES ASSUME PolicyInv, stage = "confined",
                      NEW path \in Existing(asked.disk), NEW op \in {"read", "write", "exec"},
                      NEW r \in Denials(op), Matches(r, path), ~Omits(op, r, path)
               PROVE  ~Permits(compiled, op, path)
    BY DEF DenialsWin
  <2> QED
    BY ConfinedByPolicy, DenialStands
<1> QED
  BY <1>1, PolicyIsInvariant, PTL

\* What a profile or an override allows, and nothing denies, a confined command can do, on
\* each of the platforms: the mounts, rules and exceptions that come with it take nothing
\* back, and a dangerous file that is named is open (the translators, dangerous.go).
THEOREM AllowancesPrevail == SandboxedSpec => []AllowancesHold
<1>1. PolicyInv => AllowancesHold
  <2> SUFFICES ASSUME PolicyInv, stage = "confined" PROVE AllowancesHold
    BY DEF AllowancesHold
  <2>1. PolicyOfRules(policy) /\ DiskOfPaths(asked.disk)
    BY ConfinedByPolicy
  <2>2. ASSUME NEW path \in Existing(asked.disk), NEW op \in {"read", "write"},
               NEW r \in Rules(policy, AllowListOf[op]), Matches(r, path),
               ~Opposed(op, r, path), ~Collateral(op, path),
               ~(compiled.driver # "seatbelt" /\ (NotSought(r, path, GlobDepth) \/ Misplaced(r, path, GlobDepth)))
        PROVE  Permits(compiled, op, path)
    <3>1. CASE compiled = LandlockPolicy(policy, asked.disk) /\ compiled.driver = "landlock"
      BY <2>1, <2>2, <3>1, LandlockAllows DEF Permits
    <3>2. CASE compiled = BwrapPolicy(policy, asked.disk) /\ compiled.driver = "bubblewrap"
      BY <2>1, <2>2, <3>2, BubblewrapAllows DEF Permits
    <3>3. CASE compiled = SeatbeltPolicy(policy) /\ compiled.driver = "seatbelt"
      BY <2>2, <3>3, SeatbeltAllows DEF Permits
    <3> QED
      BY <3>1, <3>2, <3>3, ConfinedByPolicy DEF OfPlatform
  <2>3. policy.rules["allow_outbound"] # {} /\ compiled.driver # "landlock" => compiled.network
    <3>1. BwrapPolicy(policy, asked.disk).network = ~UnshareNetwork(policy)
      BY DEF BwrapPolicy
    <3>2. SeatbeltPolicy(policy).network = SeatbeltOutbound(policy)
      BY DEF SeatbeltPolicy
    <3> QED
      BY <3>1, <3>2, ConfinedByPolicy, Zenon DEF OfPlatform, UnshareNetwork, SeatbeltOutbound
  <2> QED
    BY <2>2, <2>3 DEF AllowancesHold
<1> QED
  BY <1>1, PolicyIsInvariant, PTL

\* A confined command can do what its policy says, no more and no less, as far as its
\* platform can have it, whatever the policy (the translators).
THEOREM PolicyEnforced == SandboxedSpec => []PolicyHolds
<1>1. DenialsWin /\ AllowancesHold => PolicyHolds
  BY DEF PolicyHolds
<1> QED
  BY <1>1, DenialsPrevail, AllowancesPrevail, PTL

-----------------------------------------------------------------------------
(* Rules that shadow others                                                 *)

LEMMA PrefixUnder ==
  ASSUME NEW h, NEW s, NEW t, IsPath(h), IsPath(s), IsPath(t)
  PROVE  /\ IsPrefix(s, t) => IsPrefix(h \o s, h \o t)
         /\ h \o s = h \o t => s = t
         /\ h \o s = <<>> => h = <<>> /\ s = <<>>
<1> DEFINE T == {h[i] : i \in 1..Len(h)} \cup {s[i] : i \in 1..Len(s)} \cup {t[i] : i \in 1..Len(t)}
<1>1. h \in Seq(T) /\ s \in Seq(T) /\ t \in Seq(T)
  BY PathIsSeq
<1> HIDE DEF T
<1>2. /\ IsPath(h \o s) /\ Len(h \o s) = Len(h) + Len(s)
      /\ \A i \in 1..(Len(h) + Len(s)) : (h \o s)[i] = IF i <= Len(h) THEN h[i] ELSE s[i - Len(h)]
  BY <1>1, ConcatProperties, PathsJoin
<1>3. /\ IsPath(h \o t) /\ Len(h \o t) = Len(h) + Len(t)
      /\ \A i \in 1..(Len(h) + Len(t)) : (h \o t)[i] = IF i <= Len(h) THEN h[i] ELSE t[i - Len(h)]
  BY <1>1, ConcatProperties, PathsJoin
<1>4. Len(h) \in Nat /\ Len(s) \in Nat /\ Len(t) \in Nat
  BY DEF IsPath
<1>5. ASSUME NEW i \in 1..Len(s)
      PROVE  (h \o s)[Len(h) + i] = s[i] /\ (i <= Len(t) => (h \o t)[Len(h) + i] = t[i])
  <2>1. Len(h) + i \in 1..(Len(h) + Len(s)) /\ ~(Len(h) + i <= Len(h)) /\ (Len(h) + i) - Len(h) = i
    BY <1>4
  <2>2. i <= Len(t) => Len(h) + i \in 1..(Len(h) + Len(t))
    BY <1>4, <2>1
  <2> QED
    BY <1>2, <1>3, <2>1, <2>2
<1>6. IsPrefix(s, t) => IsPrefix(h \o s, h \o t)
  <2> SUFFICES ASSUME Begins(s, t) PROVE Begins(h \o s, h \o t)
    BY <1>2, <1>3, PrefixBegins
  <2>1. Len(s) <= Len(t)
    BY DEF Begins
  <2>2. ASSUME NEW i \in 1..(Len(h) + Len(s)) PROVE (h \o s)[i] = (h \o t)[i]
    <3>1. CASE i <= Len(h)
      BY <1>2, <1>3, <1>4, <2>1, <3>1
    <3>2. CASE ~(i <= Len(h))
      <4>1. i - Len(h) \in 1..Len(s) /\ i \in 1..(Len(h) + Len(t))
        BY <1>4, <2>1, <3>2
      <4>2. s[i - Len(h)] = t[i - Len(h)]
        BY <4>1 DEF Begins
      <4> QED
        BY <1>2, <1>3, <3>2, <4>1, <4>2
    <3> QED
      BY <3>1, <3>2
  <2>3. Len(h \o s) <= Len(h \o t)
    BY <1>2, <1>3, <1>4, <2>1
  <2> QED
    BY <1>2, <2>2, <2>3 DEF Begins
<1>7. h \o s = h \o t => s = t
  <2> SUFFICES ASSUME h \o s = h \o t PROVE s = t
    OBVIOUS
  <2>1. Len(s) = Len(t)
    BY <1>2, <1>3, <1>4
  <2>2. \A i \in 1..Len(s) : s[i] = t[i]
    BY <1>4, <1>5, <2>1
  <2> QED
    BY <2>1, <2>2, PathsEqual
<1>8. h \o s = <<>> => h = <<>> /\ s = <<>>
  <2> SUFFICES ASSUME h \o s = <<>> PROVE h = <<>> /\ s = <<>>
    OBVIOUS
  <2>1. Len(h) + Len(s) = 0
    BY <1>2, EmptyPath
  <2>2. Len(h) = 0 /\ Len(s) = 0
    BY <1>4, <2>1
  <2> QED
    BY <2>2, EmptyPath
<1> QED
  BY <1>6, <1>7, <1>8

\* Of a rule and one that shadows it, both expanded.
Shades(o, r) ==
  /\ o.deep /\ o.tail = <<>> /\ o.var = r.var /\ (o.base # <<>> \/ o.var = "/")
  /\ IsPrefix(o.base, r.base) /\ (r.base = o.base => r.tail # <<>>)
  /\ <<>> \notin {Home, Cwd, Tmp} => o.base # <<>>

LEMMA ShadowUnexpanded ==
  ASSUME NEW r, NEW o, IsRule(r), IsRule(o), Shadowed(r, o)
  PROVE  /\ o.deep /\ o.tail = <<>> /\ o.var = r.var
         /\ IsPrefix(o.base, r.base) /\ (r.base = o.base => r.tail # <<>>)
         /\ o.var \in {"/", NoParent} => o.base # <<>>
<1>1. /\ o.deep /\ o.tail = <<>> /\ o.var = r.var /\ o \notin Broad \ {Below("HOME", <<>>)}
      /\ IsStrictPrefix(o.base, r.base) \/ (r.base = o.base /\ r.tail # <<>>)
  BY DEF Shadowed
<1>2. IsPath(o.base) /\ o = [var |-> o.var, base |-> o.base, deep |-> o.deep, tail |-> o.tail]
  BY DEF IsRule
<1>3. IsPrefix(o.base, r.base) /\ (r.base = o.base => r.tail # <<>>)
  BY <1>1, <1>2, PrefixOfSelf DEF IsStrictPrefix
<1>4. o.deep = TRUE
  BY <1>1 DEF IsRule
<1>5. ASSUME o.base = <<>> PROVE o = Below(o.var, <<>>)
  BY <1>1, <1>2, <1>4, <1>5 DEF Below, RuleText
<1>6. ASSUME NEW v, o.var = v, v # "HOME" PROVE Below(v, <<>>) \notin {Below("HOME", <<>>)}
  BY <1>6 DEF Below, RuleText
<1>7. ASSUME o.var = "/", o.base = <<>> PROVE FALSE
  BY <1>1, <1>5, <1>6, <1>7 DEF Broad
<1>8. ASSUME o.var = NoParent, o.base = <<>> PROVE FALSE
  <2>1. NoParent # "HOME"
    BY Zenon DEF NoParent
  <2>2. Below(NoParent, <<>>) \in Broad
    BY Zenon DEF NoParent, Broad
  <2> QED
    BY <1>1, <1>5, <1>6, <1>8, <2>1, <2>2
<1> QED
  BY <1>1, <1>3, <1>7, <1>8

LEMMA ShadowExpands ==
  ASSUME NEW r, NEW o, IsRule(r), IsRule(o), Shadowed(r, o)
  PROVE  Shades(Expand(o), Expand(r))
<1>1. /\ o.deep /\ o.tail = <<>> /\ o.var = r.var
      /\ IsPrefix(o.base, r.base) /\ (r.base = o.base => r.tail # <<>>)
      /\ o.var \in {"/", NoParent} => o.base # <<>>
  BY ShadowUnexpanded
<1>2. /\ IsPath(o.base) /\ o = [var |-> o.var, base |-> o.base, deep |-> o.deep, tail |-> o.tail]
      /\ IsPath(r.base) /\ r = [var |-> r.var, base |-> r.base, deep |-> r.deep, tail |-> r.tail]
  BY DEF IsRule
<1>3. IsPath(Home) /\ IsPath(Cwd) /\ IsPath(Tmp) /\ IsPath(<<o.var>>)
  BY RulesAssumption, ShortPaths
<1>4. ASSUME NEW v, NEW h, IsPath(h), h = <<>> => v = "/" /\ <<>> \in {Home, Cwd, Tmp},
             Expand(o) = [o EXCEPT !.var = v, !.base = h \o @],
             Expand(r) = [r EXCEPT !.var = v, !.base = h \o @]
      PROVE  Shades(Expand(o), Expand(r))
  <2>1. /\ Expand(o).var = v /\ Expand(o).base = h \o o.base /\ Expand(o).deep = o.deep /\ Expand(o).tail = o.tail
        /\ Expand(r).var = v /\ Expand(r).base = h \o r.base /\ Expand(r).tail = r.tail
    BY <1>2, <1>4
  <2>2. IsPrefix(h \o o.base, h \o r.base) /\ (h \o r.base = h \o o.base => r.base = o.base)
        /\ (h \o o.base = <<>> => h = <<>>)
    <3>1. IsPath(h) /\ IsPath(o.base) /\ IsPath(r.base)
      BY <1>2, <1>4
    <3>2. /\ IsPrefix(o.base, r.base) => IsPrefix(h \o o.base, h \o r.base)
          /\ h \o o.base = h \o r.base => o.base = r.base
          /\ h \o o.base = <<>> => h = <<>> /\ o.base = <<>>
      BY <3>1, PrefixUnder, Zenon
    <3> QED
      BY <1>1, <3>2
  <2> QED
    BY <1>1, <1>4, <2>1, <2>2 DEF Shades
<1>5. ASSUME o.var \in {"/", NoParent}, Expand(o) = o, Expand(r) = r
      PROVE  Shades(Expand(o), Expand(r))
  BY <1>1, <1>5 DEF Shades
<1>6. \/ o.var \in {"/", NoParent} /\ Expand(o) = o /\ Expand(r) = r
      \/ \E h \in {Home, Cwd, Tmp} :
           /\ Expand(o) = [o EXCEPT !.var = "/", !.base = h \o @]
           /\ Expand(r) = [r EXCEPT !.var = "/", !.base = h \o @]
      \/ /\ Expand(o) = [o EXCEPT !.var = NoParent, !.base = <<o.var>> \o @]
         /\ Expand(r) = [r EXCEPT !.var = NoParent, !.base = <<o.var>> \o @]
  <2>1. CASE o.var = "HOME"
    BY <1>1, <2>1, Zenon DEF Expand
  <2>2. CASE o.var = "CWD"
    BY <1>1, <2>2, Zenon DEF Expand
  <2>3. CASE o.var = "TMPDIR"
    BY <1>1, <2>3, Zenon DEF Expand
  <2>4. CASE o.var \in {"/", NoParent}
    BY <1>1, <2>4, Zenon DEF Expand, NoParent
  <2>5. CASE o.var \notin {"HOME", "CWD", "TMPDIR", "/", NoParent}
    BY <1>1, <2>5, Zenon DEF Expand, NoParent
  <2> QED
    BY <2>1, <2>2, <2>3, <2>4, <2>5, Zenon
<1>7. <<o.var>> # <<>>
  OBVIOUS
<1> QED
  BY <1>3, <1>4, <1>5, <1>6, <1>7

\* A rule that is shadowed is so by one that is not.
LEMMA Survivor ==
  ASSUME NEW S, \A s \in S : IsRule(s), NEW r \in S, \E o \in S : Shadowed(r, o)
  PROVE  \E o \in S : Shadowed(r, o) /\ \A x \in S : ~Shadowed(o, x)
<1> DEFINE T == {Len(o.base) : o \in {s \in S : Shadowed(r, s)}}
<1>1. T \subseteq Nat /\ T # {}
  BY DEF IsRule, IsPath
<1>2. \E n \in T : \A m \in T : n <= m
  BY <1>1, LeastNumber
<1>3. PICK o \in S : Shadowed(r, o) /\ \A s \in S : Shadowed(r, s) => Len(o.base) <= Len(s.base)
  BY <1>2
<1>4. ASSUME NEW x \in S, Shadowed(o, x) PROVE FALSE
  <2>1. IsPath(o.base) /\ IsPath(x.base) /\ IsPath(r.base)
    BY DEF IsRule
  <2>2. /\ o.tail = <<>> /\ o.var = r.var /\ IsPrefix(o.base, r.base)
    BY <1>3, ShadowUnexpanded
  <2>3. /\ x.deep /\ x.tail = <<>> /\ x.var = o.var /\ x \notin Broad \ {Below("HOME", <<>>)}
        /\ IsStrictPrefix(x.base, o.base)
    BY <1>4, <2>2 DEF Shadowed
  <2>4. Len(x.base) < Len(o.base) /\ Len(o.base) <= Len(r.base) /\ Len(x.base) \in Nat /\ Len(o.base) \in Nat
    <3>1. Begins(x.base, o.base) /\ x.base # o.base /\ Begins(o.base, r.base)
      BY <2>1, <2>2, <2>3, PrefixBegins DEF IsStrictPrefix
    <3>2. Len(x.base) # Len(o.base)
      BY <2>1, <3>1, PathsEqual DEF Begins
    <3> QED
      BY <2>1, <3>1, <3>2 DEF Begins, IsPath
  <2>5. IsStrictPrefix(x.base, r.base)
    <3>1. IsPrefix(x.base, r.base)
      BY <2>1, <2>2, <2>3, PrefixOfPrefix DEF IsStrictPrefix
    <3>2. Len(x.base) # Len(r.base)
      BY <2>1, <2>4 DEF IsPath
    <3> QED
      BY <3>1, <3>2 DEF IsStrictPrefix
  <2>6. Shadowed(r, x)
    BY <2>2, <2>3, <2>5 DEF Shadowed
  <2>7. Len(o.base) <= Len(x.base)
    BY <1>3, <2>6
  <2> QED
    BY <2>4, <2>7
<1> QED
  BY <1>3, <1>4

\* The rules of a list, expanded, without those that may go.
Leaner(S, R) ==
  /\ S \subseteq R
  /\ \A r \in R : r \in S \/ (~CountsAnyway(r) /\ \E o \in S : Shades(o, r))

\* A policy and the same without rules that may go.
Trimmed(q, p) ==
  /\ q.flags = p.flags
  /\ \A l \in {"deny_read", "deny_write", "deny_exec"} : Rules(q, l) = Rules(p, l)
  /\ \A l \in AllowLists : Leaner(Rules(q, l), Rules(p, l)) /\ (q.rules[l] = {} <=> p.rules[l] = {})

LEMMA DeadRules ==
  ASSUME issues = LintProfile(policy), NEW l
  PROVE  Dead(l) = IF l \in AllowLists
                   THEN {s \in policy.rules[l] : \E o \in policy.rules[l] : Shadowed(s, o)}
                   ELSE {}
<1> DEFINE dead(k) == {s \in policy.rules[k] : \E o \in policy.rules[k] : Shadowed(s, o)}
           shadowed == UNION {{Issue("shadowed", k, r) : r \in dead(k)} : k \in AllowLists}
           unresolved_ == UNION {{Issue("unresolved", k, r) :
                                    r \in {s \in policy.rules[k] : s.var \notin SupportedVariables \cup {"/", NoParent}}} :
                                   k \in Lists}
           broad == UNION {{Issue("broad", k, r) : r \in policy.rules[k] \cap Broad} : k \in AllowLists}
           conflict == UNION {{Issue("conflict", k, r) : r \in policy.rules[k] \cap policy.rules[ConflictPairs[k]]} :
                                k \in DOMAIN ConflictPairs}
<1>1. issues = unresolved_ \cup broad \cup conflict \cup shadowed
  BY Zenon DEF LintProfile, NoParent
<1>2. \A s \in unresolved_ : s.code = "unresolved"
  BY DEF Issue
<1>3. \A s \in broad : s.code = "broad"
  BY DEF Issue
<1>4. \A s \in conflict : s.code = "conflict"
  BY DEF Issue
<1>5. \A s \in shadowed : s.code = "shadowed" /\ s.list \in AllowLists /\ s.rule \in dead(s.list)
  BY DEF Issue
<1>6. \A k \in AllowLists : \A r \in dead(k) : Issue("shadowed", k, r) \in shadowed
  <2> HIDE DEF dead
  <2> QED
    OBVIOUS
<1>7. \A k, r : LET s == Issue("shadowed", k, r) IN s.code = "shadowed" /\ s.list = k /\ s.rule = r
  BY DEF Issue
<1> HIDE DEF shadowed, unresolved_, broad, conflict, dead
<1>8. Dead(l) = {s.rule : s \in {t \in shadowed : t.list = l}}
  BY <1>1, <1>2, <1>3, <1>4, <1>5 DEF Dead
<1>9. CASE l \in AllowLists
  <2>1. \A r : r \in Dead(l) => r \in dead(l)
    BY <1>5, <1>8
  <2>2. \A r \in dead(l) : r \in Dead(l)
    BY <1>6, <1>7, <1>8, <1>9
  <2>3. Dead(l) = dead(l)
    BY <2>1, <2>2
  <2> QED
    BY <1>9, <2>3 DEF dead
<1>10. CASE l \notin AllowLists
  BY <1>5, <1>8, <1>10
<1> QED
  BY <1>9, <1>10

LEMMA WithoutDeadIsTrimmed ==
  ASSUME IsProfile(policy), issues = LintProfile(policy)
  PROVE  Trimmed(WithoutDead, policy)
<1> DEFINE q == WithoutDead
           p == policy
<1>1. /\ q.flags = p.flags
      /\ \A l \in Lists : q.rules[l] = {r \in p.rules[l] : r \notin Dead(l) \/ CountsAnyway(Expand(r))}
  BY DEF WithoutDead, IsProfile
<1> HIDE DEF q
<1>2. /\ AllowLists \subseteq Lists \cap PathLists
      /\ {"deny_read", "deny_write", "deny_exec"} \subseteq Lists
      /\ {"deny_read", "deny_write", "deny_exec"} \cap AllowLists = {}
  BY DEF AllowLists, Lists, PathLists
<1>3. ASSUME NEW l \in {"deny_read", "deny_write", "deny_exec"} PROVE Rules(q, l) = Rules(p, l)
  <2>1. Dead(l) = {}
    BY <1>2, DeadRules
  <2>2. q.rules[l] = p.rules[l]
    BY <1>1, <1>2, <2>1
  <2> QED
    BY <2>2 DEF Rules
<1>4. ASSUME NEW l \in AllowLists
      PROVE  Leaner(Rules(q, l), Rules(p, l)) /\ (q.rules[l] = {} <=> p.rules[l] = {})
  <2> DEFINE R == p.rules[l]
             S == q.rules[l]
  <2>1. /\ \A r \in R : IsRule(r)
        /\ S = {r \in R : r \notin Dead(l) \/ CountsAnyway(Expand(r))}
        /\ Dead(l) = {s \in R : \E o \in R : Shadowed(s, o)}
    BY <1>1, <1>2, DeadRules DEF IsProfile
  <2> HIDE DEF R, S
  <2>2. ASSUME NEW r \in R, r \notin S
        PROVE  ~CountsAnyway(Expand(r)) /\ \E o \in S : Shadowed(r, o)
    <3>1. PICK o \in R : Shadowed(r, o) /\ \A x \in R : ~Shadowed(o, x)
      BY <2>1, <2>2, Survivor
    <3>2. o \in S
      BY <2>1, <3>1
    <3> QED
      BY <2>1, <2>2, <3>1, <3>2
  <2>3. Rules(q, l) = {Expand(t) : t \in S} /\ Rules(p, l) = {Expand(t) : t \in R}
    BY DEF Rules, ExpandSlice, R, S
  <2>4. S \subseteq R
    BY <2>1
  <2>5. ASSUME NEW r \in Rules(p, l), r \notin Rules(q, l)
        PROVE  ~CountsAnyway(r) /\ \E o \in Rules(q, l) : Shades(o, r)
    <3>1. PICK t \in R : r = Expand(t)
      BY <2>3
    <3>2. t \notin S
      BY <2>3, <2>5, <3>1
    <3>3. PICK o \in S : Shadowed(t, o)
      BY <2>2, <3>2
    <3>4. Shades(Expand(o), r) /\ Expand(o) \in Rules(q, l)
      BY <2>1, <2>3, <2>4, <3>1, <3>3, ShadowExpands
    <3> QED
      BY <2>2, <3>1, <3>2, <3>4
  <2>6. Leaner(Rules(q, l), Rules(p, l))
    BY <2>3, <2>4, <2>5 DEF Leaner
  <2>7. S = {} <=> R = {}
    BY <2>2, <2>4
  <2> QED
    BY <2>6, <2>7 DEF R, S
<1> QED
  BY <1>1, <1>3, <1>4 DEF Trimmed, q

\* What every policy denies is not touched by rules that may go.
LEMMA MandatoryTrimmed ==
  ASSUME NEW S, NEW R, Leaner(S, R), NEW git \in BOOLEAN
  PROVE  /\ MandatoryDeny(S, git) = MandatoryDeny(R, git)
         /\ \A S2, R2 : Leaner(S2, R2) => MandatoryDeny(R, git) \ S2 = MandatoryDeny(R, git) \ R2
<1>1. \A S2, R2 : Leaner(S2, R2) =>
        S2 \subseteq R2 /\ \A r \in R2 : r \in Suppressible(FALSE) \cup GitHooks => r \in S2
  BY DEF Leaner, CountsAnyway
<1>2. Suppressible(git) \subseteq Suppressible(FALSE)
  BY DEF Suppressible
<1>3. \A f \in DangerousFiles : In(Cwd, f) \in Suppressible(FALSE) /\ In(Home, f) \in Suppressible(FALSE)
  BY DEF Suppressible
<1>4. Suppressed(S, git) = Suppressed(R, git)
  <2>1. Suppressible(git) \cap S = Suppressible(git) \cap R
    BY <1>1, <1>2
  <2>2. {g \in DangerousFiles : In(Cwd, g) \in S \/ In(Home, g) \in S}
          = {g \in DangerousFiles : In(Cwd, g) \in R \/ In(Home, g) \in R}
    <3>1. S \subseteq R /\ \A r \in R : r \in Suppressible(FALSE) \cup GitHooks => r \in S
      BY <1>1, Zenon
    <3>2. \A f \in DangerousFiles : (In(Cwd, f) \in S <=> In(Cwd, f) \in R) /\ (In(Home, f) \in S <=> In(Home, f) \in R)
      BY <1>3, <3>1
    <3> QED
      BY <3>2
  <2> DEFINE F(A) == {Anywhere(f) : f \in {g \in DangerousFiles : In(Cwd, g) \in A \/ In(Home, g) \in A}}
  <2>3. F(S) = F(R)
    BY <2>2
  <2>4. Suppressed(S, git) = Suppressible(git) \cap (S \cup F(S)) /\ Suppressed(R, git) = Suppressible(git) \cap (R \cup F(R))
    BY DEF Suppressed
  <2> HIDE DEF F
  <2> QED
    BY <2>1, <2>3, <2>4
<1>5. MandatoryDeny(S, git) = MandatoryDeny(R, git)
  BY <1>4 DEF MandatoryDeny
<1>6. MandatoryDeny(R, git) \subseteq Suppressible(FALSE) \cup GitHooks
  BY <1>2 DEF MandatoryDeny
<1>7. \A S2, R2 : Leaner(S2, R2) => MandatoryDeny(R, git) \ S2 = MandatoryDeny(R, git) \ R2
  BY <1>1, <1>6
<1> QED
  BY <1>5, <1>7

-----------------------------------------------------------------------------
(* What a shadowing rule finds on disk                                      *)

\* What a rule finds is at or beneath what comes before its wildcards.
LEMMA ExpandedBeneath ==
  ASSUME NEW disk, DiskOfPaths(disk), NEW r, IsRule(r), r.base # <<>>, NEW q \in LandlockExpand(disk, r)
  PROVE  q = Absolute(r) \/ (q \in Existing(disk) /\ IsPrefix(Absolute(r), q))
<1> DEFINE base == Absolute(r)
<1>1. q = base \/ q \in GlobMatches(disk, r, GlobDepth)
  BY DEF LandlockExpand, GlobParent
<1>2. q \in Glob(disk, r) => q \in Existing(disk) /\ IsPrefix(base, q)
  BY DEF Glob
<1>3. q \in WalkGlob(disk, r, GlobDepth) => q \in Existing(disk) /\ IsPrefix(base, q)
  BY DEF WalkGlob
<1> HIDE DEF base
<1>4. q \in ExpandGlobstar(disk, r, GlobDepth) => q = base \/ q \in WalkGlob(disk, r, GlobDepth)
  BY DEF ExpandGlobstar, base
<1> QED
  BY <1>1, <1>2, <1>3, <1>4 DEF GlobMatches, base

LEMMA AbsolutePaths ==
  ASSUME NEW r, NEW o, IsRule(r), IsRule(o), o.var = r.var, IsPrefix(o.base, r.base)
  PROVE  /\ IsPath(Absolute(r)) /\ IsPath(Absolute(o)) /\ IsPrefix(Absolute(o), Absolute(r))
         /\ (Absolute(o) = Absolute(r) => o.base = r.base)
<1>1. IsPath(r.base) /\ IsPath(o.base) /\ IsPath(Cwd) /\ IsPath(Cwd \o r.base) /\ IsPath(Cwd \o o.base)
  BY RulesAssumption, PathsJoin DEF IsRule
<1>2. /\ IsPrefix(Cwd \o o.base, Cwd \o r.base)
      /\ (Cwd \o o.base = Cwd \o r.base => o.base = r.base)
  BY <1>1, PrefixUnder
<1> QED
  BY <1>1, <1>2 DEF Absolute

\* A rule that shadows another finds what comes before its wildcards itself.
LEMMA ShadeFindsItself ==
  ASSUME NEW disk, DiskOfPaths(disk), NEW o, IsRule(o), o.deep, o.tail = <<>>, o.base # <<>>
  PROVE  Absolute(o) \in LandlockExpand(disk, o)
<1> DEFINE base == Absolute(o)
           found == GlobMatches(disk, o, GlobDepth)
<1>1. IsPath(base)
  BY RulesAssumption, PathsJoin DEF Absolute, IsRule
<1>2. base \in found
  <2>1. found = ExpandGlobstar(disk, o, GlobDepth)
    BY DEF GlobMatches
  <2>2. CASE ~Exists(disk, base)
    BY <2>1, <2>2 DEF ExpandGlobstar
  <2>3. CASE Exists(disk, base)
    <3>1. base \in Existing(disk)
      <4>1. PICK f \in disk : IsPrefix(base, f)
        BY <2>3 DEF Exists
      <4>2. /\ base = SubSeq(base, 1, Len(base)) /\ Len(base) \in 0..Len(f)
            /\ SubSeq(base, 1, Len(base)) = SubSeq(f, 1, Len(base))
        <5>1. IsPath(f) /\ Len(base) \in Nat /\ Len(f) \in Nat
          BY <1>1, <4>1 DEF DiskOfPaths, IsPath
        <5>2. /\ IsPath(SubSeq(base, 1, Len(base))) /\ Len(SubSeq(base, 1, Len(base))) = Len(base)
              /\ \A i \in 1..Len(base) : SubSeq(base, 1, Len(base))[i] = base[i]
          BY <1>1, <5>1, PartOfPath
        <5>3. base = SubSeq(base, 1, Len(base))
          BY <1>1, <5>2, PathsEqual
        <5>4. Len(base) <= Len(f) /\ SubSeq(base, 1, Len(base)) = SubSeq(f, 1, Len(base))
          BY <4>1 DEF IsPrefix
        <5> HIDE DEF base
        <5> QED
          BY <5>1, <5>3, <5>4
      <4> HIDE DEF base
      <4>3. \E n \in 0..Len(f) : base = SubSeq(f, 1, n)
        BY <4>2, Zenon
      <4>4. base \in {SubSeq(f, 1, n) : n \in 0..Len(f)}
        BY <4>3, Zenon
      <4> QED
        BY <4>1, <4>4, Zenon DEF Existing
    <3>2. IsPrefix(base, base) /\ IsSuffix(o.tail, base) /\ Len(base) - Len(base) <= GlobDepth
      <4>1. Len(base) \in Nat /\ GlobDepth \in Nat
        BY <1>1, RulesAssumption DEF IsPath
      <4>2. IsSuffix(<<>>, base)
        BY <1>1, <4>1, EmptyPath, EndsWith
      <4> HIDE DEF base
      <4> QED
        BY <1>1, <4>1, <4>2, PrefixOfSelf
    <3>3. base \in WalkGlob(disk, o, GlobDepth)
      BY <3>1, <3>2 DEF WalkGlob
    <3> QED
      BY <2>1, <2>3, <3>3 DEF ExpandGlobstar
  <2> QED
    BY <2>2, <2>3
<1>3. GlobParent(o) = base
  BY DEF GlobParent
<1> QED
  BY <1>2, <1>3 DEF LandlockExpand, IsGlob

\* So what a rule opens lies beneath what the one that shadows it opens.
LEMMA ShadeFinds ==
  ASSUME NEW disk, DiskOfPaths(disk), NEW r, NEW o, IsRule(r), IsRule(o), Shades(o, r), o.base # <<>>,
         NEW q \in LandlockExpand(disk, r)
  PROVE  Absolute(o) \in LandlockExpand(disk, o) /\ IsPrefix(Absolute(o), q) /\ IsPath(q)
<1>1. o.deep /\ o.tail = <<>> /\ o.var = r.var /\ IsPrefix(o.base, r.base)
  BY DEF Shades
<1>2. r.base # <<>>
  <2>1. IsPath(o.base) /\ IsPath(r.base)
    BY DEF IsRule
  <2>2. Len(o.base) > 0 /\ Len(o.base) <= Len(r.base) /\ Len(o.base) \in Nat /\ Len(r.base) \in Nat
    BY <1>1, <2>1, PrefixBegins, EmptyPath DEF Begins, IsPath
  <2> QED
    BY <2>2, EmptyPath
<1>3. IsPath(Absolute(r)) /\ IsPath(Absolute(o)) /\ IsPrefix(Absolute(o), Absolute(r))
  BY <1>1, AbsolutePaths
<1>4. q = Absolute(r) \/ (q \in Existing(disk) /\ IsPrefix(Absolute(r), q))
  BY <1>2, ExpandedBeneath
<1>5. IsPath(q)
  BY <1>3, <1>4, ExistingPath
<1>6. IsPrefix(Absolute(o), q)
  BY <1>3, <1>4, <1>5, PrefixOfPrefix
<1>7. Absolute(o) \in LandlockExpand(disk, o)
  BY <1>1, ShadeFindsItself
<1> QED
  BY <1>5, <1>6, <1>7

\* What may be opened by a list may be opened without the rules that may go.
LEMMA LeanerFinds ==
  ASSUME NEW disk, DiskOfPaths(disk), NEW S, NEW R, Leaner(S, R), \A r \in R : IsRule(r),
         <<>> \notin {Home, Cwd, Tmp},
         NEW r \in R, NEW q \in LandlockExpand(disk, r), NEW path, IsPath(path), IsPrefix(q, path)
  PROVE  \E s \in S : \E x \in LandlockExpand(disk, s) : IsPrefix(x, path)
<1>1. CASE r \in S
  BY <1>1
<1>2. CASE r \notin S
  <2>1. PICK o \in S : Shades(o, r)
    BY <1>2 DEF Leaner
  <2>2. IsRule(r) /\ IsRule(o) /\ o.base # <<>>
    BY <2>1 DEF Leaner, Shades
  <2>3. Absolute(o) \in LandlockExpand(disk, o) /\ IsPrefix(Absolute(o), q) /\ IsPath(q)
    BY <2>1, <2>2, ShadeFinds
  <2>4. IsPath(Absolute(o))
    BY <2>1, <2>2, AbsolutePaths DEF Shades
  <2>5. IsPrefix(Absolute(o), path)
    BY <2>3, <2>4, PrefixOfPrefix
  <2> QED
    BY <2>3, <2>5
<1> QED
  BY <1>1, <1>2

-----------------------------------------------------------------------------
(* Landlock, without the rules that may go                                  *)

\* The other name of a program's directory is open anyway.
LEMMA AlternateIsOpen ==
  ASSUME NEW x, IsPath(x), NEW y \in UsrAlternate(x), NEW path, IsPath(path), IsPrefix(y, path)
  PROVE  \E d \in ExecDirs : IsPrefix(d, path)
<1> DEFINE T == {x[i] : i \in 1..Len(x)} \cup {"usr"}
<1>1. x \in Seq(T) /\ <<"usr">> \in Seq(T) /\ Len(x) \in Nat
  BY PathIsSeq DEF IsPath
<1>2. \A d \in ProgramDirs : <<d>> \in ExecDirs /\ <<"usr", d>> \in ExecDirs
  BY DriversAssumption
<1>3. \/ Len(x) > 1 /\ x[1] \in ProgramDirs /\ y = <<"usr">> \o x
      \/ Len(x) > 2 /\ x[1] = "usr" /\ x[2] \in ProgramDirs /\ y = Tail(x)
  BY DEF UsrAlternate
<1> HIDE DEF T
<1>4. CASE Len(x) > 1 /\ x[1] \in ProgramDirs /\ y = <<"usr">> \o x
  <2>1. /\ y \in Seq(T) /\ Len(y) = 1 + Len(x)
        /\ \A i \in 1..(1 + Len(x)) : y[i] = IF i <= 1 THEN <<"usr">>[i] ELSE x[i - 1]
    BY <1>1, <1>4, ConcatProperties
  <2>2. IsPath(y) /\ y[1] = "usr" /\ y[2] = x[1]
    <3>1. IsPath(y)
      BY <2>1, SeqIsPath
    <3>2. 1 \in 1..(1 + Len(x)) /\ 2 \in 1..(1 + Len(x)) /\ ~(2 <= 1) /\ 2 - 1 = 1
      BY <1>1, <1>4
    <3>3. y[1] = <<"usr">>[1] /\ y[2] = x[1]
      BY <2>1, <3>2
    <3> QED
      BY <3>1, <3>3
  <2>3. Begins(y, path)
    BY <2>2, PrefixBegins
  <2>4. Begins(<<"usr", x[1]>>, path)
    BY <1>1, <1>4, <2>1, <2>2, <2>3 DEF Begins, IsPath
  <2>5. IsPrefix(<<"usr", x[1]>>, path)
    BY <2>4, ShortPaths, PrefixBegins
  <2> QED
    BY <1>2, <1>4, <2>5
<1>5. CASE Len(x) > 2 /\ x[1] = "usr" /\ x[2] \in ProgramDirs /\ y = Tail(x)
  <2>1. x # <<>>
    BY <1>1, <1>5
  <2>2. y \in Seq(T) /\ Len(y) = Len(x) - 1 /\ \A i \in 1..(Len(x) - 1) : y[i] = x[i + 1]
    BY <1>1, <1>5, <2>1, HeadTailProperties
  <2>3. IsPath(y) /\ y[1] = x[2]
    <3>1. IsPath(y)
      BY <2>2, SeqIsPath
    <3>2. 1 \in 1..(Len(x) - 1) /\ 1 + 1 = 2
      BY <1>1, <1>5
    <3>3. y[1] = x[1 + 1]
      BY <2>2, <3>2
    <3> QED
      BY <3>1, <3>2, <3>3
  <2>4. Begins(y, path)
    BY <2>3, PrefixBegins
  <2>5. Begins(<<x[2]>>, path)
    BY <1>1, <1>5, <2>2, <2>3, <2>4 DEF Begins, IsPath
  <2>6. IsPrefix(<<x[2]>>, path)
    BY <2>5, ShortPaths, PrefixBegins
  <2> QED
    BY <1>2, <1>5, <2>6
<1> QED
  BY <1>3, <1>4, <1>5

\* What Landlock's rules are, by their kinds.
OpenTo(p, disk, op, path) ==
  \/ /\ op \in {"read", "exec"}
     /\ \/ \E l \in {"allow_read", "allow_exec"} : \E r \in Rules(p, l) : \E q \in LandlockExpand(disk, r) : IsPrefix(q, path)
        \/ \E r \in Rules(p, "allow_exec") : \E q \in LandlockExpand(disk, r) : \E y \in UsrAlternate(q) : IsPrefix(y, path)
  \/ /\ op \in {"read", "write", "exec"}
     /\ \E r \in Rules(p, "allow_write") : \E q \in LandlockExpand(disk, r) : IsPrefix(q, path)
  \/ \E e \in LandlockSystemRules(p) : IsPrefix(e.path, path) /\ op \in e.access

LEMMA LandlockOpenTo ==
  ASSUME NEW p, NEW disk, NEW op \in {"read", "write", "exec"}, NEW path
  PROVE  (\E e \in LandlockRules(p, disk) : IsPrefix(e.path, path) /\ op \in e.access) <=> OpenTo(p, disk, op, path)
<1> DEFINE paths(list) == UNION {LandlockExpand(disk, r) : r \in Rules(p, list)}
           execs == paths("allow_exec")
           other == UNION {UsrAlternate(x) : x \in execs}
           reads == paths("allow_read") \cup execs \cup other
           within(ps) == \E q \in ps : IsPrefix(q, path)
           open(rules) == \E e \in rules : IsPrefix(e.path, path) /\ op \in e.access
<1>1. LandlockRules(p, disk) =
        Allow(ReadAccess, reads) \cup Allow(ReadAccess \cup WriteAccess, paths("allow_write"))
        \cup LandlockSystemRules(p)
  BY DEF LandlockRules
<1>2. ASSUME NEW access, NEW ps
      PROVE  open(Allow(access, ps)) <=> op \in access /\ within(ps)
  <2>1. Allow(access, ps) = {[path |-> x, access |-> access] : x \in ps}
    BY DEF Allow
  <2>2. ASSUME open(Allow(access, ps)) PROVE op \in access /\ within(ps)
    BY <2>1, <2>2
  <2>3. ASSUME op \in access, within(ps) PROVE open(Allow(access, ps))
    <3>1. PICK x \in ps : IsPrefix(x, path)
      BY <2>3
    <3>2. [path |-> x, access |-> access] \in Allow(access, ps)
      BY <2>1
    <3> QED
      BY <2>3, <3>1, <3>2
  <2> QED
    BY <2>2, <2>3
<1>3. \A l : within(paths(l)) <=> \E r \in Rules(p, l) : \E q \in LandlockExpand(disk, r) : IsPrefix(q, path)
  OBVIOUS
<1>4. within(other) <=> \E r \in Rules(p, "allow_exec") : \E q \in LandlockExpand(disk, r) : \E y \in UsrAlternate(q) : IsPrefix(y, path)
  OBVIOUS
<1>5. within(reads) <=> within(paths("allow_read")) \/ within(paths("allow_exec")) \/ within(other)
  OBVIOUS
<1>6. (op \in ReadAccess <=> op \in {"read", "exec"}) /\ op \in ReadAccess \cup WriteAccess
  BY DEF ReadAccess, WriteAccess
<1>7. open(LandlockRules(p, disk)) <=>
        \/ op \in {"read", "exec"} /\ within(reads)
        \/ within(paths("allow_write"))
        \/ open(LandlockSystemRules(p))
  <2> HIDE DEF reads, paths, within
  <2>1. open(LandlockRules(p, disk)) <=>
          open(Allow(ReadAccess, reads)) \/ open(Allow(ReadAccess \cup WriteAccess, paths("allow_write"))) \/ open(LandlockSystemRules(p))
    BY <1>1
  <2> QED
    BY <1>2, <1>6, <2>1
<1>8. \/ OpenTo(p, disk, op, path) <=>
        \/ op \in {"read", "exec"} /\ (within(paths("allow_read")) \/ within(paths("allow_exec")) \/ within(other))
        \/ within(paths("allow_write"))
        \/ open(LandlockSystemRules(p))
  <2> HIDE DEF paths, within, other
  <2> QED
    BY <1>3, <1>4 DEF OpenTo
<1> QED
  BY <1>5, <1>7, <1>8

LEMMA LandlockStaysOpen ==
  ASSUME NEW p, NEW q, NEW disk, DiskOfPaths(disk), Trimmed(q, p), PolicyOfRules(p), <<>> \notin {Home, Cwd, Tmp},
         NEW op \in {"read", "write", "exec"}, NEW path, IsPath(path)
  PROVE  OpenTo(p, disk, op, path) <=> OpenTo(q, disk, op, path)
<1>1. \A l \in AllowLists : Leaner(Rules(q, l), Rules(p, l)) /\ \A r \in Rules(p, l) : IsRule(r)
  BY ExpandedRules DEF Trimmed, AllowLists, PathLists, Lists
<1>2. LandlockSystemRules(q) = LandlockSystemRules(p)
  BY DEF LandlockSystemRules, On, Trimmed
<1>3. ASSUME OpenTo(q, disk, op, path) PROVE OpenTo(p, disk, op, path)
  <2>1. \A l \in AllowLists : Rules(q, l) \subseteq Rules(p, l)
    BY <1>1 DEF Leaner
  <2> QED
    BY <1>2, <1>3, <2>1 DEF OpenTo, AllowLists
<1>4. ASSUME OpenTo(p, disk, op, path) PROVE OpenTo(q, disk, op, path)
  <2>1. ASSUME NEW l \in AllowLists, NEW r \in Rules(p, l), NEW x \in LandlockExpand(disk, r), IsPrefix(x, path)
        PROVE  \E s \in Rules(q, l) : \E y \in LandlockExpand(disk, s) : IsPrefix(y, path)
    BY <1>1, <2>1, LeanerFinds
  <2>2. ASSUME NEW r \in Rules(p, "allow_exec"), NEW x \in LandlockExpand(disk, r), NEW y \in UsrAlternate(x), IsPrefix(y, path)
        PROVE  \E d \in ExecDirs : IsPrefix(d, path)
    <3>1. IsRule(r)
      BY <1>1 DEF AllowLists
    <3>2. IsPath(x)
      <4>1. IsPath(Absolute(r))
        BY <3>1, RulesAssumption, PathsJoin DEF Absolute, IsRule
      <4>2. IsPath(GlobParent(r))
        BY <4>1, RulesAssumption DEF GlobParent
      <4>3. x \in {Absolute(r), GlobParent(r)} \/ x \in GlobMatches(disk, r, GlobDepth)
        BY DEF LandlockExpand
      <4>4. x \in Glob(disk, r) => x \in Existing(disk)
        BY DEF Glob
      <4>5. x \in WalkGlob(disk, r, GlobDepth) => x \in Existing(disk)
        BY DEF WalkGlob
      <4>6. x \in ExpandGlobstar(disk, r, GlobDepth) => x = Absolute(r) \/ x \in WalkGlob(disk, r, GlobDepth)
        BY DEF ExpandGlobstar
      <4> QED
        BY <4>1, <4>2, <4>3, <4>4, <4>5, <4>6, ExistingPath DEF GlobMatches
    <3> QED
      BY <2>2, <3>2, AlternateIsOpen
  <2>3. ASSUME op \in {"read", "exec"}, NEW d \in ExecDirs, IsPrefix(d, path)
        PROVE  \E e \in LandlockSystemRules(q) : IsPrefix(e.path, path) /\ op \in e.access
    <3>1. [path |-> d, access |-> ReadAccess] \in LandlockSystemRules(q)
      BY DEF LandlockSystemRules, Allow
    <3> QED
      BY <2>3, <3>1 DEF ReadAccess
  <2> QED
    BY <1>2, <1>4, <2>1, <2>2, <2>3 DEF OpenTo, AllowLists
<1> QED
  BY <1>3, <1>4

LEMMA WritableTrimmed ==
  ASSUME NEW p, NEW q, Trimmed(q, p), PolicyOfRules(p), <<>> \notin {Home, Cwd, Tmp}, NEW r, IsRule(r)
  PROVE  WithinWritable(q, r) <=> WithinWritable(p, r)
<1>1. Leaner(Rules(q, "allow_write"), Rules(p, "allow_write")) /\ \A a \in Rules(p, "allow_write") : IsRule(a)
  BY ExpandedRules DEF Trimmed, AllowLists, PathLists, Lists
<1>2. WithinWritable(q, r) => WithinWritable(p, r)
  BY <1>1 DEF WithinWritable, Leaner
<1>3. ASSUME NEW a \in Rules(p, "allow_write"), BeginsWith(r, a) \/ BeginsWith(a, r), a \notin Rules(q, "allow_write")
      PROVE  \E o \in Rules(q, "allow_write") : BeginsWith(r, o) \/ BeginsWith(o, r)
  <2>1. PICK o \in Rules(q, "allow_write") : Shades(o, a)
    BY <1>1, <1>3 DEF Leaner
  <2>2. IsRule(o) /\ IsRule(a)
    BY <1>1 DEF Leaner
  <2>3. IsPath(o.base) /\ IsPath(a.base) /\ IsPath(r.base)
    BY <2>2 DEF IsRule
  <2>4. o.var = a.var /\ IsPrefix(o.base, a.base) /\ o.base # <<>>
    BY <2>1 DEF Shades
  <2>5. a.base # <<>>
    <3>1. Len(o.base) > 0 /\ Len(o.base) <= Len(a.base) /\ Len(o.base) \in Nat /\ Len(a.base) \in Nat
      BY <2>3, <2>4, PrefixBegins, EmptyPath DEF Begins, IsPath
    <3> QED
      BY <3>1, EmptyPath
  <2>6. CASE BeginsWith(r, a)
    <3>1. o.var = r.var /\ IsPrefix(o.base, r.base)
      BY <2>3, <2>4, <2>5, <2>6, PrefixOfPrefix DEF BeginsWith
    <3> QED
      BY <2>4, <3>1 DEF BeginsWith
  <2>7. CASE BeginsWith(a, r)
    <3>1. CASE r.base = <<>>
      BY <2>4, <2>7, <3>1 DEF BeginsWith
    <3>2. CASE r.base # <<>>
      <4>1. r.var = o.var /\ IsPrefix(r.base, a.base)
        BY <2>4, <2>7, <3>2 DEF BeginsWith
      <4>2. IsPrefix(o.base, r.base) \/ IsPrefix(r.base, o.base)
        BY <2>3, <2>4, <4>1, PrefixesOfOne
      <4> QED
        BY <2>4, <3>2, <4>1, <4>2 DEF BeginsWith
    <3> QED
      BY <3>1, <3>2
  <2> QED
    BY <1>3, <2>6, <2>7
<1>4. WithinWritable(p, r) => WithinWritable(q, r)
  BY <1>3 DEF WithinWritable
<1> QED
  BY <1>2, <1>4

LEMMA MandatoriesTrimmed ==
  ASSUME NEW p, NEW q, Trimmed(q, p)
  PROVE  /\ MandatoryRead(q) = MandatoryRead(p) /\ MandatoryWrite(q) = MandatoryWrite(p)
         /\ MandatoryBoth(q) = MandatoryBoth(p)
         /\ MandatoryWrite(q) \ Rules(q, "allow_read") = MandatoryWrite(p) \ Rules(p, "allow_read")
<1>1. \A l \in {"allow_read", "allow_write"} : Leaner(Rules(q, l), Rules(p, l))
  BY DEF Trimmed, AllowLists
<1>2. On(q, "git_config") = On(p, "git_config") /\ On(p, "git_config") \in BOOLEAN
  BY DEF On, Trimmed
<1>3. \A l \in {"allow_read", "allow_write"} : Mandatory(q, l) = Mandatory(p, l)
  BY <1>1, <1>2, MandatoryTrimmed DEF Mandatory
<1>4. MandatoryWrite(p) = MandatoryDeny(Rules(p, "allow_write"), On(p, "git_config"))
  BY DEF MandatoryWrite, Mandatory
<1>5. MandatoryWrite(p) \ Rules(q, "allow_read") = MandatoryWrite(p) \ Rules(p, "allow_read")
  BY <1>1, <1>2, <1>4, MandatoryTrimmed
<1> QED
  BY <1>3, <1>5 DEF MandatoryRead, MandatoryWrite, MandatoryBoth

LEMMA LandlockStaysDenied ==
  ASSUME NEW p, NEW q, NEW disk, Trimmed(q, p), PolicyOfRules(p), <<>> \notin {Home, Cwd, Tmp}
  PROVE  LandlockDenials(q, disk) = LandlockDenials(p, disk)
<1>1. Rules(q, "deny_read") = Rules(p, "deny_read") /\ Rules(q, "deny_write") = Rules(p, "deny_write")
  BY DEF Trimmed
<1>2. \A r \in Rules(p, "deny_write") : IsRule(r)
  BY ExpandedRules DEF PathLists, Lists
<1>3. \A r \in Rules(p, "deny_write") : WithinWritable(q, r) <=> WithinWritable(p, r)
  BY <1>2, WritableTrimmed
<1> DEFINE deny(mode, rules) ==
             {[path |-> x, mode |-> mode] : x \in UNION {LandlockDenied(disk, s) : s \in rules}}
           reads == {s \in Rules(p, "deny_read") : ~IsProc(s)}
           writes(z) == {s \in Rules(p, "deny_write") : ~IsProc(s) /\ WithinWritable(z, s)}
<1>4. writes(q) = writes(p)
  BY <1>3
<1>5. ASSUME NEW z, Rules(z, "deny_read") = Rules(p, "deny_read"), Rules(z, "deny_write") = Rules(p, "deny_write"),
             MandatoryRead(z) = MandatoryRead(p), MandatoryWrite(z) = MandatoryWrite(p),
             MandatoryBoth(z) = MandatoryBoth(p)
      PROVE  LandlockDenials(z, disk) =
               deny({"read"}, reads) \cup deny({"write"}, writes(z))
               \cup deny({"read", "write"}, MandatoryBoth(p))
               \cup deny({"read"}, MandatoryRead(p) \ MandatoryBoth(p))
               \cup deny({"write"}, MandatoryWrite(p) \ MandatoryBoth(p))
  BY <1>5, Zenon DEF LandlockDenials
<1> HIDE DEF deny, reads, writes
<1> QED
  BY <1>1, <1>4, <1>5, MandatoriesTrimmed

LEMMA LandlockTrimmed ==
  ASSUME NEW p, NEW q, NEW disk, DiskOfPaths(disk), Trimmed(q, p), PolicyOfRules(p), <<>> \notin {Home, Cwd, Tmp},
         NEW op \in {"read", "write", "exec"}, NEW path, IsPath(path)
  PROVE  LandlockPermits(LandlockPolicy(p, disk), op, path) <=> LandlockPermits(LandlockPolicy(q, disk), op, path)
<1> DEFINE P == LandlockPolicy(p, disk)
           Q == LandlockPolicy(q, disk)
<1>1. P.allow = LandlockRules(p, disk) /\ Q.allow = LandlockRules(q, disk)
  BY DEF LandlockPolicy
<1>2. P.deny = Q.deny
  <2>1. P.deny = LandlockDenials(p, disk) /\ Q.deny = LandlockDenials(q, disk)
    BY DEF LandlockPolicy
  <2> QED
    BY <2>1, LandlockStaysDenied
<1>3. P.noExec = Q.noExec
  <2>1. /\ P.noExec = UNION {LandlockDenied(disk, r) : r \in Rules(p, "deny_exec")}
        /\ Q.noExec = UNION {LandlockDenied(disk, r) : r \in Rules(q, "deny_exec")}
    BY DEF LandlockPolicy
  <2> QED
    BY <2>1 DEF Trimmed
<1>4. (\E e \in P.allow : IsPrefix(e.path, path) /\ op \in e.access)
        <=> (\E e \in Q.allow : IsPrefix(e.path, path) /\ op \in e.access)
  BY <1>1, LandlockOpenTo, LandlockStaysOpen
<1> HIDE DEF P, Q
<1>5. LandlockPermits(P, op, path) <=> LandlockPermits(Q, op, path)
  BY <1>2, <1>3, <1>4 DEF LandlockPermits
<1> QED
  BY <1>5 DEF P, Q

-----------------------------------------------------------------------------
(* Lists that are alike, place by place                                     *)

Alike(s, t, V, R) ==
  /\ s \in Seq(V) /\ t \in Seq(V) /\ Len(s) = Len(t)
  /\ \A i \in 1..Len(s) : <<s[i], t[i]>> \in R

LEMMA AlikeJoined ==
  ASSUME NEW V, NEW R, NEW a, NEW b, NEW c, NEW d, Alike(a, b, V, R), Alike(c, d, V, R)
  PROVE  Alike(a \o c, b \o d, V, R)
<1> DEFINE m == Len(a)
           n == Len(c)
<1>1. /\ a \in Seq(V) /\ b \in Seq(V) /\ Len(b) = m /\ c \in Seq(V) /\ d \in Seq(V) /\ Len(d) = n
      /\ m \in Nat /\ n \in Nat /\ Len(a) = m /\ Len(c) = n
  BY LenProperties DEF Alike
<1>2. (\A i \in 1..m : <<a[i], b[i]>> \in R) /\ (\A i \in 1..n : <<c[i], d[i]>> \in R)
  BY DEF Alike
<1> HIDE DEF m, n
<1>3. Joined(a \o c, V, a, c, m, n) /\ Joined(b \o d, V, b, d, m, n)
  BY <1>1, JoinAt, Zenon
<1> DEFINE s == a \o c
           t == b \o d
<1>4. Joined(s, V, a, c, m, n) /\ Joined(t, V, b, d, m, n)
  BY <1>3
<1> HIDE DEF s, t
<1>5. ASSUME NEW i \in 1..(m + n) PROVE <<s[i], t[i]>> \in R
  <2>1. CASE i <= m
    <3>1. i \in 1..m
      BY <2>1
    <3> QED
      BY <1>2, <1>4, <3>1 DEF Joined
  <2>2. CASE ~(i <= m)
    <3>1. i - m \in 1..n /\ m + (i - m) = i
      BY <1>1, <2>2
    <3>2. s[m + (i - m)] = c[i - m] /\ t[m + (i - m)] = d[i - m]
      BY <1>4, <3>1, Zenon DEF Joined
    <3>3. s[i] = c[i - m] /\ t[i] = d[i - m]
      BY <3>1, <3>2, Zenon
    <3>4. <<c[i - m], d[i - m]>> \in R
      BY <1>2, <3>1, Zenon
    <3> QED
      BY <3>3, <3>4, Zenon
  <2> QED
    BY <2>1, <2>2
<1>6. Alike(s, t, V, R)
  BY <1>4, <1>5 DEF Alike, Joined
<1> QED
  BY <1>6 DEF s, t

-----------------------------------------------------------------------------
(* Seatbelt, without the rules that may go                                  *)

\* What a rule is about, the one that shadows it is about.
LEMMA ShadeMatches ==
  ASSUME NEW r, NEW o, IsRule(r), IsRule(o), Shades(o, r), NEW path, IsPath(path)
  PROVE  /\ Matches(r, path) => Matches(o, path)
         /\ r.var = "/" /\ r.tail = <<>> /\ path = r.base => Matches(o, path)
<1>1. /\ o.deep /\ o.tail = <<>> /\ o.var = r.var /\ (o.base # <<>> \/ o.var = "/")
      /\ IsPrefix(o.base, r.base) /\ (r.base = o.base => r.tail # <<>>)
  BY DEF Shades
<1>2. IsPath(o.base) /\ IsPath(r.base) /\ IsPath(r.tail)
  BY DEF IsRule
<1>3. Begins(o.base, r.base) /\ Len(o.base) \in Nat /\ Len(r.base) \in Nat /\ Len(path) \in Nat /\ Len(r.tail) \in Nat
  BY <1>1, <1>2, PrefixBegins DEF IsPath
<1>4. ASSUME o.var = "/", IsPrefix(r.base, path), Len(path) > Len(o.base) PROVE Matches(o, path)
  <2>1. IsPrefix(o.base, path)
    BY <1>1, <1>2, <1>4, PrefixOfPrefix
  <2>2. Rest(o.base, path) # <<>>
    <3>1. Len(Rest(o.base, path)) = Len(path) - Len(o.base)
      BY <1>2, <2>1, RestOfPath
    <3>2. Len(Rest(o.base, path)) > 0
      BY <1>3, <1>4, <3>1
    <3> QED
      BY <3>2, EmptyPath
  <2> QED
    BY <1>1, <1>4, <2>1, <2>2 DEF Matches, IsGlob
<1>5. ASSUME Matches(r, path) PROVE Matches(o, path)
  <2>1. IsPrefix(r.base, path) /\ (r.var = "/" \/ r.base = <<>>)
    BY <1>5 DEF Matches
  <2>2. o.var = "/"
    <3>1. CASE r.base = <<>>
      <4>1. Len(o.base) = 0
        BY <1>3, <3>1, EmptyPath DEF Begins
      <4>2. o.base = <<>>
        BY <1>2, <4>1, EmptyPath
      <4> QED
        BY <1>1, <4>2
    <3> QED
      BY <1>1, <2>1, <3>1
  <2>3. Begins(r.base, path) /\ Len(o.base) <= Len(r.base) /\ Len(r.base) <= Len(path)
    BY <1>2, <1>3, <2>1, PrefixBegins DEF Begins
  <2>4. Len(path) # Len(o.base)
    <3> SUFFICES ASSUME Len(path) = Len(o.base) PROVE FALSE
      OBVIOUS
    <3>1. Len(o.base) = Len(r.base) /\ Len(path) = Len(r.base)
      BY <1>3, <2>3
    <3>2. r.base = o.base
      BY <1>2, <1>3, <3>1, PathsEqual DEF Begins
    <3>3. Len(r.tail) > 0
      BY <1>1, <1>2, <3>2, EmptyPath
    <3>4. Len(Rest(r.base, path)) = 0
      BY <1>2, <1>3, <2>1, <3>1, RestOfPath
    <3>5. r.tail # <<>>
      BY <1>1, <3>2
    <3>6. CASE r.deep
      <4>1. Len(Rest(r.base, path)) >= Len(r.tail)
        BY <1>5, <3>5, <3>6 DEF Matches, IsGlob
      <4> QED
        BY <1>3, <3>3, <3>4, <4>1
    <3>7. CASE ~r.deep
      <4>1. Fits(r.tail, Rest(r.base, path))
        BY <1>5, <3>5, <3>7 DEF Matches, IsGlob
      <4> QED
        BY <1>3, <3>3, <3>4, <4>1 DEF Fits
    <3> QED
      BY <3>6, <3>7
  <2>5. Len(path) > Len(o.base)
    BY <1>3, <2>3, <2>4
  <2> QED
    BY <1>4, <2>1, <2>2, <2>5
<1>6. ASSUME r.var = "/", r.tail = <<>>, path = r.base PROVE Matches(o, path)
  <2>1. o.base # path
    BY <1>1, <1>6
  <2>2. Len(o.base) <= Len(path) /\ Len(o.base) # Len(path)
    BY <1>2, <1>3, <1>6, <2>1, PathsEqual DEF Begins
  <2>3. IsPrefix(r.base, path)
    BY <1>2, <1>6, PrefixOfSelf
  <2> QED
    BY <1>1, <1>3, <1>4, <1>6, <2>2, <2>3
<1> QED
  BY <1>5, <1>6

\* Two verdicts on the same.
Agree(x, y, path) == x.op = y.op /\ x.allow = y.allow /\ (Concerns(x, path) <=> Concerns(y, path))

LEMMA LeanerConcerns ==
  ASSUME NEW S, NEW R, Leaner(S, R), \A r \in R : IsRule(r), NEW path, IsPath(path),
         NEW allow, NEW op, NEW kind, kind \in {"literal", "below"}
  PROVE  Agree(Verdict(allow, op, kind, R), Verdict(allow, op, kind, S), path)
<1> DEFINE about(r) == CASE kind = "literal" -> Matches(r, path) /\ (IsGlob(r) \/ path = r.base)
                         [] kind = "below" ->
                              Matches(r, path) \/ (r.var = "/" /\ r.deep /\ r.tail = <<>> /\ path = r.base)
                         [] OTHER -> Matches(r, path)
<1>1. \A A : Concerns(Verdict(allow, op, kind, A), path) <=> \E r \in A : about(r)
  BY Zenon DEF Concerns, Verdict
<1>2. ASSUME NEW r \in R, about(r), r \notin S PROVE \E o \in S : about(o)
  <2>1. PICK o \in S : Shades(o, r)
    BY <1>2 DEF Leaner
  <2>2. IsRule(r) /\ IsRule(o)
    BY <2>1 DEF Leaner
  <2>3. o.deep
    BY <2>1 DEF Shades
  <2>4. Matches(o, path)
    BY <1>2, <2>1, <2>2, ShadeMatches
  <2>5. about(o)
    BY <2>3, <2>4 DEF IsGlob
  <2> QED
    BY <2>5
<1> HIDE DEF about
<1>3. Concerns(Verdict(allow, op, kind, R), path) <=> Concerns(Verdict(allow, op, kind, S), path)
  BY <1>1, <1>2 DEF Leaner
<1>4. \A A : Verdict(allow, op, kind, A).op = op /\ Verdict(allow, op, kind, A).allow = allow
  BY DEF Verdict
<1> QED
  BY <1>3, <1>4, Zenon DEF Agree

LEMMA SeatbeltTrimmed ==
  ASSUME NEW p, NEW q, Trimmed(q, p), PolicyOfRules(p), NEW op, NEW path, IsPath(path)
  PROVE  SeatbeltPermits(SeatbeltPolicy(p), op, path) <=> SeatbeltPermits(SeatbeltPolicy(q), op, path)
<1> DEFINE same(x, y) == Agree(x, y, path)
           sets(f) == {f[i] : i \in DOMAIN f}
           V == UNION {sets(f) : f \in {SeatbeltSystem, SeatbeltAllowances(p), SeatbeltAllowances(q),
                                        SeatbeltDenials(p), SeatbeltPrograms(p), SeatbeltPrograms(q),
                                        SeatbeltTerminals(p)}}
           R == {v \in V \X V : same(v[1], v[2])}
<1>1. \A l \in AllowLists : Leaner(Rules(q, l), Rules(p, l)) /\ \A r \in Rules(p, l) : IsRule(r)
  BY ExpandedRules DEF Trimmed, AllowLists, PathLists, Lists
<1>2. ASSUME NEW x \in V, NEW y \in V, same(x, y) PROVE <<x, y>> \in R
  <2> HIDE DEF V
  <2> QED
    BY <1>2
<1>3. ASSUME NEW f, f \in {SeatbeltSystem, SeatbeltAllowances(p), SeatbeltAllowances(q),
                           SeatbeltDenials(p), SeatbeltPrograms(p), SeatbeltPrograms(q),
                           SeatbeltTerminals(p)},
             NEW n, n \in Nat, Len(f) = n, DOMAIN f = 1..n, f = [i \in 1..n |-> f[i]]
      PROVE  f \in Seq(V) /\ \A i \in 1..n : f[i] \in V
  <2>1. \A i \in 1..n : f[i] \in V
    BY <1>3
  <2> HIDE DEF V
  <2>2. IsPath(f)
    BY <1>3 DEF IsPath
  <2> QED
    BY <1>3, <2>1, <2>2, PathIsSeq
<1>4. /\ SeatbeltDenials(q) = SeatbeltDenials(p) /\ SeatbeltTerminals(q) = SeatbeltTerminals(p)
  <2>1. Rules(q, "deny_read") = Rules(p, "deny_read") /\ Rules(q, "deny_write") = Rules(p, "deny_write")
    BY DEF Trimmed
  <2>2. On(q, "pty") = On(p, "pty")
    BY DEF On, Trimmed
  <2> QED
    BY <2>1, <2>2, MandatoriesTrimmed DEF SeatbeltDenials, SeatbeltTerminals
<1>5. ASSUME NEW f, f \in {SeatbeltSystem, SeatbeltDenials(p), SeatbeltTerminals(p)}, NEW n, n \in Nat,
             Len(f) = n, DOMAIN f = 1..n, f = [i \in 1..n |-> f[i]]
      PROVE  Alike(f, f, V, R)
  <2>1. f \in Seq(V) /\ \A i \in 1..n : f[i] \in V
    BY <1>3, <1>5
  <2> HIDE DEF V
  <2>2. \A i \in 1..n : <<f[i], f[i]>> \in R
    <3>1. \A x : same(x, x)
      BY DEF Agree
    <3> HIDE DEF same, R
    <3> QED
      BY <1>2, <2>1, <3>1
  <2> HIDE DEF R
  <2> QED
    BY <1>5, <2>1, <2>2 DEF Alike
<1>6. Alike(SeatbeltSystem, SeatbeltSystem, V, R)
  <2>1. /\ Len(SeatbeltSystem) = 2 /\ DOMAIN SeatbeltSystem = 1..2
        /\ SeatbeltSystem = [i \in 1..2 |-> SeatbeltSystem[i]]
    BY DEF SeatbeltSystem
  <2> HIDE DEF V, R
  <2> QED
    BY <1>5, <2>1
<1>7. Alike(SeatbeltDenials(p), SeatbeltDenials(p), V, R)
  <2>1. /\ Len(SeatbeltDenials(p)) = 4 /\ DOMAIN SeatbeltDenials(p) = 1..4
        /\ SeatbeltDenials(p) = [i \in 1..4 |-> SeatbeltDenials(p)[i]]
    BY DEF SeatbeltDenials
  <2> HIDE DEF V, R
  <2> QED
    BY <1>5, <2>1
<1>8. Alike(SeatbeltTerminals(p), SeatbeltTerminals(p), V, R)
  <2>1. \E n \in Nat : /\ Len(SeatbeltTerminals(p)) = n /\ DOMAIN SeatbeltTerminals(p) = 1..n
                       /\ SeatbeltTerminals(p) = [i \in 1..n |-> SeatbeltTerminals(p)[i]]
    <3>1. CASE On(p, "pty")
      <4>1. /\ Len(SeatbeltTerminals(p)) = 2 /\ DOMAIN SeatbeltTerminals(p) = 1..2
            /\ SeatbeltTerminals(p) = [i \in 1..2 |-> SeatbeltTerminals(p)[i]]
        BY <3>1 DEF SeatbeltTerminals
      <4> QED
        BY <4>1
    <3>2. CASE ~On(p, "pty")
      <4>1. SeatbeltTerminals(p) = <<>>
        BY <3>2 DEF SeatbeltTerminals
      <4>2. Len(<<>>) = 0 /\ DOMAIN <<>> = 1..0 /\ <<>> = [i \in 1..0 |-> <<>>[i]]
        OBVIOUS
      <4> QED
        BY <4>1, <4>2
    <3> QED
      BY <3>1, <3>2
  <2> HIDE DEF V, R
  <2> QED
    BY <1>5, <2>1
<1>9. Alike(SeatbeltAllowances(p), SeatbeltAllowances(q), V, R)
  <2> DEFINE f == SeatbeltAllowances(p)
             g == SeatbeltAllowances(q)
  <2>1. /\ Len(f) = 3 /\ DOMAIN f = 1..3 /\ f = [i \in 1..3 |-> f[i]]
        /\ Len(g) = 3 /\ DOMAIN g = 1..3 /\ g = [i \in 1..3 |-> g[i]]
    BY DEF SeatbeltAllowances
  <2>2. /\ f[1] = Verdict(TRUE, "read", "below", Rules(p, "allow_read"))
        /\ g[1] = Verdict(TRUE, "read", "below", Rules(q, "allow_read"))
        /\ f[3] = Verdict(TRUE, "write", "below", Rules(p, "allow_write"))
        /\ g[3] = Verdict(TRUE, "write", "below", Rules(q, "allow_write"))
    BY DEF SeatbeltAllowances
  <2>3. f[2] = g[2]
    <3>1. p.rules["allow_write"] = {} <=> q.rules["allow_write"] = {}
      BY DEF Trimmed, AllowLists
    <3> QED
      BY <3>1 DEF SeatbeltAllowances
  <2>5. f \in Seq(V) /\ g \in Seq(V) /\ \A i \in 1..3 : f[i] \in V /\ g[i] \in V
    <3>1. f \in Seq(V) /\ \A i \in 1..3 : f[i] \in V
      BY <1>3, <2>1
    <3>2. g \in Seq(V) /\ \A i \in 1..3 : g[i] \in V
      BY <1>3, <2>1
    <3> QED
      BY <3>1, <3>2
  <2>6. same(f[1], g[1]) /\ same(f[2], g[2]) /\ same(f[3], g[3])
    <3> HIDE DEF f, g
    <3>1. same(f[1], g[1])
      <4>1. Leaner(Rules(q, "allow_read"), Rules(p, "allow_read")) /\ \A r \in Rules(p, "allow_read") : IsRule(r)
        BY <1>1 DEF AllowLists
      <4> QED
        BY <2>2, <4>1, LeanerConcerns
    <3>2. same(f[3], g[3])
      <4>1. Leaner(Rules(q, "allow_write"), Rules(p, "allow_write")) /\ \A r \in Rules(p, "allow_write") : IsRule(r)
        BY <1>1 DEF AllowLists
      <4> QED
        BY <2>2, <4>1, LeanerConcerns
    <3> QED
      BY <2>3, <3>1, <3>2 DEF Agree
  <2> HIDE DEF f, g, V, same
  <2>7. <<f[1], g[1]>> \in R /\ <<f[2], g[2]>> \in R /\ <<f[3], g[3]>> \in R
    BY <1>2, <2>5, <2>6
  <2>8. \A i \in 1..3 : i = 1 \/ i = 2 \/ i = 3
    OBVIOUS
  <2> HIDE DEF R
  <2> QED
    BY <2>1, <2>5, <2>7, <2>8 DEF Alike, f, g
<1>10. Alike(SeatbeltPrograms(p), SeatbeltPrograms(q), V, R)
  <2> DEFINE f == SeatbeltPrograms(p)
             g == SeatbeltPrograms(q)
  <2>1. /\ Len(f) = 2 /\ DOMAIN f = 1..2 /\ f = [i \in 1..2 |-> f[i]]
        /\ Len(g) = 2 /\ DOMAIN g = 1..2 /\ g = [i \in 1..2 |-> g[i]]
    BY DEF SeatbeltPrograms
  <2>2. /\ f[1] = Verdict(TRUE, "exec", "literal", Rules(p, "allow_exec"))
        /\ g[1] = Verdict(TRUE, "exec", "literal", Rules(q, "allow_exec"))
    BY DEF SeatbeltPrograms
  <2>3. f[2] = g[2]
    <3>1. Rules(q, "deny_exec") = Rules(p, "deny_exec")
      BY DEF Trimmed
    <3> QED
      BY <3>1 DEF SeatbeltPrograms
  <2>5. f \in Seq(V) /\ g \in Seq(V) /\ \A i \in 1..2 : f[i] \in V /\ g[i] \in V
    <3>1. f \in Seq(V) /\ \A i \in 1..2 : f[i] \in V
      BY <1>3, <2>1
    <3>2. g \in Seq(V) /\ \A i \in 1..2 : g[i] \in V
      BY <1>3, <2>1
    <3> QED
      BY <3>1, <3>2
  <2>6. same(f[1], g[1]) /\ same(f[2], g[2])
    <3> HIDE DEF f, g
    <3>1. same(f[1], g[1])
      <4>1. Leaner(Rules(q, "allow_exec"), Rules(p, "allow_exec")) /\ \A r \in Rules(p, "allow_exec") : IsRule(r)
        BY <1>1 DEF AllowLists
      <4> QED
        BY <2>2, <4>1, LeanerConcerns
    <3> QED
      BY <2>3, <3>1 DEF Agree
  <2> HIDE DEF f, g, V, same
  <2>7. <<f[1], g[1]>> \in R /\ <<f[2], g[2]>> \in R
    BY <1>2, <2>5, <2>6
  <2>8. \A i \in 1..2 : i = 1 \/ i = 2
    OBVIOUS
  <2> HIDE DEF R
  <2> QED
    BY <2>1, <2>5, <2>7, <2>8 DEF Alike, f, g
<1> DEFINE P == SeatbeltPolicy(p)
           Q == SeatbeltPolicy(q)
<1>11. /\ P.rules = SeatbeltSystem \o SeatbeltAllowances(p) \o SeatbeltDenials(p)
                      \o SeatbeltPrograms(p) \o SeatbeltTerminals(p)
       /\ Q.rules = SeatbeltSystem \o SeatbeltAllowances(q) \o SeatbeltDenials(p)
                      \o SeatbeltPrograms(q) \o SeatbeltTerminals(p)
  BY <1>4 DEF SeatbeltPolicy
<1>12. \A v \in R : same(v[1], v[2])
  <2> HIDE DEF V
  <2> QED
    OBVIOUS
<1> HIDE DEF V, R, P, Q
<1>13. Alike(P.rules, Q.rules, V, R)
  BY <1>6, <1>7, <1>8, <1>9, <1>10, <1>11, AlikeJoined
<1>14. /\ DOMAIN P.rules = DOMAIN Q.rules
       /\ \A n \in DOMAIN P.rules : same(P.rules[n], Q.rules[n])
  <2>1. /\ DOMAIN P.rules = 1..Len(P.rules) /\ DOMAIN Q.rules = 1..Len(Q.rules) /\ Len(P.rules) = Len(Q.rules)
        /\ \A i \in 1..Len(P.rules) : <<P.rules[i], Q.rules[i]>> \in R
    BY <1>13, LenProperties DEF Alike
  <2>2. \A x, y : <<x, y>> \in R => same(x, y)
    <3> SUFFICES ASSUME NEW x, NEW y, <<x, y>> \in R PROVE same(x, y)
      OBVIOUS
    <3>1. same(<<x, y>>[1], <<x, y>>[2])
      BY <1>12
    <3> QED
      BY <3>1
  <2> HIDE DEF same
  <2> QED
    BY <2>1, <2>2
<1> DEFINE about(z) == {n \in DOMAIN z.rules : z.rules[n].op = op /\ Concerns(z.rules[n], path)}
<1>15. about(P) = about(Q)
  BY <1>14 DEF Agree
<1>16. \A n \in about(P) : P.rules[n].allow = Q.rules[n].allow
  BY <1>14 DEF Agree
<1>17. ASSUME NEW z
       PROVE  SeatbeltPermits(z, op, path) <=>
                about(z) # {} /\ z.rules[CHOOSE k \in about(z) : \A l \in about(z) : l <= k].allow
  BY Zenon DEF SeatbeltPermits
<1>18. about(P) \subseteq 1..Len(P.rules) /\ Len(P.rules) \in Nat
  BY <1>13, LenProperties DEF Alike
<1> HIDE DEF about
<1>19. about(P) # {} => (CHOOSE k \in about(P) : \A l \in about(P) : l <= k) \in about(P)
  <2> SUFFICES ASSUME about(P) # {} PROVE (CHOOSE k \in about(P) : \A l \in about(P) : l <= k) \in about(P)
    OBVIOUS
  <2>1. \E k \in about(P) : \A l \in about(P) : l <= k
    BY <1>18, GreatestNumber
  <2> QED
    BY <2>1
<1>20. SeatbeltPermits(P, op, path) <=> SeatbeltPermits(Q, op, path)
  BY <1>15, <1>16, <1>17, <1>19
<1> QED
  BY <1>20 DEF P, Q

-----------------------------------------------------------------------------
(* Bubblewrap, without the rules that may go                                *)

CoversPath(mounts, path) == \E m \in mounts : IsPrefix(m.at, path)
LetsPass(mounts, op, path) == \A m \in mounts : IsPrefix(m.at, path) => op \in Grants[m.kind]

\* Two layers that leave a path alike.
MountAlike(x, y, op, path) ==
  (CoversPath(x, path) <=> CoversPath(y, path)) /\ (LetsPass(x, op, path) <=> LetsPass(y, op, path))

LEMMA OfOneKind ==
  ASSUME NEW x, NEW y, NEW kind, NEW op, NEW path, y \subseteq x, \A m \in x : m.kind = kind,
         CoversPath(x, path) => CoversPath(y, path)
  PROVE  MountAlike(x, y, op, path)
BY DEF MountAlike, CoversPath, LetsPass

\* Where a rule is mounted, that is not relative.
LEMMA MountIsFound ==
  ASSUME NEW disk, NEW r, IsGlob(r) \/ r.var = "/", NEW q
  PROVE  q \in (IF IsGlob(r) THEN BwrapExpand(disk, r, GlobDepth) ELSE {r.base}) <=> q \in LandlockExpand(disk, r)
BY DEF BwrapExpand, LandlockExpand, Absolute

LEMMA ReadsTrimmed ==
  ASSUME NEW disk, DiskOfPaths(disk), NEW S, NEW R, Leaner(S, R), \A r \in R : IsRule(r),
         <<>> \notin {Home, Cwd, Tmp}, asked.driver = "bubblewrap",
         NEW op, NEW path, IsPath(path)
  PROVE  MountAlike(UNION {ReadRule(disk, r) : r \in R}, UNION {ReadRule(disk, r) : r \in S}, op, path)
<1> DEFINE x == UNION {ReadRule(disk, r) : r \in R}
           y == UNION {ReadRule(disk, r) : r \in S}
<1>1. y \subseteq x
  BY DEF Leaner
<1>2. ASSUME NEW m \in x PROVE m.kind = "ro"
  <2>1. PICK r \in R : m \in ReadRule(disk, r)
    OBVIOUS
  <2>2. \E paths : ReadRule(disk, r) = Mounts("ro", paths)
    BY Zenon DEF ReadRule
  <2> QED
    BY <2>1, <2>2, MountsOf
<1>3. ASSUME CoversPath(x, path) PROVE CoversPath(y, path)
  <2>1. PICK r \in R : \E m \in ReadRule(disk, r) : IsPrefix(m.at, path)
    BY <1>3 DEF CoversPath
  <2>2. CASE r \in S
    BY <2>1, <2>2 DEF CoversPath
  <2>3. CASE r \notin S
    <3>1. PICK o \in S : Shades(o, r)
      BY <2>3 DEF Leaner
    <3>2. IsRule(r) /\ IsRule(o) /\ o.base # <<>> /\ IsGlob(o)
      BY <3>1 DEF Leaner, Shades, IsGlob
    <3>3. IsGlob(r) \/ r.var = "/"
      BY <2>3 DEF Leaner, CountsAnyway
    <3>4. PICK m \in ReadRule(disk, r) : IsPrefix(m.at, path)
      BY <2>1
    <3>5. m.at \in LandlockExpand(disk, r)
      BY <3>3, <3>4, MountsOf, MountIsFound DEF ReadRule
    <3>6. Absolute(o) \in LandlockExpand(disk, o) /\ IsPrefix(Absolute(o), m.at) /\ IsPath(m.at)
      BY <3>1, <3>2, <3>5, ShadeFinds
    <3>7. IsPath(Absolute(o))
      BY <3>1, <3>2, AbsolutePaths DEF Shades
    <3>8. IsPrefix(Absolute(o), path)
      BY <3>4, <3>6, <3>7, PrefixOfPrefix
    <3>9. [at |-> Absolute(o), kind |-> "ro"] \in ReadRule(disk, o)
      BY <3>2, <3>6, MountIsFound DEF ReadRule, Mounts
    <3>10. [at |-> Absolute(o), kind |-> "ro"] \in y
      BY <3>9
    <3> HIDE DEF y
    <3> QED
      BY <3>8, <3>10 DEF CoversPath
  <2> QED
    BY <2>2, <2>3
<1> HIDE DEF x, y
<1>4. MountAlike(x, y, op, path)
  BY <1>1, <1>2, <1>3, OfOneKind
<1> QED
  BY <1>4 DEF x, y

\* What is mounted for a path that a rule to write has found.
Creatable(disk, q) == IF Exists(disk, q) \/ Len(q) <= 1 THEN q ELSE Front(q)

LEMMA WriteMounts ==
  ASSUME NEW disk, NEW r, IsGlob(r) \/ r.var = "/", NEW m
  PROVE  /\ m \in WriteRule(disk, r) => /\ m.kind = "rw"
                                        /\ \E q \in LandlockExpand(disk, r) : m.at \in {q, Creatable(disk, q)}
         /\ IsGlob(r) => \A q \in LandlockExpand(disk, r) : [at |-> Creatable(disk, q), kind |-> "rw"] \in WriteRule(disk, r)
<1> DEFINE ps == IF IsGlob(r) THEN {Creatable(disk, q) : q \in BwrapExpand(disk, r, GlobDepth)} ELSE {r.base}
<1>1. WriteRule(disk, r) = Mounts("rw", ps)
  BY Zenon DEF WriteRule, Creatable
<1>2. \A q : q \in (IF IsGlob(r) THEN BwrapExpand(disk, r, GlobDepth) ELSE {r.base}) <=> q \in LandlockExpand(disk, r)
  BY MountIsFound
<1>3. CASE IsGlob(r)
  <2>1. ps = {Creatable(disk, q) : q \in LandlockExpand(disk, r)}
    BY <1>2, <1>3
  <2>2. ASSUME m \in WriteRule(disk, r)
        PROVE  m.kind = "rw" /\ \E q \in LandlockExpand(disk, r) : m.at \in {q, Creatable(disk, q)}
    <3>1. m.kind = "rw" /\ m.at \in ps
      <4> HIDE DEF ps
      <4> QED
        BY <1>1, <2>2, MountsOf
    <3> QED
      BY <2>1, <3>1
  <2>3. ASSUME NEW q \in LandlockExpand(disk, r) PROVE [at |-> Creatable(disk, q), kind |-> "rw"] \in WriteRule(disk, r)
    <3>1. Creatable(disk, q) \in ps
      BY <2>1
    <3> HIDE DEF ps
    <3> QED
      BY <1>1, <3>1 DEF Mounts
  <2> QED
    BY <2>2, <2>3
<1>4. CASE ~IsGlob(r)
  <2>1. ps = {r.base} /\ r.base \in LandlockExpand(disk, r)
    BY <1>2, <1>4
  <2>2. ASSUME m \in WriteRule(disk, r) PROVE m.kind = "rw" /\ m.at = r.base
    <3>1. m \in Mounts("rw", {r.base})
      BY <1>1, <2>1, <2>2
    <3> QED
      BY <3>1, MountsOf
  <2> QED
    BY <1>4, <2>1, <2>2
<1> QED
  BY <1>3, <1>4

\* What is created beneath another is not mounted above it.
LEMMA CreatableBeneath ==
  ASSUME NEW disk, DiskOfPaths(disk), NEW a, NEW b, IsPath(a), IsPath(b), IsPrefix(a, b),
         NEW at, at \in {b, Creatable(disk, b)}
  PROVE  IsPath(Creatable(disk, a)) /\ IsPath(at) /\ IsPrefix(Creatable(disk, a), at)
<1>1. Len(a) \in Nat /\ Len(b) \in Nat /\ Begins(a, b)
  BY PrefixBegins DEF IsPath
<1>2. ASSUME NEW s, IsPath(s), Len(s) > 1
      PROVE  IsPath(Front(s)) /\ Len(Front(s)) = Len(s) - 1 /\ \A i \in 1..(Len(s) - 1) : Front(s)[i] = s[i]
  <2> DEFINE n == Len(s) - 1
  <2>1. n \in Nat /\ 1 <= n + 1 /\ n <= Len(s)
    BY <1>2 DEF IsPath
  <2>2. Front(s) = SubSeq(s, 1, n)
    BY DEF Front
  <2> HIDE DEF n
  <2>3. /\ IsPath(Front(s)) /\ Len(Front(s)) = n - 1 + 1
        /\ \A i \in 1..(n - 1 + 1) : Front(s)[i] = s[1 + i - 1]
    BY <1>2, <2>1, <2>2, PartOfPath
  <2>4. n - 1 + 1 = n /\ \A i \in 1..n : 1 + i - 1 = i
    BY <2>1
  <2>5. IsPath(Front(s)) /\ Len(Front(s)) = n /\ \A i \in 1..n : Front(s)[i] = s[i]
    BY <2>3, <2>4
  <2> QED
    BY <2>5 DEF n
<1>3. ASSUME NEW s, IsPath(s), NEW t, t \in {s, Creatable(disk, s)}
      PROVE  IsPath(t) /\ Begins(t, s) /\ Len(t) \in Nat /\ (t = s \/ (Len(t) = Len(s) - 1 /\ Len(s) > 1))
  <2>1. CASE t = s
    BY <1>3, <2>1 DEF Begins, IsPath
  <2>2. CASE t # s
    <3>1. t = Front(s) /\ Len(s) > 1
      BY <1>3, <2>2 DEF Creatable, IsPath
    <3>2. IsPath(t) /\ Len(t) = Len(s) - 1 /\ \A i \in 1..(Len(s) - 1) : t[i] = s[i]
      BY <1>2, <1>3, <3>1
    <3> QED
      BY <1>3, <3>1, <3>2 DEF Begins, IsPath
  <2> QED
    BY <2>1, <2>2
<1> DEFINE c == Creatable(disk, a)
<1>4. IsPath(c) /\ Begins(c, a) /\ Len(c) \in Nat /\ (c = a \/ (Len(c) = Len(a) - 1 /\ Len(a) > 1))
  BY <1>3
<1>5. IsPath(at) /\ Begins(at, b) /\ Len(at) \in Nat /\ (at = b \/ (Len(at) = Len(b) - 1 /\ Len(b) > 1))
  BY <1>3
<1>6. Len(c) <= Len(at)
  <2>1. CASE at = b
    BY <1>1, <1>4, <2>1 DEF Begins
  <2>2. CASE at # b
    <3>1. at = Creatable(disk, b) /\ ~Exists(disk, b) /\ Len(b) > 1 /\ Len(at) = Len(b) - 1
      BY <1>5, <2>2 DEF Creatable
    <3>2. CASE c # a
      BY <1>1, <1>4, <3>1, <3>2 DEF Begins
    <3>3. CASE c = a /\ a = b
      BY <2>2, <3>1, <3>3
    <3>4. CASE c = a /\ a # b
      <4>1. Len(a) # Len(b)
        BY <1>1, <3>4, PathsEqual DEF Begins
      <4> QED
        BY <1>1, <3>1, <3>4, <4>1 DEF Begins
    <3> QED
      BY <3>2, <3>3, <3>4
  <2> QED
    BY <2>1, <2>2
<1>7. Begins(c, at)
  BY <1>1, <1>4, <1>5, <1>6 DEF Begins
<1> QED
  BY <1>4, <1>5, <1>7, PrefixBegins

LEMMA WritesTrimmed ==
  ASSUME NEW disk, DiskOfPaths(disk), NEW S, NEW R, Leaner(S, R), \A r \in R : IsRule(r),
         <<>> \notin {Home, Cwd, Tmp}, asked.driver = "bubblewrap",
         NEW op, NEW path, IsPath(path)
  PROVE  MountAlike(UNION {WriteRule(disk, r) : r \in R}, UNION {WriteRule(disk, r) : r \in S}, op, path)
<1> DEFINE x == UNION {WriteRule(disk, r) : r \in R}
           y == UNION {WriteRule(disk, r) : r \in S}
<1>1. y \subseteq x
  BY DEF Leaner
<1>2. ASSUME NEW m \in x PROVE m.kind = "rw"
  <2>1. PICK r \in R : m \in WriteRule(disk, r)
    OBVIOUS
  <2>2. \E paths : WriteRule(disk, r) = Mounts("rw", paths)
    BY Zenon DEF WriteRule
  <2> QED
    BY <2>1, <2>2, MountsOf
<1>3. ASSUME CoversPath(x, path) PROVE CoversPath(y, path)
  <2>1. PICK r \in R : \E m \in WriteRule(disk, r) : IsPrefix(m.at, path)
    BY <1>3 DEF CoversPath
  <2>2. CASE r \in S
    BY <2>1, <2>2 DEF CoversPath
  <2>3. CASE r \notin S
    <3>1. PICK o \in S : Shades(o, r)
      BY <2>3 DEF Leaner
    <3>2. IsRule(r) /\ IsRule(o) /\ o.base # <<>> /\ IsGlob(o)
      BY <3>1 DEF Leaner, Shades, IsGlob
    <3>3. IsGlob(r) \/ r.var = "/"
      BY <2>3 DEF Leaner, CountsAnyway
    <3>4. PICK m \in WriteRule(disk, r) : IsPrefix(m.at, path)
      BY <2>1
    <3>5. PICK q \in LandlockExpand(disk, r) : m.at \in {q, Creatable(disk, q)}
      BY <3>3, <3>4, WriteMounts
    <3>6. Absolute(o) \in LandlockExpand(disk, o) /\ IsPrefix(Absolute(o), q) /\ IsPath(q)
      BY <3>1, <3>2, <3>5, ShadeFinds
    <3>7. IsPath(Absolute(o))
      BY <3>1, <3>2, AbsolutePaths DEF Shades
    <3> DEFINE c == Creatable(disk, Absolute(o))
    <3>8. IsPath(c) /\ IsPath(m.at) /\ IsPrefix(c, m.at)
      BY <3>5, <3>6, <3>7, CreatableBeneath
    <3>9. [at |-> c, kind |-> "rw"] \in WriteRule(disk, o)
      BY <3>2, <3>6, WriteMounts
    <3> HIDE DEF c
    <3>10. IsPrefix(c, path)
      BY <3>4, <3>8, PrefixOfPrefix
    <3>11. [at |-> c, kind |-> "rw"] \in y
      BY <3>9
    <3> HIDE DEF y
    <3> QED
      BY <3>10, <3>11 DEF CoversPath
  <2> QED
    BY <2>2, <2>3
<1> HIDE DEF x, y
<1>4. MountAlike(x, y, op, path)
  BY <1>1, <1>2, <1>3, OfOneKind
<1> QED
  BY <1>4 DEF x, y

LEMMA BubblewrapTrimmed ==
  ASSUME NEW p, NEW q, NEW disk, DiskOfPaths(disk), Trimmed(q, p), PolicyOfRules(p),
         <<>> \notin {Home, Cwd, Tmp}, asked.driver = "bubblewrap", NEW op, NEW path, IsPath(path)
  PROVE  BwrapPermits(BwrapPolicy(p, disk), op, path) <=> BwrapPermits(BwrapPolicy(q, disk), op, path)
<1> DEFINE same(x, y) == MountAlike(x, y, op, path)
           sets(f) == {f[i] : i \in DOMAIN f}
           parts == {<< BwrapEssential >>, BwrapFilesystem(p, disk), BwrapFilesystem(q, disk),
                     BwrapTerminals(p), BwrapTmpdir}
           V == UNION {sets(f) : f \in parts}
           R == {v \in V \X V : same(v[1], v[2])}
<1>1. \A l \in AllowLists : Leaner(Rules(q, l), Rules(p, l)) /\ \A r \in Rules(p, l) : IsRule(r)
  BY ExpandedRules DEF Trimmed, AllowLists, PathLists, Lists
<1>2. ASSUME NEW x \in V, NEW y \in V, same(x, y) PROVE <<x, y>> \in R
  <2> HIDE DEF V
  <2> QED
    BY <1>2
<1>0. \A x : same(x, x)
  BY DEF MountAlike
<1> HIDE DEF same
<1>3. ASSUME NEW f, f \in parts, NEW n, n \in Nat, Len(f) = n, DOMAIN f = 1..n, f = [i \in 1..n |-> f[i]]
      PROVE  f \in Seq(V) /\ \A i \in 1..n : f[i] \in V
  <2>1. \A i \in 1..n : f[i] \in V
    <3> HIDE DEF parts
    <3> QED
      BY <1>3
  <2> HIDE DEF V, parts
  <2>2. IsPath(f)
    BY <1>3 DEF IsPath
  <2> QED
    BY <1>3, <2>1, <2>2, PathIsSeq
<1>4. BwrapTerminals(q) = BwrapTerminals(p)
  BY DEF On, Trimmed, BwrapTerminals
<1>5. ASSUME NEW f, f \in parts, NEW n, n \in Nat,
             Len(f) = n, DOMAIN f = 1..n, f = [i \in 1..n |-> f[i]]
      PROVE  Alike(f, f, V, R)
  <2> HIDE DEF parts
  <2>1. f \in Seq(V) /\ \A i \in 1..n : f[i] \in V
    BY <1>3, <1>5
  <2> HIDE DEF V
  <2>2. \A i \in 1..n : <<f[i], f[i]>> \in R
    <3> HIDE DEF R
    <3> QED
      BY <1>0, <1>2, <2>1
  <2> HIDE DEF R
  <2> QED
    BY <1>5, <2>1, <2>2 DEF Alike
<1>6. Alike(<< BwrapEssential >>, << BwrapEssential >>, V, R) /\ Alike(BwrapTmpdir, BwrapTmpdir, V, R)
  <2>1. \A x : Len(<<x>>) = 1 /\ DOMAIN <<x>> = 1..1 /\ <<x>> = [i \in 1..1 |-> <<x>>[i]]
    OBVIOUS
  <2>2. \E x : BwrapTmpdir = <<x>>
    BY DEF BwrapTmpdir
  <2>3. << BwrapEssential >> \in parts /\ BwrapTmpdir \in parts
    OBVIOUS
  <2> HIDE DEF V, R, parts
  <2> QED
    BY <1>5, <2>1, <2>2, <2>3
<1>7. Alike(BwrapTerminals(p), BwrapTerminals(p), V, R)
  <2>1. \E n \in Nat : /\ Len(BwrapTerminals(p)) = n /\ DOMAIN BwrapTerminals(p) = 1..n
                       /\ BwrapTerminals(p) = [i \in 1..n |-> BwrapTerminals(p)[i]]
    <3>1. CASE On(p, "pty")
      <4>1. /\ Len(BwrapTerminals(p)) = 1 /\ DOMAIN BwrapTerminals(p) = 1..1
            /\ BwrapTerminals(p) = [i \in 1..1 |-> BwrapTerminals(p)[i]]
        BY <3>1 DEF BwrapTerminals
      <4> QED
        BY <4>1
    <3>2. CASE ~On(p, "pty")
      <4>1. BwrapTerminals(p) = <<>>
        BY <3>2 DEF BwrapTerminals
      <4>2. Len(<<>>) = 0 /\ DOMAIN <<>> = 1..0 /\ <<>> = [i \in 1..0 |-> <<>>[i]]
        OBVIOUS
      <4> QED
        BY <4>1, <4>2
    <3> QED
      BY <3>1, <3>2
  <2>2. BwrapTerminals(p) \in parts
    OBVIOUS
  <2> HIDE DEF V, R, parts
  <2> QED
    BY <1>5, <2>1, <2>2
<1>8. Alike(BwrapFilesystem(p, disk), BwrapFilesystem(q, disk), V, R)
  <2> DEFINE f == BwrapFilesystem(p, disk)
             g == BwrapFilesystem(q, disk)
  <2>1. /\ Len(f) = 7 /\ DOMAIN f = 1..7 /\ f = [i \in 1..7 |-> f[i]]
        /\ Len(g) = 7 /\ DOMAIN g = 1..7 /\ g = [i \in 1..7 |-> g[i]]
    BY DEF BwrapFilesystem
  <2> DEFINE reads(rules) == UNION {ReadRule(disk, r) : r \in rules}
             writes(rules) == UNION {WriteRule(disk, r) : r \in rules}
             denyReads(rules) == UNION {DenyReadRule(disk, r) : r \in rules}
             denyWrites(rules) == UNION {DenyWriteRule(disk, r) : r \in rules}
             denials(rules) == UNION {DenyRule(disk, r) : r \in rules}
             denyExecs(rules) == UNION {DenyExecRule(disk, r) : r \in rules}
             layersOf(h, z) ==
               /\ h[1] = reads(Rules(z, "allow_read")) /\ h[2] = writes(Rules(z, "allow_write"))
               /\ h[3] = denyReads(Rules(z, "deny_read")) /\ h[4] = denyWrites(Rules(z, "deny_write"))
               /\ h[5] = denials(MandatoryWrite(z) \ Rules(z, "allow_read"))
               /\ h[6] = HiddenDirs(disk, MandatoryBoth(z)) /\ h[7] = denyExecs(Rules(z, "deny_exec"))
  <2>2. layersOf(f, p) /\ layersOf(g, q)
    BY DEF BwrapFilesystem
  <2> HIDE DEF reads, writes, denyReads, denyWrites, denials, denyExecs
  <2>3. f[3] = g[3] /\ f[4] = g[4] /\ f[5] = g[5] /\ f[6] = g[6] /\ f[7] = g[7]
    <3>1. /\ Rules(q, "deny_read") = Rules(p, "deny_read") /\ Rules(q, "deny_write") = Rules(p, "deny_write")
          /\ Rules(q, "deny_exec") = Rules(p, "deny_exec")
      BY DEF Trimmed
    <3>2. /\ MandatoryWrite(q) \ Rules(q, "allow_read") = MandatoryWrite(p) \ Rules(p, "allow_read")
          /\ MandatoryBoth(q) = MandatoryBoth(p)
      BY MandatoriesTrimmed
    <3> HIDE DEF f, g
    <3> QED
      BY <2>2, <3>1, <3>2
  <2>4. same(f[1], g[1])
    <3>1. Leaner(Rules(q, "allow_read"), Rules(p, "allow_read")) /\ \A r \in Rules(p, "allow_read") : IsRule(r)
      BY <1>1 DEF AllowLists
    <3>2. MountAlike(reads(Rules(p, "allow_read")), reads(Rules(q, "allow_read")), op, path)
      BY <3>1, ReadsTrimmed DEF reads
    <3> HIDE DEF f, g
    <3> QED
      BY <2>2, <3>2 DEF same
  <2>5. same(f[2], g[2])
    <3>1. Leaner(Rules(q, "allow_write"), Rules(p, "allow_write")) /\ \A r \in Rules(p, "allow_write") : IsRule(r)
      BY <1>1 DEF AllowLists
    <3>2. MountAlike(writes(Rules(p, "allow_write")), writes(Rules(q, "allow_write")), op, path)
      BY <3>1, WritesTrimmed DEF writes
    <3> HIDE DEF f, g
    <3> QED
      BY <2>2, <3>2 DEF same
  <2>6. f \in Seq(V) /\ g \in Seq(V) /\ \A i \in 1..7 : f[i] \in V /\ g[i] \in V
    <3>1. f \in parts /\ g \in parts
      OBVIOUS
    <3> HIDE DEF f, g, V, parts
    <3> QED
      BY <1>3, <2>1, <3>1
  <2> HIDE DEF f, g, V
  <2>7. \A i \in 1..7 : i = 1 \/ i = 2 \/ i = 3 \/ i = 4 \/ i = 5 \/ i = 6 \/ i = 7
    OBVIOUS
  <2>8. \A i \in 1..7 : same(f[i], g[i])
    BY <1>0, <2>3, <2>4, <2>5, <2>7
  <2>9. \A i \in 1..7 : <<f[i], g[i]>> \in R
    <3> HIDE DEF R
    <3> QED
      BY <1>2, <2>6, <2>8
  <2> HIDE DEF R
  <2> QED
    BY <2>1, <2>6, <2>9 DEF Alike, f, g
<1> DEFINE P == BwrapPolicy(p, disk)
           Q == BwrapPolicy(q, disk)
<1>11. /\ P.layers = << BwrapEssential >> \o BwrapFilesystem(p, disk) \o BwrapTerminals(p) \o BwrapTmpdir
       /\ Q.layers = << BwrapEssential >> \o BwrapFilesystem(q, disk) \o BwrapTerminals(p) \o BwrapTmpdir
  BY <1>4 DEF BwrapPolicy
<1>12. \A v \in R : same(v[1], v[2])
  <2> HIDE DEF V
  <2> QED
    OBVIOUS
<1> HIDE DEF V, R, P, Q
<1>13. Alike(P.layers, Q.layers, V, R)
  BY <1>6, <1>7, <1>8, <1>11, AlikeJoined
<1>14. /\ DOMAIN P.layers = DOMAIN Q.layers
       /\ \A n \in DOMAIN P.layers : same(P.layers[n], Q.layers[n])
  <2>1. /\ DOMAIN P.layers = 1..Len(P.layers) /\ DOMAIN Q.layers = 1..Len(Q.layers) /\ Len(P.layers) = Len(Q.layers)
        /\ \A i \in 1..Len(P.layers) : <<P.layers[i], Q.layers[i]>> \in R
    BY <1>13, LenProperties DEF Alike
  <2>2. \A x, y : <<x, y>> \in R => same(x, y)
    <3> SUFFICES ASSUME NEW x, NEW y, <<x, y>> \in R PROVE same(x, y)
      OBVIOUS
    <3>1. same(<<x, y>>[1], <<x, y>>[2])
      BY <1>12
    <3> QED
      BY <3>1
  <2> QED
    BY <2>1, <2>2
<1> DEFINE covering(z) == {n \in DOMAIN z.layers : CoversPath(z.layers[n], path)}
           last(z) == CHOOSE k \in covering(z) : \A l \in covering(z) : l <= k
<1>15. covering(P) = covering(Q)
  BY <1>14 DEF same, MountAlike
<1>16. \A n \in DOMAIN P.layers : LetsPass(P.layers[n], op, path) <=> LetsPass(Q.layers[n], op, path)
  BY <1>14 DEF same, MountAlike
<1>17. ASSUME NEW z
       PROVE  BwrapPermits(z, op, path) <=>
                covering(z) # {} /\ LetsPass(z.layers[last(z)], op, path)
  <2> DEFINE over(n) == {m \in z.layers[n] : IsPrefix(m.at, path)}
             c == {n \in DOMAIN z.layers : over(n) # {}}
             n == CHOOSE k \in c : \A l \in c : l <= k
  <2>1. BwrapPermits(z, op, path) <=> c # {} /\ \A m \in over(n) : op \in Grants[m.kind]
    BY Zenon DEF BwrapPermits
  <2>2. \A k \in DOMAIN z.layers : over(k) # {} <=> CoversPath(z.layers[k], path)
    BY DEF CoversPath
  <2>3. c = covering(z)
    BY <2>2
  <2> HIDE DEF c
  <2>4. n = last(z)
    BY <2>3
  <2> HIDE DEF n, last
  <2>5. (\A m \in over(n) : op \in Grants[m.kind]) <=> LetsPass(z.layers[n], op, path)
    BY DEF LetsPass
  <2> QED
    BY <2>1, <2>3, <2>4, <2>5
<1>18. covering(P) \subseteq 1..Len(P.layers) /\ Len(P.layers) \in Nat /\ covering(P) \subseteq DOMAIN P.layers
  BY <1>13, LenProperties DEF Alike
<1> HIDE DEF covering
<1>19. covering(P) # {} => last(P) \in covering(P)
  <2> SUFFICES ASSUME covering(P) # {} PROVE last(P) \in covering(P)
    OBVIOUS
  <2>1. \E k \in covering(P) : \A l \in covering(P) : l <= k
    BY <1>18, GreatestNumber
  <2> QED
    BY <2>1
<1>20. last(P) = last(Q)
  BY <1>15
<1> HIDE DEF last
<1>21. BwrapPermits(P, op, path) <=> BwrapPermits(Q, op, path)
  BY <1>15, <1>16, <1>17, <1>18, <1>19, <1>20
<1> QED
  BY <1>21 DEF P, Q

-----------------------------------------------------------------------------
(* What is shown of a policy                                                *)

LEMMA ExpandTwice ==
  ASSUME NEW t, IsRule(t)
  PROVE  Expand(Expand(t)) = Expand(t)
<1>1. Expand(t).var \in {"/", NoParent}
  BY ExpandedIsRule, Zenon DEF NoParent
<1>2. \A x : x.var \in {"/", NoParent} => Expand(x) = x
  <2>1. "/" # "HOME" /\ "/" # "CWD" /\ "/" # "TMPDIR" /\ NoParent # "HOME" /\ NoParent # "CWD" /\ NoParent # "TMPDIR"
    BY Zenon DEF NoParent
  <2> SUFFICES ASSUME NEW x, x.var \in {"/", NoParent} PROVE Expand(x) = x
    OBVIOUS
  <2>2. x.var # "HOME" /\ x.var # "CWD" /\ x.var # "TMPDIR"
    BY <2>1
  <2> QED
    BY <2>2, Zenon DEF Expand, NoParent
<1> QED
  BY <1>1, <1>2

\* Policies of the same rules, whatever way these are written.
SameRules(e, p) ==
  /\ e.flags = p.flags /\ \A l \in PathLists : Rules(e, l) = Rules(p, l)
  /\ e.rules["allow_outbound"] = p.rules["allow_outbound"] /\ e.rules["allow_bind"] = p.rules["allow_bind"]
  /\ e.rules["allow_write"] = {} <=> p.rules["allow_write"] = {}

LEMMA ExpandedSame ==
  ASSUME NEW p, IsProfile(p)
  PROVE  SameRules(ExpandPolicyPaths(p), p)
<1> DEFINE e == ExpandPolicyPaths(p)
<1>1. /\ e.flags = p.flags
      /\ \A l \in Lists : e.rules[l] = IF l \in {"allow_outbound", "deny_outbound", "allow_bind"}
                                       THEN p.rules[l] ELSE ExpandSlice(p.rules[l])
  BY DEF ExpandPolicyPaths, IsProfile
<1> HIDE DEF e
<1>2. ASSUME NEW l \in PathLists PROVE Rules(e, l) = Rules(p, l)
  <2>1. e.rules[l] = ExpandSlice(p.rules[l]) /\ \A r \in p.rules[l] : IsRule(r)
    BY <1>1 DEF PathLists, Lists, IsProfile
  <2>2. \A r \in p.rules[l] : Expand(Expand(r)) = Expand(r)
    BY <2>1, ExpandTwice
  <2> QED
    BY <2>1, <2>2 DEF Rules, ExpandSlice
<1>3. e.rules["allow_outbound"] = p.rules["allow_outbound"] /\ e.rules["allow_bind"] = p.rules["allow_bind"]
  BY <1>1 DEF Lists
<1>4. e.rules["allow_write"] = ExpandSlice(p.rules["allow_write"])
  BY <1>1 DEF Lists
<1>5. e.rules["allow_write"] = {} <=> p.rules["allow_write"] = {}
  BY <1>4 DEF ExpandSlice
<1> QED
  BY <1>1, <1>2, <1>3, <1>5 DEF SameRules, e

LEMMA SameOf ==
  ASSUME NEW e, NEW p, SameRules(e, p)
  PROVE  /\ Rules(e, "allow_read") = Rules(p, "allow_read") /\ Rules(e, "allow_write") = Rules(p, "allow_write")
         /\ Rules(e, "allow_exec") = Rules(p, "allow_exec") /\ Rules(e, "deny_read") = Rules(p, "deny_read")
         /\ Rules(e, "deny_write") = Rules(p, "deny_write") /\ Rules(e, "deny_exec") = Rules(p, "deny_exec")
         /\ \A f : On(e, f) = On(p, f)
         /\ MandatoryRead(e) = MandatoryRead(p) /\ MandatoryWrite(e) = MandatoryWrite(p)
         /\ MandatoryBoth(e) = MandatoryBoth(p)
<1>1. /\ Rules(e, "allow_read") = Rules(p, "allow_read") /\ Rules(e, "allow_write") = Rules(p, "allow_write")
      /\ Rules(e, "allow_exec") = Rules(p, "allow_exec") /\ Rules(e, "deny_read") = Rules(p, "deny_read")
      /\ Rules(e, "deny_write") = Rules(p, "deny_write") /\ Rules(e, "deny_exec") = Rules(p, "deny_exec")
  BY DEF SameRules, PathLists, Lists
<1>2. \A f : On(e, f) = On(p, f)
  BY DEF SameRules, On
<1> QED
  BY <1>1, <1>2 DEF MandatoryRead, MandatoryWrite, MandatoryBoth, Mandatory

LEMMA LandlockSame ==
  ASSUME NEW e, NEW p, NEW disk, SameRules(e, p)
  PROVE  LandlockPolicy(e, disk) = LandlockPolicy(p, disk)
<1>1. LandlockRules(e, disk) = LandlockRules(p, disk)
  <2> DEFINE found(rules) == UNION {LandlockExpand(disk, r) : r \in rules}
             other(rules) == UNION {UsrAlternate(x) : x \in found(rules)}
  <2>1. \A z : LandlockRules(z, disk) =
          Allow(ReadAccess, found(Rules(z, "allow_read")) \cup found(Rules(z, "allow_exec"))
                              \cup other(Rules(z, "allow_exec")))
          \cup Allow(ReadAccess \cup WriteAccess, found(Rules(z, "allow_write")))
          \cup LandlockSystemRules(z)
    BY Zenon DEF LandlockRules
  <2>2. LandlockSystemRules(e) = LandlockSystemRules(p)
    BY SameOf DEF LandlockSystemRules
  <2> HIDE DEF found, other
  <2> QED
    BY <2>1, <2>2, SameOf
<1>2. LandlockDenials(e, disk) = LandlockDenials(p, disk)
  <2> DEFINE deny(mode, rules) ==
               {[path |-> x, mode |-> mode] : x \in UNION {LandlockDenied(disk, s) : s \in rules}}
             reads(rules) == {s \in rules : ~IsProc(s)}
             writes(z) == {s \in Rules(z, "deny_write") : ~IsProc(s) /\ WithinWritable(z, s)}
  <2>1. writes(e) = writes(p)
    BY SameOf DEF WithinWritable
  <2>2. ASSUME NEW z
        PROVE  LandlockDenials(z, disk) =
                 deny({"read"}, reads(Rules(z, "deny_read"))) \cup deny({"write"}, writes(z))
                 \cup deny({"read", "write"}, MandatoryBoth(z))
                 \cup deny({"read"}, MandatoryRead(z) \ MandatoryBoth(z))
                 \cup deny({"write"}, MandatoryWrite(z) \ MandatoryBoth(z))
    BY Zenon DEF LandlockDenials
  <2> HIDE DEF deny, reads, writes
  <2> QED
    BY <2>1, <2>2, SameOf
<1>3. SkipPIDNamespace(e) = SkipPIDNamespace(p)
  BY SameOf DEF SkipPIDNamespace
<1> DEFINE noExec(rules) == UNION {LandlockDenied(disk, r) : r \in rules}
<1>4. \A z : LandlockPolicy(z, disk) =
               [driver |-> "landlock", allow |-> LandlockRules(z, disk), deny |-> LandlockDenials(z, disk),
                noExec |-> noExec(Rules(z, "deny_exec")), sharedPids |-> SkipPIDNamespace(z)]
  BY Zenon DEF LandlockPolicy
<1> HIDE DEF noExec
<1> QED
  BY <1>1, <1>2, <1>3, <1>4, SameOf

LEMMA BwrapSame ==
  ASSUME NEW e, NEW p, NEW disk, SameRules(e, p)
  PROVE  BwrapPolicy(e, disk) = BwrapPolicy(p, disk)
<1> DEFINE reads(rules) == UNION {ReadRule(disk, r) : r \in rules}
           writes(rules) == UNION {WriteRule(disk, r) : r \in rules}
           denyReads(rules) == UNION {DenyReadRule(disk, r) : r \in rules}
           denyWrites(rules) == UNION {DenyWriteRule(disk, r) : r \in rules}
           denials(rules) == UNION {DenyRule(disk, r) : r \in rules}
           denyExecs(rules) == UNION {DenyExecRule(disk, r) : r \in rules}
<1>1. \A z : BwrapFilesystem(z, disk) =
        << reads(Rules(z, "allow_read")), writes(Rules(z, "allow_write")), denyReads(Rules(z, "deny_read")),
           denyWrites(Rules(z, "deny_write")), denials(MandatoryWrite(z) \ Rules(z, "allow_read")),
           HiddenDirs(disk, MandatoryBoth(z)), denyExecs(Rules(z, "deny_exec")) >>
  BY DEF BwrapFilesystem
<1> HIDE DEF reads, writes, denyReads, denyWrites, denials, denyExecs
<1>2. BwrapFilesystem(e, disk) = BwrapFilesystem(p, disk)
  BY <1>1, SameOf
<1>3. BwrapTerminals(e) = BwrapTerminals(p)
  BY SameOf DEF BwrapTerminals
<1>4. UnshareNetwork(e) = UnshareNetwork(p)
  BY DEF UnshareNetwork, SameRules
<1> QED
  BY <1>2, <1>3, <1>4 DEF BwrapPolicy

LEMMA SeatbeltSame ==
  ASSUME NEW e, NEW p, SameRules(e, p)
  PROVE  SeatbeltPolicy(e) = SeatbeltPolicy(p)
<1>1. SeatbeltAllowances(e) = SeatbeltAllowances(p)
  <2>1. e.rules["allow_write"] = {} <=> p.rules["allow_write"] = {}
    BY DEF SameRules
  <2> QED
    BY <2>1, SameOf DEF SeatbeltAllowances
<1>2. SeatbeltDenials(e) = SeatbeltDenials(p) /\ SeatbeltPrograms(e) = SeatbeltPrograms(p)
  BY SameOf DEF SeatbeltDenials, SeatbeltPrograms
<1>3. SeatbeltTerminals(e) = SeatbeltTerminals(p)
  BY SameOf DEF SeatbeltTerminals
<1>4. SeatbeltOutbound(e) = SeatbeltOutbound(p)
  BY DEF SeatbeltOutbound, SameRules
<1>5. SeatbeltBind(e) = SeatbeltBind(p)
  BY SameOf DEF SeatbeltBind, SameRules
<1> QED
  BY <1>1, <1>2, <1>3, <1>4, <1>5 DEF SeatbeltPolicy

\* What is shown is what a run would be confined by.
LEMMA ShownIsApplied ==
  ASSUME NEW p, IsProfile(p), NEW driver, NEW disk
  PROVE  Translate(driver, ExpandPolicyPaths(p), disk) = Translate(driver, p, disk)
<1> DEFINE e == ExpandPolicyPaths(p)
<1>1. /\ LandlockPolicy(e, disk) = LandlockPolicy(p, disk) /\ BwrapPolicy(e, disk) = BwrapPolicy(p, disk)
      /\ SeatbeltPolicy(e) = SeatbeltPolicy(p)
  BY ExpandedSame, LandlockSame, BwrapSame, SeatbeltSame
<1> HIDE DEF e
<1>2. Translate(driver, e, disk) = Translate(driver, p, disk)
  BY <1>1, Zenon DEF Translate
<1> QED
  BY <1>2 DEF e

-----------------------------------------------------------------------------
(* What the linter says                                                     *)

\* What a command that shows has before it.
ShownHolds ==
  /\ stage \in {"shown", "linted"} =>
       /\ IsProfile(policy) /\ asked.disk \in Disks /\ asked.driver \in Drivers
       /\ compiled = Translate(asked.driver, ExpandPolicyPaths(policy), asked.disk)
  /\ stage = "linted" => issues = LintProfile(policy)

LEMMA ShownStep ==
  ASSUME PolicyInv, ShownHolds, [SandboxedNext]_allVars
  PROVE  ShownHolds'
<1>1. CASE Show
  <2>1. stage = "loaded" /\ UNCHANGED <<asked, policy>> /\ stage' = "shown"
        /\ compiled' = Translate(asked.driver, ExpandPolicyPaths(policy), asked.disk)
    BY <1>1 DEF Show
  <2>2. IsProfile(policy) /\ asked.disk \in Disks /\ asked.driver \in Drivers
    BY <2>1 DEF PolicyInv, PolicyFollows, AskedHolds
  <2> QED
    BY <2>1, <2>2 DEF ShownHolds
<1>2. CASE Lint
  BY <1>2 DEF Lint, ShownHolds
<1>3. CASE UNCHANGED policyVars
  BY <1>3 DEF policyVars, ShownHolds
<1>4. CASE HandOver
  BY <1>4 DEF HandOver, ShownHolds
<1>5. CASE ResolveInheritance \/ LoadCustomProfile
  <2>1. stage' \in {"load", "failed", "loaded"}
    BY <1>5 DEF ResolveInheritance, LoadCustomProfile, Fail
  <2> QED
    BY <2>1 DEF ShownHolds
<1>6. CASE GetBuiltin \/ ApplyRuntimeOverrides \/ Execute
  <2>1. stage' \in {"loaded", "failed", "ready", "confined"}
    BY <1>6 DEF GetBuiltin, ApplyRuntimeOverrides, Execute, Fail
  <2> QED
    BY <2>1 DEF ShownHolds
<1>7. PolicyNext \/ HandOver \/ UNCHANGED policyVars
  BY DEF SandboxedNext, allVars, NotHere, policyVars
<1> QED
  BY <1>1, <1>2, <1>3, <1>4, <1>5, <1>6, <1>7 DEF PolicyNext

LEMMA ShownIsInvariant == SandboxedSpec => []ShownHolds
<1>1. SandboxedInit => ShownHolds
  BY DEF SandboxedInit, PolicyIdle, PolicyInit, ShownHolds
<1>2. PolicyInv /\ ShownHolds /\ [SandboxedNext]_allVars => ShownHolds'
  BY ShownStep
<1> QED
  BY <1>1, <1>2, PolicyIsInvariant, PTL DEF SandboxedSpec

\* What the linter has before it: the policy as the platform has it.
LEMMA LintedPolicy ==
  ASSUME ShownHolds, stage = "linted"
  PROVE  /\ IsProfile(policy) /\ PolicyOfRules(policy) /\ DiskOfPaths(asked.disk)
         /\ issues = LintProfile(policy)
         /\ compiled = Translate(asked.driver, policy, asked.disk)
         /\ asked.driver \in {"landlock", "bubblewrap", "seatbelt"}
<1>1. /\ IsProfile(policy) /\ asked.disk \in Disks /\ asked.driver \in Drivers
      /\ compiled = Translate(asked.driver, ExpandPolicyPaths(policy), asked.disk)
      /\ issues = LintProfile(policy)
  BY DEF ShownHolds
<1>2. PolicyOfRules(policy)
  BY <1>1 DEF IsProfile, PolicyOfRules
<1>3. DiskOfPaths(asked.disk) /\ asked.driver \in {"landlock", "bubblewrap", "seatbelt"}
  BY <1>1, PolicyAssumption DEF DiskOfPaths
<1>4. compiled = Translate(asked.driver, policy, asked.disk)
  BY <1>1, ShownIsApplied
<1> QED
  BY <1>1, <1>2, <1>3, <1>4

\* The translations, by their platforms.
LEMMA TranslatedPermits ==
  ASSUME NEW p, NEW disk, NEW op, NEW path
  PROVE  /\ Permits(Translate("landlock", p, disk), op, path) <=> LandlockPermits(LandlockPolicy(p, disk), op, path)
         /\ Permits(Translate("bubblewrap", p, disk), op, path) <=> BwrapPermits(BwrapPolicy(p, disk), op, path)
         /\ Permits(Translate("seatbelt", p, disk), op, path) <=> SeatbeltPermits(SeatbeltPolicy(p), op, path)
<1>1. /\ Translate("landlock", p, disk) = LandlockPolicy(p, disk)
      /\ Translate("bubblewrap", p, disk) = BwrapPolicy(p, disk)
      /\ Translate("seatbelt", p, disk) = SeatbeltPolicy(p)
  BY DEF Translate
<1>2. /\ LandlockPolicy(p, disk).driver = "landlock" /\ BwrapPolicy(p, disk).driver = "bubblewrap"
      /\ SeatbeltPolicy(p).driver = "seatbelt"
  BY DEF LandlockPolicy, BwrapPolicy, SeatbeltPolicy
<1> QED
  BY <1>1, <1>2 DEF Permits

\* The rules that may go make no difference.
LEMMA DeadMakeNoDifference ==
  ASSUME IsProfile(policy), PolicyOfRules(policy), DiskOfPaths(asked.disk), issues = LintProfile(policy),
         asked.driver \in {"landlock", "bubblewrap", "seatbelt"}, ~RootIsNamed,
         NEW path \in Existing(asked.disk), NEW op \in {"read", "write", "exec"}
  PROVE  Permits(Translate(asked.driver, policy, asked.disk), op, path)
           <=> Permits(Translate(asked.driver, WithoutDead, asked.disk), op, path)
<1>1. Trimmed(WithoutDead, policy) /\ IsPath(path)
  BY WithoutDeadIsTrimmed, ExistingPath
<1>2. asked.driver # "seatbelt" => <<>> \notin {Home, Cwd, Tmp}
  BY DEF RootIsNamed
<1>3. CASE asked.driver = "landlock"
  <2>1. LandlockPermits(LandlockPolicy(policy, asked.disk), op, path)
          <=> LandlockPermits(LandlockPolicy(WithoutDead, asked.disk), op, path)
    BY <1>1, <1>2, <1>3, LandlockTrimmed
  <2> QED
    BY <1>3, <2>1, TranslatedPermits
<1>4. CASE asked.driver = "bubblewrap"
  <2>1. BwrapPermits(BwrapPolicy(policy, asked.disk), op, path)
          <=> BwrapPermits(BwrapPolicy(WithoutDead, asked.disk), op, path)
    BY <1>1, <1>2, <1>4, BubblewrapTrimmed
  <2> QED
    BY <1>4, <2>1, TranslatedPermits
<1>5. CASE asked.driver = "seatbelt"
  <2>1. SeatbeltPermits(SeatbeltPolicy(policy), op, path) <=> SeatbeltPermits(SeatbeltPolicy(WithoutDead), op, path)
    BY <1>1, SeatbeltTrimmed
  <2> QED
    BY <1>5, <2>1, TranslatedPermits
<1> QED
  BY <1>3, <1>4, <1>5

\* What the linter calls a conflict is one.
LEMMA ConflictIsOne ==
  ASSUME issues = LintProfile(policy), NEW s \in issues, s.code = "conflict"
  PROVE  /\ s.list \in DOMAIN ConflictPairs
         /\ s.rule \in policy.rules[s.list] \cap policy.rules[ConflictPairs[s.list]]
<1> DEFINE shared(l) == policy.rules[l] \cap policy.rules[ConflictPairs[l]]
           conflict == UNION {{Issue("conflict", l, r) : r \in shared(l)} : l \in DOMAIN ConflictPairs}
           shadowed == UNION {{Issue("shadowed", k, r) :
                                 r \in {t \in policy.rules[k] : \E o \in policy.rules[k] : Shadowed(t, o)}} : k \in AllowLists}
           unresolved_ == UNION {{Issue("unresolved", k, r) :
                                    r \in {t \in policy.rules[k] : t.var \notin SupportedVariables \cup {"/", NoParent}}} :
                                   k \in Lists}
           broad == UNION {{Issue("broad", k, r) : r \in policy.rules[k] \cap Broad} : k \in AllowLists}
<1>1. issues = unresolved_ \cup broad \cup conflict \cup shadowed
  BY Zenon DEF LintProfile, NoParent
<1>2. \A t \in unresolved_ : t.code = "unresolved"
  BY DEF Issue
<1>3. \A t \in broad : t.code = "broad"
  BY DEF Issue
<1>4. \A t \in shadowed : t.code = "shadowed"
  BY DEF Issue
<1>5. \A t \in conflict : \E l \in DOMAIN ConflictPairs : \E r \in shared(l) : t = Issue("conflict", l, r)
  <2> HIDE DEF shared
  <2> QED
    OBVIOUS
<1> HIDE DEF shadowed, unresolved_, broad, conflict
<1>6. s \in conflict
  BY <1>1, <1>2, <1>3, <1>4
<1>7. PICK l \in DOMAIN ConflictPairs : \E r \in shared(l) : s = Issue("conflict", l, r)
  BY <1>5, <1>6
<1>8. s.list = l /\ s.rule \in shared(l)
  <2> HIDE DEF shared
  <2> QED
    BY <1>7 DEF Issue
<1> QED
  BY <1>8

\* A path that is allowed and denied is denied.
LEMMA ConflictIsDenied ==
  ASSUME issues = LintProfile(policy), NEW op \in {"read", "write", "exec"},
         NEW s \in issues, s.code = "conflict", s.list = AllowListOf[op]
  PROVE  Expand(s.rule) \in Denials(op)
<1>1. s.rule \in policy.rules[ConflictPairs[s.list]]
  BY ConflictIsOne
<1>2. ConflictPairs[s.list] = DenyListOf[op]
  BY DEF ConflictPairs, AllowListOf, DenyListOf
<1>3. Expand(s.rule) \in Rules(policy, DenyListOf[op])
  BY <1>1, <1>2 DEF Rules, ExpandSlice
<1> QED
  BY <1>3 DEF Denials

\* A rule of outbound traffic opens the network of each platform.
LEMMA OutboundOpens ==
  ASSUME NEW p, NEW disk, NEW driver \in {"landlock", "bubblewrap", "seatbelt"},
         p.rules["allow_outbound"] # {}
  PROVE  Translate(driver, p, disk).driver = "landlock" \/ Translate(driver, p, disk).network
<1>1. LandlockPolicy(p, disk).driver = "landlock"
  BY DEF LandlockPolicy
<1>2. BwrapPolicy(p, disk).network /\ SeatbeltPolicy(p).network
  BY DEF BwrapPolicy, SeatbeltPolicy, UnshareNetwork, SeatbeltOutbound
<1> QED
  BY <1>1, <1>2 DEF Translate

\* What the linter says is so, of any profile, on any disk and for each of the platforms:
\* without the rules it calls dead a command can do the same, a path that is allowed and
\* denied is denied, and what is shown is what a run would be confined to (lint.go,
\* resolve.go, the translators).  A host that is allowed and denied, of which the linter
\* says that it is denied as well, can be reached on each of them.
THEOREM LintTold == SandboxedSpec => []LintIsTrue
<1>1. ShownHolds => LintIsTrue
  <2> SUFFICES ASSUME ShownHolds, stage = "linted" PROVE LintIsTrue
    BY DEF LintIsTrue
  <2>1. /\ IsProfile(policy) /\ PolicyOfRules(policy) /\ DiskOfPaths(asked.disk) /\ issues = LintProfile(policy)
        /\ compiled = Translate(asked.driver, policy, asked.disk)
        /\ asked.driver \in {"landlock", "bubblewrap", "seatbelt"}
    BY LintedPolicy
  <2>2. ASSUME NEW path \in Existing(asked.disk), NEW op \in {"read", "write", "exec"}
        PROVE  RootIsNamed \/ (Permits(compiled, op, path)
                                 <=> Permits(Translate(asked.driver, WithoutDead, asked.disk), op, path))
    BY <2>1, DeadMakeNoDifference
  <2>3. ASSUME NEW path \in Existing(asked.disk), NEW op \in {"read", "write", "exec"},
               NEW s \in issues, s.code = "conflict", s.list = AllowListOf[op], Matches(Expand(s.rule), path)
        PROVE  Omits(op, Expand(s.rule), path) \/ ~Permits(compiled, op, path)
    BY <2>1, <2>3, ConflictIsDenied, OfItsPlatform, DenialStands
  <2>4. ASSUME NEW s \in issues, s.code = "conflict", s.list = "allow_outbound"
        PROVE  NetworkOpen
    <3>1. policy.rules["allow_outbound"] # {}
      BY <2>1, <2>4, ConflictIsOne
    <3> QED
      BY <2>1, <3>1, OutboundOpens DEF NetworkOpen
  <2> QED
    BY <2>1, <2>2, <2>3, <2>4 DEF LintIsTrue
<1> QED
  BY <1>1, ShownIsInvariant, PTL

-----------------------------------------------------------------------------
(* The run that follows                                                     *)

\* Nothing has happened in the sandbox while the policy is worked out.
RunHolds == (~Running => Init) /\ SandboxInv /\ FilesHold

LEMMA InitHolds == Init => RunHolds
BY SandboxInit DEF RunHolds, FilesHold, Init

LEMMA RunSteps ==
  ASSUME RunHolds, [Next]_vars
  PROVE  SandboxInv' /\ FilesHold'
<1>1. SandboxInv'
  BY TypesStep, StartStep, TaskStep, LoopStep, CacheStep DEF SandboxInv, RunHolds
<1>2. FilesHold'
  BY FilesStep DEF RunHolds
<1> QED
  BY <1>1, <1>2

LEMMA SandboxedStep ==
  ASSUME RunHolds, [SandboxedNext]_allVars
  PROVE  RunHolds'
<1>1. CASE UNCHANGED vars /\ (stage' = "idle" <=> stage = "idle")
  <2>1. SandboxInv' /\ FilesHold'
    BY <1>1, RunSteps
  <2>2. Init => Init'
    BY <1>1 DEF Init, vars, parentVars, helperVars, taskVars, memVars
  <2> QED
    BY <1>1, <2>1, <2>2 DEF RunHolds, Running
<1>2. CASE PolicyNext /\ UNCHANGED vars
  <2>1. stage # "idle" /\ stage' # "idle"
    BY <1>2 DEF PolicyNext, ResolveInheritance, GetBuiltin, LoadCustomProfile, ApplyRuntimeOverrides,
       Execute, Show, Lint, Fail
  <2> QED
    BY <1>1, <1>2, <2>1
<1>3. CASE HandOver
  <2>1. Init
    BY <1>3 DEF HandOver, Handed, RunHolds, Running
  <2>2. cfg' \in Configs /\ stage' = "idle"
        /\ UNCHANGED <<parent, files, helperVars, loop, taskVars, memVars, spent>>
    BY <1>3 DEF HandOver
  <2>3. Init'
    BY <2>1, <2>2 DEF Init, helperVars, taskVars, memVars
  <2> QED
    BY <2>3, InitHolds, PTL
<1>4. CASE NotHere \/ UNCHANGED allVars
  BY <1>1, <1>4 DEF NotHere, allVars, policyVars
<1>5. CASE Running /\ Next /\ UNCHANGED policyVars
  <2>1. SandboxInv' /\ FilesHold'
    BY <1>5, RunSteps
  <2>2. Running'
    BY <1>5 DEF Running, policyVars
  <2> QED
    BY <2>1, <2>2 DEF RunHolds
<1> QED
  BY <1>2, <1>3, <1>4, <1>5 DEF SandboxedNext

LEMMA RunIsInvariant == SandboxedSpec => []RunHolds
<1>1. SandboxedInit => RunHolds
  BY InitHolds DEF SandboxedInit
<1> QED
  BY <1>1, SandboxedStep, PTL DEF SandboxedSpec

\* From the profile to the last notification: whatever policy is worked out, and whether
\* one is or not, the command is confined, and no call passes that the loop could have
\* refused (apply.go, landlock_seccomp_linux.go).
THEOREM SandboxedIsConfined == SandboxedSpec => []ConfinementHolds
<1>1. RunHolds => ConfinementHolds
  BY DEF RunHolds, SandboxInv, TaskHolds, CacheHolds, RunsConfined, ConfinementHolds
<1> QED
  BY <1>1, RunIsInvariant, PTL

\* Nor does a run leave anything on disk, whatever its policy (landlock_linux.go).
THEOREM SandboxedLeavesNothing == SandboxedSpec => []NothingLeftBehind
<1>1. RunHolds => NothingLeftBehind
  BY DEF RunHolds, FilesHold, NothingLeftBehind
<1> QED
  BY <1>1, RunIsInvariant, PTL
=============================================================================
