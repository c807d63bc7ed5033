-------------------------- MODULE ProxySessionProofs --------------------------
(***************************************************************************)
(* Proofs about ProxyGuard and about ProxySession, which runs it, for every  *)
(* number of requests and packages, every channel capacity, every failure    *)
(* limit, every analyzer and every set of exit codes.                        *)
(*                                                                         *)
(* Of the guard, type correctness alone is not inductive: a cache hit needs a *)
(* package in the URL, and a served request its history.  GuardInv ties each *)
(* phase of a request to the result it acts on (Flow), the channel and the   *)
(* handler to the requests that were sent (Channel), the cache to the        *)
(* analyzer, and the calls in flight to the breaker's generation (Breaker).  *)
(*                                                                         *)
(* A session takes only steps of the guard, so the guard's theorems carry    *)
(* over.  What is registered in deferred is exactly what is left to undo, and *)
(* the session summary is owed as long as "complete" is in it: WiringInv.  A *)
(* request exists only after the launch, by when the session was begun.      *)
(***************************************************************************)
EXTENDS ProxySession, FiniteSetTheorems, TLAPS

Analysing == {"lookup", "admit", "analyzing", "store"}
Untouched == {"idle", "analyze", "lookup", "admit", "analyzing"}
Asking    == {"sending", "waiting", "consented", "countConfirmed",
              "countCancelled", "countFailed", "unconfirmed"}

\* What the phase of a request says of its package and of its result.
FlowOf(r) ==
  /\ pc[r] \in Analysing \cup {"analyze"} => pkg[r] \in Packages
  /\ pc[r] \in Analysing => ~Insecure /\ pkg[r] \notin Trusted
  /\ pc[r] \in Untouched => result[r] = "none"
  /\ pc[r] = "store" => result[r] \in Verdicts(pkg[r])
  /\ pc[r] \in {"store", "decide"} => result[r] # "none"
  /\ pc[r] = "countAllowed" => result[r] = "allow"
  /\ pc[r] = "countBlocked" => result[r] = "block"
  /\ pc[r] \in Asking => result[r] = "confirm"
  /\ pc[r] \in {"consented", "countConfirmed"} => reply[r] = "yes"
  /\ pc[r] = "refused" => result[r] \in {"confirm", "block"}
  /\ pc[r] = "served" => /\ result[r] # "block"
                         /\ result[r] = "confirm" => reply[r] = "yes"

Flow == \A r \in Requests : FlowOf(r)

InQueue(r) == \E i \in 1..Len(queue) : queue[i] = r

\* A request is on the channel, in the hands of the handler or replied to, one
\* after the other and each at most once, and only after it was sent.
ChannelOf(r) ==
  /\ InQueue(r) \/ handling = r \/ reply[r] # "none" =>
       result[r] = "confirm" /\ pc[r] \notin {"sending", "decide", "store"}
  /\ InQueue(r) => handling # r /\ reply[r] = "none"
  /\ handling = r => reply[r] = "none"

Channel ==
  /\ \A r \in Requests : ChannelOf(r)
  /\ \A i, j \in 1..Len(queue) : queue[i] = queue[j] => i = j
  /\ answer # "none" => handling # Nobody

\* No call is of a generation to come, and a half-open breaker has counted its probe.
Breaker ==
  /\ \A r \in Requests : generation[r] <= breaker.gen
  /\ breaker.state = "halfOpen" =>
       \A r \in Requests : pc[r] = "analyzing" /\ generation[r] = breaker.gen
                             => breaker.probes >= 1
  /\ BreakerShieldsAnalyzer

GuardInv == TypeOK /\ Flow /\ Channel /\ CacheIsGenuine /\ Breaker

LEMMA VerdictsAreActions ==
  \A p \in Packages : Verdicts(p) \subseteq Actions \ {"none"}
BY GuardAssumption DEF Verdicts, Actions, AnalyzerAnswers

LEMMA InitInv == Init => GuardInv
<1> SUFFICES ASSUME Init PROVE GuardInv OBVIOUS
<1> USE GuardAssumption DEF Init
<1>1. TypeOK
  BY DEF TypeOK, BreakerStates, Phases, Final, Actions, YesNo, AuditCounters, StatCounters
<1>2. Flow
  BY DEF Flow, FlowOf, Analysing, Untouched, Asking
<1>3. Channel
  BY DEF Channel, ChannelOf, InQueue
<1>4. CacheIsGenuine
  BY DEF CacheIsGenuine
<1>5. Breaker
  BY DEF Breaker, BreakerShieldsAnalyzer, At
<1> QED BY <1>1, <1>2, <1>3, <1>4, <1>5 DEF GuardInv

LEMMA BumpType ==
  /\ \A w : audit \in [AuditCounters -> Nat] => Bump(audit, w) \in [AuditCounters -> Nat]
  /\ \A w : stats \in [StatCounters -> Nat] => Bump(stats, w) \in [StatCounters -> Nat]
BY DEF Bump


LEMMA AfterRequestType ==
  ASSUME breaker \in BreakerStates, NEW g \in Nat, NEW ok \in BOOLEAN, AfterRequest(g, ok)
  PROVE  breaker' \in BreakerStates
BY DEF AfterRequest, BreakerAt, BreakerStates

LEMMA TypeStep == GuardInv /\ Next => TypeOK'
<1> SUFFICES ASSUME GuardInv, Next PROVE TypeOK'
  OBVIOUS
<1> USE GuardAssumption DEF TypeOK, Goto, Phases, Final, requestVars, confirmVars, recordVars
<1>0. TypeOK /\ Flow /\ Channel
  BY DEF GuardInv
<1>1. ASSUME NEW r \in Requests, PassThrough(r) PROVE TypeOK'
  BY <1>0, <1>1 DEF PassThrough
<1>2. ASSUME NEW r \in Requests, Download(r) PROVE TypeOK'
  BY <1>0, <1>2 DEF Download
<1>3. ASSUME NEW r \in Requests, Bypass(r) PROVE TypeOK'
  <2>1. audit' \in [AuditCounters -> Nat]
    <3>1. PICK w : audit' = Bump(audit, w)
      BY <1>3, Zenon DEF Bypass
    <3> QED
      BY <1>0, <3>1, BumpType
  <2>2. result' \in [Requests -> Actions]
    BY <1>0, <1>3 DEF Bypass, Actions
  <2> QED
    BY <1>0, <1>3, <2>1, <2>2 DEF Bypass
<1>4. ASSUME NEW r \in Requests, NeedAnalysis(r) PROVE TypeOK'
  BY <1>0, <1>4 DEF NeedAnalysis
<1>5. ASSUME NEW r \in Requests, CacheHit(r) PROVE TypeOK'
  BY <1>0, <1>5 DEF CacheHit, Flow, FlowOf, Analysing
<1>6. ASSUME NEW r \in Requests, CacheMiss(r) PROVE TypeOK'
  BY <1>0, <1>6 DEF CacheMiss
<1>7. ASSUME NEW r \in Requests, Admit(r) PROVE TypeOK'
  <2>1. breaker' \in BreakerStates
    <3>1. breaker' = [breaker EXCEPT !.probes = breaker'.probes] /\ breaker'.probes \in Nat
      BY <1>0, <1>7 DEF Admit, BreakerStates
    <3> QED
      BY <1>0, <3>1 DEF BreakerStates
  <2> QED
    BY <1>0, <1>7, <2>1 DEF Admit, BreakerStates
<1>8. ASSUME NEW r \in Requests, Rejected(r) PROVE TypeOK'
  BY <1>0, <1>8 DEF Rejected
<1>9. ASSUME NEW r \in Requests, Analyzed(r) PROVE TypeOK'
  <2>1. breaker' \in BreakerStates
    BY <1>0, <1>9, AfterRequestType DEF Analyzed
  <2>2. result' \in [Requests -> Actions]
    BY <1>0, <1>9, VerdictsAreActions DEF Analyzed, Verdicts, Flow, FlowOf, Analysing
  <2> QED
    BY <1>0, <1>9, <2>1, <2>2 DEF Analyzed
<1>10. ASSUME NEW r \in Requests, AnalysisFailed(r) PROVE TypeOK'
  <2>1. breaker' \in BreakerStates
    BY <1>0, <1>10, AfterRequestType DEF AnalysisFailed
  <2> QED
    BY <1>0, <1>10, <2>1 DEF AnalysisFailed
<1>11. ASSUME NEW r \in Requests, Store(r) PROVE TypeOK'
  BY <1>0, <1>11 DEF Store, Flow, FlowOf, Analysing
<1>12. ASSUME NEW r \in Requests, DecideAllow(r) PROVE TypeOK'
  BY <1>0, <1>12, BumpType DEF DecideAllow
<1>13. ASSUME NEW r \in Requests, DecideBlock(r) PROVE TypeOK'
  BY <1>0, <1>13, BumpType DEF DecideBlock
<1>14. ASSUME NEW r \in Requests, DecideConfirm(r) PROVE TypeOK'
  BY <1>0, <1>14 DEF DecideConfirm
<1>15. ASSUME NEW r \in Requests, Send(r) PROVE TypeOK'
  BY <1>0, <1>15 DEF Send
<1>16. ASSUME NEW r \in Requests, SendTimeout(r) PROVE TypeOK'
  BY <1>0, <1>16 DEF SendTimeout
<1>17. ASSUME NEW r \in Requests, ReceiveYes(r) PROVE TypeOK'
  BY <1>0, <1>17, BumpType DEF ReceiveYes
<1>18. ASSUME NEW r \in Requests, LogConsented(r) PROVE TypeOK'
  BY <1>0, <1>18, BumpType DEF LogConsented
<1>19. ASSUME NEW r \in Requests, ReceiveNo(r) PROVE TypeOK'
  BY <1>0, <1>19, BumpType DEF ReceiveNo
<1>20. ASSUME NEW r \in Requests, WaitTimeout(r) PROVE TypeOK'
  BY <1>0, <1>20 DEF WaitTimeout
<1>21. ASSUME NEW r \in Requests, Count(r) PROVE TypeOK'
  <2>1. PICK w : stats' = Bump(stats, w)
    BY <1>21, Zenon DEF Count
  <2>2. stats' \in [StatCounters -> Nat]
    BY <1>0, <2>1, BumpType
  <2> QED
    BY <1>0, <1>21, <2>2 DEF Count
<1>22. ASSUME BreakerTimeout PROVE TypeOK'
  BY <1>0, <1>22 DEF BreakerTimeout, BreakerAt, BreakerStates
<1>23. ASSUME TakeRequest PROVE TypeOK'
  BY <1>0, <1>23 DEF TakeRequest
<1>24. ASSUME UserAnswers PROVE TypeOK'
  BY <1>0, <1>24 DEF UserAnswers, YesNo
<1>25. ASSUME SendReply PROVE TypeOK'
  BY <1>0, <1>25 DEF SendReply, Channel, YesNo
<1> QED
  BY <1>1, <1>2, <1>3, <1>4, <1>5, <1>6, <1>7, <1>8, <1>9, <1>10, <1>11, <1>12, <1>13, <1>14, <1>15, <1>16, <1>17, <1>18, <1>19, <1>20, <1>21, <1>22, <1>23, <1>24, <1>25 DEF Next, Arrive, Progress, Handler

LEMMA FlowStep == GuardInv /\ Next => Flow'
<1> SUFFICES ASSUME GuardInv, Next, NEW q \in Requests PROVE FlowOf(q)'
  BY DEF Flow
<1> USE GuardAssumption DEF Goto, Analysing, Untouched, Asking, requestVars, confirmVars, recordVars
<1>0. TypeOK /\ FlowOf(q) /\ Flow /\ Channel
  BY DEF GuardInv, Flow
<1>v. \A p \in Packages : Verdicts(p)' = Verdicts(p)
  BY DEF Verdicts
<1>1. ASSUME NEW r \in Requests, PassThrough(r) PROVE FlowOf(q)'
  BY <1>0, <1>v, <1>1 DEF PassThrough, FlowOf, TypeOK
<1>2. ASSUME NEW r \in Requests, Download(r) PROVE FlowOf(q)'
  BY <1>0, <1>v, <1>2 DEF Download, FlowOf, TypeOK
<1>3. ASSUME NEW r \in Requests, Bypass(r) PROVE FlowOf(q)'
  BY <1>0, <1>v, <1>3 DEF Bypass, FlowOf, TypeOK
<1>4. ASSUME NEW r \in Requests, NeedAnalysis(r) PROVE FlowOf(q)'
  BY <1>0, <1>v, <1>4 DEF NeedAnalysis, FlowOf, TypeOK
<1>5. ASSUME NEW r \in Requests, CacheHit(r) PROVE FlowOf(q)'
  BY <1>0, <1>v, <1>5, VerdictsAreActions DEF CacheHit, FlowOf, TypeOK, CacheIsGenuine, GuardInv, Actions
<1>6. ASSUME NEW r \in Requests, CacheMiss(r) PROVE FlowOf(q)'
  BY <1>0, <1>v, <1>6 DEF CacheMiss, FlowOf, TypeOK
<1>7. ASSUME NEW r \in Requests, Admit(r) PROVE FlowOf(q)'
  BY <1>0, <1>v, <1>7 DEF Admit, FlowOf, TypeOK
<1>8. ASSUME NEW r \in Requests, Rejected(r) PROVE FlowOf(q)'
  BY <1>0, <1>v, <1>8 DEF Rejected, FlowOf, TypeOK
<1>9. ASSUME NEW r \in Requests, Analyzed(r) PROVE FlowOf(q)'
  BY <1>0, <1>v, <1>9, VerdictsAreActions DEF Analyzed, FlowOf, TypeOK, Verdicts
<1>10. ASSUME NEW r \in Requests, AnalysisFailed(r) PROVE FlowOf(q)'
  BY <1>0, <1>v, <1>10 DEF AnalysisFailed, FlowOf, TypeOK
<1>11. ASSUME NEW r \in Requests, Store(r) PROVE FlowOf(q)'
  BY <1>0, <1>v, <1>11 DEF Store, FlowOf, TypeOK
<1>12. ASSUME NEW r \in Requests, DecideAllow(r) PROVE FlowOf(q)'
  BY <1>0, <1>v, <1>12 DEF DecideAllow, FlowOf, TypeOK
<1>13. ASSUME NEW r \in Requests, DecideBlock(r) PROVE FlowOf(q)'
  BY <1>0, <1>v, <1>13 DEF DecideBlock, FlowOf, TypeOK
<1>14. ASSUME NEW r \in Requests, DecideConfirm(r) PROVE FlowOf(q)'
  BY <1>0, <1>v, <1>14 DEF DecideConfirm, FlowOf, TypeOK
<1>15. ASSUME NEW r \in Requests, Send(r) PROVE FlowOf(q)'
  BY <1>0, <1>v, <1>15 DEF Send, FlowOf, TypeOK
<1>16. ASSUME NEW r \in Requests, SendTimeout(r) PROVE FlowOf(q)'
  BY <1>0, <1>v, <1>16 DEF SendTimeout, FlowOf, TypeOK
<1>17. ASSUME NEW r \in Requests, ReceiveYes(r) PROVE FlowOf(q)'
  BY <1>0, <1>v, <1>17 DEF ReceiveYes, FlowOf, TypeOK
<1>18. ASSUME NEW r \in Requests, LogConsented(r) PROVE FlowOf(q)'
  BY <1>0, <1>v, <1>18 DEF LogConsented, FlowOf, TypeOK
<1>19. ASSUME NEW r \in Requests, ReceiveNo(r) PROVE FlowOf(q)'
  BY <1>0, <1>v, <1>19 DEF ReceiveNo, FlowOf, TypeOK
<1>20. ASSUME NEW r \in Requests, WaitTimeout(r) PROVE FlowOf(q)'
  BY <1>0, <1>v, <1>20 DEF WaitTimeout, FlowOf, TypeOK
<1>21. ASSUME NEW r \in Requests, Count(r) PROVE FlowOf(q)'
  BY <1>0, <1>v, <1>21 DEF Count, FlowOf, TypeOK
<1>22. ASSUME BreakerTimeout PROVE FlowOf(q)'
  BY <1>0, <1>v, <1>22 DEF BreakerTimeout, FlowOf
<1>23. ASSUME TakeRequest PROVE FlowOf(q)'
  BY <1>0, <1>v, <1>23 DEF TakeRequest, FlowOf
<1>24. ASSUME UserAnswers PROVE FlowOf(q)'
  BY <1>0, <1>v, <1>24 DEF UserAnswers, FlowOf
<1>25. ASSUME SendReply PROVE FlowOf(q)'
  BY <1>0, <1>v, <1>25 DEF SendReply, FlowOf, Channel, ChannelOf, TypeOK
<1> QED
  BY <1>1, <1>2, <1>3, <1>4, <1>5, <1>6, <1>7, <1>8, <1>9, <1>10, <1>11, <1>12, <1>13, <1>14, <1>15, <1>16, <1>17, <1>18, <1>19, <1>20, <1>21, <1>22, <1>23, <1>24, <1>25 DEF Next, Arrive, Progress, Handler

\* The channel, the handler and the replies change in four actions only; the
\* others move one request forward and never back to before it was sent.
LEMMA ChannelFrame ==
  ASSUME TypeOK, Channel, UNCHANGED confirmVars,
         \A q \in Requests :
           /\ pc'[q] \in {"sending", "decide", "store"} =>
                pc[q] \in {"sending", "decide", "store"} \/ result[q] = "none"
           /\ result[q] # "none" => result'[q] = result[q]
  PROVE  Channel'
<1>1. \A q \in Requests : ChannelOf(q)'
  BY DEF TypeOK, Channel, ChannelOf, InQueue, confirmVars
<1> QED
  BY <1>1 DEF Channel, confirmVars

LEMMA ChannelStep == GuardInv /\ Next => Channel'
<1> SUFFICES ASSUME GuardInv, Next PROVE Channel'
  OBVIOUS
<1> USE DEF Goto, requestVars, recordVars
<1>0. TypeOK /\ Flow /\ Channel
  BY DEF GuardInv
<1>1. ASSUME NEW r \in Requests, PassThrough(r) PROVE Channel'
  BY <1>0, <1>1, ChannelFrame DEF PassThrough, TypeOK, Flow, FlowOf, Untouched, Analysing
<1>2. ASSUME NEW r \in Requests, Download(r) PROVE Channel'
  BY <1>0, <1>2, ChannelFrame DEF Download, TypeOK, Flow, FlowOf, Untouched, Analysing
<1>3. ASSUME NEW r \in Requests, Bypass(r) PROVE Channel'
  BY <1>0, <1>3, ChannelFrame DEF Bypass, TypeOK, Flow, FlowOf, Untouched, Analysing
<1>4. ASSUME NEW r \in Requests, NeedAnalysis(r) PROVE Channel'
  BY <1>0, <1>4, ChannelFrame DEF NeedAnalysis, TypeOK, Flow, FlowOf, Untouched, Analysing
<1>5. ASSUME NEW r \in Requests, CacheHit(r) PROVE Channel'
  BY <1>0, <1>5, ChannelFrame DEF CacheHit, TypeOK, Flow, FlowOf, Untouched, Analysing
<1>6. ASSUME NEW r \in Requests, CacheMiss(r) PROVE Channel'
  BY <1>0, <1>6, ChannelFrame DEF CacheMiss, TypeOK, Flow, FlowOf, Untouched, Analysing
<1>7. ASSUME NEW r \in Requests, Admit(r) PROVE Channel'
  BY <1>0, <1>7, ChannelFrame DEF Admit, TypeOK, Flow, FlowOf, Untouched, Analysing
<1>8. ASSUME NEW r \in Requests, Rejected(r) PROVE Channel'
  BY <1>0, <1>8, ChannelFrame DEF Rejected, TypeOK, Flow, FlowOf, Untouched, Analysing
<1>9. ASSUME NEW r \in Requests, Analyzed(r) PROVE Channel'
  BY <1>0, <1>9, ChannelFrame DEF Analyzed, TypeOK, Flow, FlowOf, Untouched, Analysing
<1>10. ASSUME NEW r \in Requests, AnalysisFailed(r) PROVE Channel'
  BY <1>0, <1>10, ChannelFrame DEF AnalysisFailed, TypeOK, Flow, FlowOf, Untouched, Analysing
<1>11. ASSUME NEW r \in Requests, Store(r) PROVE Channel'
  BY <1>0, <1>11, ChannelFrame DEF Store, TypeOK, Flow, FlowOf, Untouched, Analysing
<1>12. ASSUME NEW r \in Requests, DecideAllow(r) PROVE Channel'
  BY <1>0, <1>12, ChannelFrame DEF DecideAllow, TypeOK, Flow, FlowOf, Untouched, Analysing
<1>13. ASSUME NEW r \in Requests, DecideBlock(r) PROVE Channel'
  BY <1>0, <1>13, ChannelFrame DEF DecideBlock, TypeOK, Flow, FlowOf, Untouched, Analysing
<1>14. ASSUME NEW r \in Requests, DecideConfirm(r) PROVE Channel'
  BY <1>0, <1>14, ChannelFrame DEF DecideConfirm, TypeOK, Flow, FlowOf, Untouched, Analysing
<1>15. ASSUME NEW r \in Requests, Send(r) PROVE Channel'
  <2>1. ~InQueue(r) /\ handling # r /\ reply[r] = "none" /\ result[r] = "confirm"
    BY <1>0, <1>15 DEF Send, Channel, ChannelOf, Flow, FlowOf, Asking
  <2>2. /\ Len(queue') = Len(queue) + 1 /\ queue'[Len(queue) + 1] = r
        /\ \A i \in 1..Len(queue) : queue'[i] = queue[i]
        /\ Len(queue) \in Nat
    BY <1>0, <1>15 DEF Send, TypeOK
  <2>3. \A q \in Requests : InQueue(q)' <=> InQueue(q) \/ q = r
    BY <2>2 DEF InQueue
  <2>4. \A q \in Requests : ChannelOf(q)'
    BY <1>0, <1>15, <2>1, <2>3 DEF Send, TypeOK, Channel, ChannelOf
  <2>5. \A i, j \in 1..Len(queue') : queue'[i] = queue'[j] => i = j
    BY <1>0, <2>1, <2>2 DEF Channel, InQueue
  <2> QED
    BY <1>0, <1>15, <2>4, <2>5 DEF Send, Channel
<1>16. ASSUME NEW r \in Requests, SendTimeout(r) PROVE Channel'
  BY <1>0, <1>16, ChannelFrame DEF SendTimeout, TypeOK, Flow, FlowOf, Untouched, Analysing
<1>17. ASSUME NEW r \in Requests, ReceiveYes(r) PROVE Channel'
  BY <1>0, <1>17, ChannelFrame DEF ReceiveYes, TypeOK, Flow, FlowOf, Untouched, Analysing
<1>18. ASSUME NEW r \in Requests, LogConsented(r) PROVE Channel'
  BY <1>0, <1>18, ChannelFrame DEF LogConsented, TypeOK, Flow, FlowOf, Untouched, Analysing
<1>19. ASSUME NEW r \in Requests, ReceiveNo(r) PROVE Channel'
  BY <1>0, <1>19, ChannelFrame DEF ReceiveNo, TypeOK, Flow, FlowOf, Untouched, Analysing
<1>20. ASSUME NEW r \in Requests, WaitTimeout(r) PROVE Channel'
  BY <1>0, <1>20, ChannelFrame DEF WaitTimeout, TypeOK, Flow, FlowOf, Untouched, Analysing
<1>21. ASSUME NEW r \in Requests, Count(r) PROVE Channel'
  BY <1>0, <1>21, ChannelFrame DEF Count, TypeOK, Flow, FlowOf, Untouched, Analysing
<1>22. ASSUME BreakerTimeout PROVE Channel'
  BY <1>0, <1>22, ChannelFrame DEF BreakerTimeout, TypeOK
<1>23. ASSUME TakeRequest PROVE Channel'
  <2>1. /\ Len(queue) \in Nat /\ Len(queue) >= 1 /\ Len(queue') = Len(queue) - 1
        /\ handling' = queue[1]
        /\ \A i \in 1..Len(queue') : queue'[i] = queue[i + 1]
    BY <1>0, <1>23 DEF TakeRequest, TypeOK
  <2>2. \A q \in Requests : InQueue(q) <=> InQueue(q)' \/ q = handling'
    <3> TAKE q \in Requests
    <3>1. ASSUME InQueue(q), q # handling' PROVE InQueue(q)'
      <4>1. PICK i \in 1..Len(queue) : queue[i] = q
        BY <3>1 DEF InQueue
      <4>2. i - 1 \in 1..Len(queue') /\ queue'[i - 1] = q
        BY <2>1, <3>1, <4>1
      <4> QED
        BY <4>2 DEF InQueue
    <3> QED
      BY <2>1, <3>1 DEF InQueue
  <2>0. \A i, j \in 1..Len(queue) : queue[i] = queue[j] => i = j
    BY <1>0 DEF Channel
  <2>3. ASSUME NEW i \in 1..Len(queue') PROVE queue'[i] # queue[1]
    <3>1. i + 1 \in 1..Len(queue) /\ 1 \in 1..Len(queue) /\ i + 1 # 1
      BY <2>1
    <3>2. queue'[i] = queue[i + 1]
      BY <2>1
    <3> QED
      BY <2>0, <3>1, <3>2
  <2>4. \A q \in Requests : ChannelOf(q)'
    BY <1>0, <1>23, <2>1, <2>2, <2>3 DEF TakeRequest, TypeOK, Channel, ChannelOf, InQueue
  <2>5. \A i, j \in 1..Len(queue') : queue'[i] = queue'[j] => i = j
    <3> SUFFICES ASSUME NEW i \in 1..Len(queue'), NEW j \in 1..Len(queue'),
                        queue'[i] = queue'[j]
                 PROVE  i = j
      OBVIOUS
    <3>1. i + 1 \in 1..Len(queue) /\ j + 1 \in 1..Len(queue)
      BY <2>1
    <3>2. queue[i + 1] = queue[j + 1]
      BY <2>1
    <3> QED
      BY <2>0, <3>1, <3>2
  <2> QED
    BY <1>0, <1>23, <2>4, <2>5 DEF TakeRequest, Channel
<1>24. ASSUME UserAnswers PROVE Channel'
  BY <1>0, <1>24 DEF UserAnswers, Channel, ChannelOf, InQueue
<1>25. ASSUME SendReply PROVE Channel'
  <2>1. handling \in Requests /\ ~InQueue(handling)
    BY <1>0, <1>25 DEF SendReply, TypeOK, Channel, ChannelOf
  <2>2. \A q \in Requests : ChannelOf(q)'
    BY <1>0, <1>25, <2>1, GuardAssumption DEF SendReply, TypeOK, Channel, ChannelOf, InQueue
  <2> QED
    BY <1>0, <1>25, <2>2 DEF SendReply, Channel
<1> QED
  BY <1>1, <1>2, <1>3, <1>4, <1>5, <1>6, <1>7, <1>8, <1>9, <1>10, <1>11, <1>12, <1>13, <1>14, <1>15, <1>16, <1>17, <1>18, <1>19, <1>20, <1>21, <1>22, <1>23, <1>24, <1>25 DEF Next, Arrive, Progress, Handler

\* Only Store writes the cache, and what it writes came from the analyzer.
LEMMA CacheStep == GuardInv /\ Next => CacheIsGenuine'
<1> SUFFICES ASSUME GuardInv, Next PROVE CacheIsGenuine'
  OBVIOUS
<1>0. TypeOK /\ Flow /\ CacheIsGenuine
  BY DEF GuardInv
<1>1. ASSUME NEW r \in Requests, Store(r) PROVE CacheIsGenuine'
  BY <1>0, <1>1 DEF Store, Goto, TypeOK, Flow, FlowOf, Analysing, CacheIsGenuine, Verdicts
<1>2. CASE UNCHANGED cache
  BY <1>0, <1>2 DEF CacheIsGenuine, Verdicts
<1>3. (\E r \in Requests : Store(r)) \/ UNCHANGED cache
  BY DEF Next, Arrive, Progress, Handler, PassThrough, Download, Bypass, NeedAnalysis,
         CacheHit, CacheMiss, Admit, Rejected, Analyzed, AnalysisFailed, DecideAllow,
         DecideBlock, DecideConfirm, Send, SendTimeout, ReceiveYes, LogConsented,
         ReceiveNo, WaitTimeout, Count, BreakerTimeout, TakeRequest, UserAnswers, SendReply
<1> QED
  BY <1>1, <1>2, <1>3

\* The breaker and the calls in flight change in four actions.
LEMMA BreakerFrame ==
  ASSUME TypeOK, Breaker, UNCHANGED <<breaker, generation>>,
         \A q \in Requests : pc'[q] = "analyzing" => pc[q] = "analyzing"
  PROVE  Breaker'
<1>1. \A q \in Requests : generation[q] <= breaker.gen
  BY DEF Breaker
<1>2. At({"analyzing"})' \subseteq At({"analyzing"})
  BY DEF At
<1>3. BreakerShieldsAnalyzer'
  BY <1>2 DEF Breaker, BreakerShieldsAnalyzer
<1> QED
  BY <1>1, <1>3 DEF Breaker

\* A new generation has no call in flight, whatever the state it starts in.
LEMMA NewGeneration ==
  ASSUME TypeOK, Breaker, NEW s, breaker' = BreakerAt(s),
         generation' = generation
  PROVE  Breaker'
<1>1. breaker'.gen = breaker.gen + 1 /\ breaker.gen \in Nat
  BY DEF BreakerAt, TypeOK, BreakerStates
<1>2. \A q \in Requests : generation[q] <= breaker.gen /\ generation[q] \in Nat
  BY DEF Breaker, TypeOK
<1>3. \A q \in Requests : generation'[q] <= breaker'.gen /\ generation'[q] # breaker'.gen
  BY <1>1, <1>2
<1>4. BreakerShieldsAnalyzer'
  BY <1>3 DEF BreakerShieldsAnalyzer, At
<1> QED
  BY <1>3, <1>4 DEF Breaker

\* What an answer does to the breaker, of a request that stops analysing.
LEMMA AfterRequestKeepsBreaker ==
  ASSUME TypeOK, Breaker, NEW r \in Requests, NEW ok \in BOOLEAN,
         AfterRequest(generation[r], ok), generation' = generation,
         \A q \in Requests : pc'[q] = "analyzing" => pc[q] = "analyzing"
  PROVE  Breaker'
<1>1. CASE UNCHANGED breaker
  BY <1>1, BreakerFrame
<1>2. CASE \E s : breaker' = BreakerAt(s)
  BY <1>2, NewGeneration
<1>3. CASE /\ breaker.state = "closed"
           /\ breaker'.state = "closed" /\ breaker'.gen = breaker.gen
  BY <1>3 DEF Breaker, BreakerShieldsAnalyzer
<1> QED
  BY <1>1, <1>2, <1>3 DEF AfterRequest, TypeOK, BreakerStates

LEMMA BreakerStep == GuardInv /\ Next => Breaker'
<1> SUFFICES ASSUME GuardInv, Next PROVE Breaker'
  OBVIOUS
<1>0. TypeOK /\ Breaker
  BY DEF GuardInv
<1>1. ASSUME NEW r \in Requests, Admit(r) PROVE Breaker'
  <2>1. /\ breaker'.state = breaker.state /\ breaker'.gen = breaker.gen
        /\ breaker.probes \in Nat /\ breaker.gen \in Nat
        /\ breaker.state = "halfOpen" => breaker.probes = 0 /\ breaker'.probes = 1
        /\ breaker.state # "open"
    BY <1>0, <1>1 DEF Admit, Admits, TypeOK, BreakerStates
  <2>2. /\ generation'[r] = breaker.gen
        /\ \A q \in Requests : q # r => generation'[q] = generation[q] /\ pc'[q] = pc[q]
    BY <1>0, <1>1 DEF Admit, Goto, TypeOK
  <2>3. \A q \in Requests : generation'[q] <= breaker'.gen
    BY <1>0, <2>1, <2>2 DEF Breaker
  <2>4. breaker'.state = "halfOpen" =>
          \A q \in Requests : pc'[q] = "analyzing" /\ generation'[q] = breaker'.gen => q = r
    BY <1>0, <2>1, <2>2 DEF Breaker
  <2>5. BreakerShieldsAnalyzer'
    BY <2>1, <2>4 DEF BreakerShieldsAnalyzer, At
  <2> QED
    BY <2>1, <2>3, <2>5 DEF Breaker
<1>2. ASSUME NEW r \in Requests, Analyzed(r) PROVE Breaker'
  BY <1>0, <1>2, AfterRequestKeepsBreaker DEF Analyzed, Goto, TypeOK
<1>3. ASSUME NEW r \in Requests, AnalysisFailed(r) PROVE Breaker'
  BY <1>0, <1>3, AfterRequestKeepsBreaker DEF AnalysisFailed, Goto, TypeOK
<1>4. ASSUME BreakerTimeout PROVE Breaker'
  BY <1>0, <1>4, NewGeneration DEF BreakerTimeout, requestVars
<1>5. ASSUME NEW r \in Requests, PassThrough(r) PROVE Breaker'
  BY <1>0, <1>5, BreakerFrame DEF PassThrough, Goto, TypeOK
<1>6. ASSUME NEW r \in Requests, Download(r) PROVE Breaker'
  BY <1>0, <1>6, BreakerFrame DEF Download, Goto, TypeOK
<1>7. ASSUME NEW r \in Requests, Bypass(r) PROVE Breaker'
  BY <1>0, <1>7, BreakerFrame DEF Bypass, Goto, TypeOK
<1>8. ASSUME NEW r \in Requests, NeedAnalysis(r) PROVE Breaker'
  BY <1>0, <1>8, BreakerFrame DEF NeedAnalysis, Goto, TypeOK
<1>9. ASSUME NEW r \in Requests, CacheHit(r) PROVE Breaker'
  BY <1>0, <1>9, BreakerFrame DEF CacheHit, Goto, TypeOK
<1>10. ASSUME NEW r \in Requests, CacheMiss(r) PROVE Breaker'
  BY <1>0, <1>10, BreakerFrame DEF CacheMiss, Goto, TypeOK
<1>11. ASSUME NEW r \in Requests, Rejected(r) PROVE Breaker'
  BY <1>0, <1>11, BreakerFrame DEF Rejected, Goto, TypeOK
<1>12. ASSUME NEW r \in Requests, Store(r) PROVE Breaker'
  BY <1>0, <1>12, BreakerFrame DEF Store, Goto, TypeOK
<1>13. ASSUME NEW r \in Requests, DecideAllow(r) PROVE Breaker'
  BY <1>0, <1>13, BreakerFrame DEF DecideAllow, Goto, TypeOK
<1>14. ASSUME NEW r \in Requests, DecideBlock(r) PROVE Breaker'
  BY <1>0, <1>14, BreakerFrame DEF DecideBlock, Goto, TypeOK
<1>15. ASSUME NEW r \in Requests, DecideConfirm(r) PROVE Breaker'
  BY <1>0, <1>15, BreakerFrame DEF DecideConfirm, Goto, TypeOK
<1>16. ASSUME NEW r \in Requests, Send(r) PROVE Breaker'
  BY <1>0, <1>16, BreakerFrame DEF Send, Goto, TypeOK
<1>17. ASSUME NEW r \in Requests, SendTimeout(r) PROVE Breaker'
  BY <1>0, <1>17, BreakerFrame DEF SendTimeout, Goto, TypeOK
<1>18. ASSUME NEW r \in Requests, ReceiveYes(r) PROVE Breaker'
  BY <1>0, <1>18, BreakerFrame DEF ReceiveYes, Goto, TypeOK
<1>19. ASSUME NEW r \in Requests, LogConsented(r) PROVE Breaker'
  BY <1>0, <1>19, BreakerFrame DEF LogConsented, Goto, TypeOK
<1>20. ASSUME NEW r \in Requests, ReceiveNo(r) PROVE Breaker'
  BY <1>0, <1>20, BreakerFrame DEF ReceiveNo, Goto, TypeOK
<1>21. ASSUME NEW r \in Requests, WaitTimeout(r) PROVE Breaker'
  BY <1>0, <1>21, BreakerFrame DEF WaitTimeout, Goto, TypeOK
<1>22. ASSUME NEW r \in Requests, Count(r) PROVE Breaker'
  BY <1>0, <1>22, BreakerFrame DEF Count, Goto, TypeOK
<1>23. ASSUME TakeRequest PROVE Breaker'
  BY <1>0, <1>23, BreakerFrame DEF TakeRequest, requestVars
<1>24. ASSUME UserAnswers PROVE Breaker'
  BY <1>0, <1>24, BreakerFrame DEF UserAnswers, requestVars
<1>25. ASSUME SendReply PROVE Breaker'
  BY <1>0, <1>25, BreakerFrame DEF SendReply, requestVars
<1> QED
  BY <1>1, <1>2, <1>3, <1>4, <1>5, <1>6, <1>7, <1>8, <1>9, <1>10, <1>11, <1>12, <1>13, <1>14, <1>15, <1>16, <1>17, <1>18, <1>19, <1>20, <1>21, <1>22, <1>23, <1>24, <1>25 DEF Next, Arrive, Progress, Handler

LEMMA StutterInv == GuardInv /\ UNCHANGED vars => GuardInv'
<1> SUFFICES ASSUME GuardInv, UNCHANGED vars PROVE GuardInv'
  OBVIOUS
<1> USE DEF GuardInv, vars, requestVars, confirmVars, recordVars
<1>1. TypeOK'
  BY DEF TypeOK
<1>2. Flow'
  BY DEF Flow, FlowOf, Verdicts
<1>3. Channel'
  BY DEF Channel, ChannelOf, InQueue
<1>4. CacheIsGenuine'
  BY DEF CacheIsGenuine, Verdicts
<1>5. Breaker'
  BY DEF Breaker, BreakerShieldsAnalyzer, At
<1> QED
  BY <1>1, <1>2, <1>3, <1>4, <1>5

\* The inductive invariant: every state of every instance of ProxyGuard has it.
THEOREM Invariance == Spec => []GuardInv
<1>1. GuardInv /\ [Next]_vars => GuardInv'
  BY TypeStep, FlowStep, ChannelStep, CacheStep, BreakerStep, StutterInv DEF GuardInv
<1> QED
  BY InitInv, <1>1, PTL DEF Spec

\* Every variable keeps its type: the cache, the channel, the breaker, the counters.
THEOREM TypeCorrect == Spec => []TypeOK
BY Invariance, PTL DEF GuardInv

\* A package taken for malicious is never served and a suspicious one only on the
\* user's yes to that very request, however requests, timeouts, the cache, the
\* breaker and the handler interleave.
THEOREM ConsentIsRequired == Spec => []ConsentRequired
<1>1. GuardInv => ConsentRequired
  BY DEF GuardInv, Flow, FlowOf, ConsentRequired, At
<1> QED
  BY Invariance, <1>1, PTL

\* The cache never holds anything but what the analyzer said of the package.
THEOREM CacheStaysGenuine == Spec => []CacheIsGenuine
BY Invariance, PTL DEF GuardInv

\* An open breaker has no call of its generation in flight, a half-open one at
\* most one, also when calls of older generations are still to answer.
THEOREM BreakerShields == Spec => []BreakerShieldsAnalyzer
<1>1. GuardInv => BreakerShieldsAnalyzer
  BY DEF GuardInv, Breaker
<1> QED
  BY Invariance, <1>1, PTL

-----------------------------------------------------------------------------
(* The counters                                                             *)

\* The counters are the sizes of the sets they count, in the report and, up to the
\* requests between the two, in the audit session.
CountsInv == StatsMatchDecisions /\ AuditMatchesStats

Number(phases) == Cardinality(At(phases))
Served(action) == {r \in At({"served"}) : result[r] = action}

In(phases, a) == IF a \in phases THEN 1 ELSE 0

\* A request that moves leaves the sets it was in and joins those it comes to.
LEMMA NumberMoves ==
  ASSUME NEW r \in Requests, NEW a, NEW b, pc \in [Requests -> Phases],
         pc[r] = a, pc' = [pc EXCEPT ![r] = b], NEW phases
  PROVE  /\ Number(phases) \in Nat
         /\ Number(phases)' = Number(phases) + In(phases, b) - In(phases, a)
<1>1. At(phases) \subseteq Requests /\ IsFiniteSet(Requests)
  BY GuardAssumption DEF At
<1>2. IsFiniteSet(At(phases))
  BY <1>1, FS_Subset
<1>3. /\ Cardinality(At(phases)) \in Nat
      /\ Cardinality(At(phases) \cup {r}) = IF r \in At(phases) THEN Cardinality(At(phases)) ELSE Cardinality(At(phases)) + 1
      /\ Cardinality(At(phases) \ {r}) = IF r \in At(phases) THEN Cardinality(At(phases)) - 1 ELSE Cardinality(At(phases))
  BY <1>2, FS_CardinalityType, FS_AddElement, FS_RemoveElement
<1>4. At(phases)' = IF b \in phases THEN At(phases) \cup {r} ELSE At(phases) \ {r}
  BY DEF At
<1>5. r \in At(phases) <=> a \in phases
  BY DEF At
<1> QED
  BY <1>3, <1>4, <1>5 DEF Number, In

LEMMA ServedMoves ==
  ASSUME NEW r \in Requests, NEW b, pc \in [Requests -> Phases],
         pc[r] # "served", pc' = [pc EXCEPT ![r] = b],
         \A q \in Requests \ {r} : result'[q] = result[q], NEW action
  PROVE  /\ Cardinality(Served(action)) \in Nat
         /\ Cardinality(Served(action))' =
              Cardinality(Served(action)) + (IF b = "served" /\ result'[r] = action THEN 1 ELSE 0)
<1>1. Served(action) \subseteq Requests /\ IsFiniteSet(Requests)
  BY GuardAssumption DEF Served, At
<1>2. IsFiniteSet(Served(action))
  BY <1>1, FS_Subset
<1>3. r \notin Served(action)
  BY DEF Served, At
<1>4. /\ Cardinality(Served(action)) \in Nat
      /\ Cardinality(Served(action) \cup {r}) = Cardinality(Served(action)) + 1
  BY <1>2, <1>3, FS_CardinalityType, FS_AddElement
<1>5. Served(action)' = IF b = "served" /\ result'[r] = action THEN Served(action) \cup {r} ELSE Served(action)
  BY <1>3 DEF Served, At
<1> QED
  BY <1>4, <1>5

\* All that CountsInv counts, before and after a request has moved from a to b.
LEMMA CountsMove ==
  ASSUME TypeOK, NEW r \in Requests, NEW a, NEW b, Goto(r, a, b), a # "served",
         \A q \in Requests \ {r} : result'[q] = result[q]
  PROVE  /\ \A phases : /\ Number(phases) \in Nat
                        /\ Number(phases)' = Number(phases) + In(phases, b) - In(phases, a)
         /\ \A action : /\ Cardinality(Served(action)) \in Nat
                        /\ Cardinality(Served(action))' =
                             Cardinality(Served(action)) + (IF b = "served" /\ result'[r] = action THEN 1 ELSE 0)
<1>1. pc \in [Requests -> Phases] /\ pc[r] = a /\ pc[r] # "served" /\ pc' = [pc EXCEPT ![r] = b]
  BY DEF TypeOK, Goto
<1>2. ASSUME NEW phases
      PROVE  Number(phases) \in Nat /\ Number(phases)' = Number(phases) + In(phases, b) - In(phases, a)
  BY <1>1, NumberMoves
<1>3. ASSUME NEW action
      PROVE  /\ Cardinality(Served(action)) \in Nat
             /\ Cardinality(Served(action))' =
                  Cardinality(Served(action)) + (IF b = "served" /\ result'[r] = action THEN 1 ELSE 0)
  BY <1>1, ServedMoves
<1> QED
  BY <1>2, <1>3

Blocked   == {"refused", "unconfirmed"}
Failed    == {"unconfirmed"}
ToBlock   == {"countBlocked", "countCancelled"}
ToAllow   == {"countAllowed", "countConfirmed"}
ToConfirm == {"consented", "countConfirmed"}

\* How many requests a step from a to b brings to these phases: -1, 0 or 1.
Gain(phases, a, b) == In(phases, b) - In(phases, a)

\* A step from a to b, with this result, may add one to these counters.
Balanced(a, b, res, inAudit, inStats) ==
  /\ In(inStats, "blocked") = Gain(Blocked, a, b)
  /\ In(inStats, "confirmed") = (IF b = "served" /\ res = "confirm" THEN 1 ELSE 0)
  /\ In(inStats, "allowed") = (IF b = "served" /\ res = "allow" THEN 1 ELSE 0)
  /\ In(inStats, "cancelled") <= In(inStats, "blocked")
  /\ In(inStats, "total") = In(inStats, "allowed") + In(inStats, "confirmed") + In(inStats, "blocked")
  /\ In(inAudit, "blocked") + Gain(Failed, a, b) = In(inStats, "blocked") + Gain(ToBlock, a, b)
  /\ In(inAudit, "allowed") = In(inStats, "allowed") + In(inStats, "confirmed") + Gain(ToAllow, a, b)
  /\ In(inAudit, "confirmed") = In(inStats, "confirmed") + Gain(ToConfirm, a, b)
  /\ In(inAudit, "total") = In(inAudit, "allowed") + In(inAudit, "blocked")
                             + In(inAudit, "trusted") + In(inAudit, "insecure")

LEMMA BumpAdds ==
  ASSUME NEW C, NEW counters \in [C -> Nat], NEW which
  PROVE  /\ Bump(counters, which) \in [C -> Nat]
         /\ \A c \in C : Bump(counters, which)[c] = counters[c] + In(which, c)
         /\ which = {} => Bump(counters, which) = counters
BY DEF Bump, In

\* A step of a request that bumps what it has to keeps the books.
LEMMA BalancedStep ==
  ASSUME TypeOK, CountsInv, NEW r \in Requests, NEW a, NEW b, Goto(r, a, b), a # "served",
         \A q \in Requests \ {r} : result'[q] = result[q],
         NEW inAudit, NEW inStats,
         audit' = Bump(audit, inAudit), stats' = Bump(stats, inStats),
         Balanced(a, b, result'[r], inAudit, inStats)
  PROVE  CountsInv'
<1>1. /\ audit \in [AuditCounters -> Nat]
      /\ stats \in [StatCounters -> Nat]
  BY DEF TypeOK
<1>2. /\ \A c \in AuditCounters : audit[c] \in Nat /\ audit'[c] = audit[c] + In(inAudit, c)
      /\ \A c \in StatCounters : stats[c] \in Nat /\ stats'[c] = stats[c] + In(inStats, c)
  BY <1>1, BumpAdds
<1>3. /\ \A phases : /\ Number(phases) \in Nat
                     /\ Number(phases)' = Number(phases) + Gain(phases, a, b)
      /\ \A phases : Gain(phases, a, b) \in {-1, 0, 1}
      /\ \A phases, x : In(phases, x) \in {0, 1}
  <2>1. \A phases : /\ Number(phases) \in Nat
                    /\ Number(phases)' = Number(phases) + In(phases, b) - In(phases, a)
    BY CountsMove
  <2>2. \A phases, x : In(phases, x) \in {0, 1}
    BY DEF In
  <2> QED
    BY ONLY <2>1, <2>2 DEF Gain
<1>4. \A action : /\ Cardinality(Served(action)) \in Nat
                  /\ Cardinality(Served(action))' =
                       Cardinality(Served(action)) + (IF b = "served" /\ result'[r] = action THEN 1 ELSE 0)
  BY CountsMove
<1>5. StatsMatchDecisions'
  <2>1. /\ stats.blocked = Number(Blocked)
        /\ stats.confirmed = Cardinality(Served("confirm"))
        /\ stats.allowed = Cardinality(Served("allow"))
        /\ stats.cancelled <= stats.blocked
        /\ stats.total = stats.allowed + stats.confirmed + stats.blocked
    BY ONLY CountsInv DEF CountsInv, StatsMatchDecisions, Number, Served, Blocked
  <2>2. /\ stats'.blocked = Number(Blocked)'
        /\ stats'.confirmed = Cardinality(Served("confirm"))'
        /\ stats'.allowed = Cardinality(Served("allow"))'
        /\ stats'.cancelled <= stats'.blocked
        /\ stats'.total = stats'.allowed + stats'.confirmed + stats'.blocked
    BY ONLY <1>2, <1>3, <1>4, <2>1, Balanced(a, b, result'[r], inAudit, inStats)
    DEF Balanced, StatCounters
  <2> QED
    BY ONLY <2>2 DEF StatsMatchDecisions, Number, Served, Blocked
<1>6. AuditMatchesStats'
  <2>1. /\ audit.blocked + Number(Failed) = stats.blocked + Number(ToBlock)
        /\ audit.allowed = stats.allowed + stats.confirmed + Number(ToAllow)
        /\ audit.confirmed = stats.confirmed + Number(ToConfirm)
        /\ audit.total = audit.allowed + audit.blocked + audit.trusted + audit.insecure
    BY ONLY CountsInv DEF CountsInv, AuditMatchesStats, Number, Failed, ToBlock, ToAllow, ToConfirm
  <2>2. /\ audit'.blocked + Number(Failed)' = stats'.blocked + Number(ToBlock)'
        /\ audit'.allowed = stats'.allowed + stats'.confirmed + Number(ToAllow)'
        /\ audit'.confirmed = stats'.confirmed + Number(ToConfirm)'
        /\ audit'.total = audit'.allowed + audit'.blocked + audit'.trusted + audit'.insecure
    BY ONLY <1>2, <1>3, <2>1, Balanced(a, b, result'[r], inAudit, inStats)
    DEF Balanced, StatCounters, AuditCounters
  <2> QED
    BY ONLY <2>2 DEF AuditMatchesStats, Number, Failed, ToBlock, ToAllow, ToConfirm
<1> QED
  BY <1>5, <1>6 DEF CountsInv

\* The phases that nothing counts.
Uncounted == Phases \ (Blocked \cup ToBlock \cup ToAllow \cup ToConfirm \cup {"served"})

\* A step between phases that nothing counts, or that serves without a result.
LEMMA QuietCounts ==
  ASSUME TypeOK, CountsInv, NEW r \in Requests, NEW a \in Uncounted, NEW b \in Phases, Goto(r, a, b),
         \A q \in Requests \ {r} : result'[q] = result[q],
         b \in Uncounted \/ (b = "served" /\ result'[r] = "none"),
         UNCHANGED <<audit, stats>>
  PROVE  CountsInv'
<1>1. audit' = Bump(audit, {}) /\ stats' = Bump(stats, {})
  BY BumpAdds DEF TypeOK
<1>2. Balanced(a, b, result'[r], {}, {})
  BY DEF Balanced, Gain, In, Uncounted, Blocked, Failed, ToBlock, ToAllow, ToConfirm
<1>3. a # "served"
  BY DEF Uncounted
<1> QED
  BY <1>1, <1>2, <1>3, BalancedStep

\* A step of the breaker, of the handler or of the user counts nothing.
LEMMA StillCounts ==
  ASSUME CountsInv, UNCHANGED <<pc, result, audit, stats>>
  PROVE  CountsInv'
BY DEF CountsInv, StatsMatchDecisions, AuditMatchesStats, At

LEMMA CountsStep == GuardInv /\ CountsInv /\ [Next]_vars => CountsInv'
<1> SUFFICES ASSUME GuardInv, CountsInv, [Next]_vars PROVE CountsInv'
  OBVIOUS
<1>0. TypeOK /\ Flow
  BY DEF GuardInv
<1>1. ASSUME NEW r \in Requests,
             PassThrough(r) \/ Download(r) \/ NeedAnalysis(r) \/ CacheMiss(r) \/ Admit(r)
             \/ Rejected(r) \/ AnalysisFailed(r) \/ Store(r) \/ DecideConfirm(r)
             \/ Send(r) \/ SendTimeout(r) \/ WaitTimeout(r)
      PROVE  CountsInv'
  <2>0. /\ {"idle", "analyze", "lookup", "admit", "analyzing", "store", "decide",
             "sending", "waiting", "countFailed"} \subseteq Uncounted
        /\ {"idle", "admit", "analyzing"} \subseteq Untouched
    BY DEF Uncounted, Untouched, Phases, Final, Blocked, ToBlock, ToAllow, ToConfirm
  <2>1. PICK a \in Uncounted, b \in Uncounted \cup {"served"} :
          Goto(r, a, b) /\ (b = "served" => a \in Untouched)
    <3>1. CASE PassThrough(r) \/ Rejected(r) \/ AnalysisFailed(r)
      BY <2>0, <3>1 DEF PassThrough, Rejected, AnalysisFailed
    <3>2. CASE Download(r) \/ NeedAnalysis(r) \/ CacheMiss(r) \/ Admit(r) \/ Store(r)
      BY <2>0, <3>2 DEF Download, NeedAnalysis, CacheMiss, Admit, Store
    <3>3. CASE DecideConfirm(r) \/ Send(r) \/ SendTimeout(r) \/ WaitTimeout(r)
      BY <2>0, <3>3 DEF DecideConfirm, Send, SendTimeout, WaitTimeout
    <3> QED
      BY <1>1, <3>1, <3>2, <3>3
  <2>2. UNCHANGED <<result, audit, stats>>
    BY <1>1 DEF PassThrough, Download, NeedAnalysis, CacheMiss, Admit, Rejected, AnalysisFailed, Store,
       DecideConfirm, Send, SendTimeout, WaitTimeout, recordVars
  <2>3. b = "served" => result'[r] = "none"
    BY <1>0, <2>1, <2>2 DEF Goto, Flow, FlowOf
  <2>4. b \in Phases
    BY <2>1 DEF Uncounted, Phases, Final
  <2> QED
    BY <1>0, <2>1, <2>2, <2>3, <2>4, QuietCounts
<1>2. ASSUME NEW r \in Requests, CacheHit(r) \/ Analyzed(r)
      PROVE  CountsInv'
  <2>1. PICK a \in Uncounted, b \in Uncounted : Goto(r, a, b)
    BY <1>2 DEF CacheHit, Analyzed, Uncounted, Phases, Final, Blocked, ToBlock, ToAllow, ToConfirm
  <2>2. UNCHANGED <<audit, stats>> /\ \A q \in Requests \ {r} : result'[q] = result[q]
    BY <1>0, <1>2 DEF CacheHit, Analyzed, recordVars, TypeOK
  <2>3. b \in Phases
    BY <2>1 DEF Uncounted
  <2> QED
    BY <1>0, <2>1, <2>2, <2>3, QuietCounts
<1>3. ASSUME NEW r \in Requests, NEW a, NEW b, NEW inAudit, NEW inStats,
             Goto(r, a, b), a # "served", \A q \in Requests \ {r} : result'[q] = result[q],
             audit' = Bump(audit, inAudit), stats' = Bump(stats, inStats),
             Balanced(a, b, result'[r], inAudit, inStats)
      PROVE  CountsInv'
  BY <1>0, <1>3, BalancedStep
<1>4. /\ UNCHANGED stats => stats' = Bump(stats, {})
      /\ UNCHANGED audit => audit' = Bump(audit, {})
  BY <1>0, BumpAdds DEF TypeOK
<1>5. ASSUME NEW r \in Requests, Bypass(r) PROVE CountsInv'
  <2>1. Balanced("analyze", "decide", result'[r], {IF Insecure THEN "insecure" ELSE "trusted", "total"}, {})
    BY DEF Balanced, Gain, In, Blocked, Failed, ToBlock, ToAllow, ToConfirm
  <2>2. \A q \in Requests \ {r} : result'[q] = result[q]
    BY <1>0, <1>5 DEF Bypass, TypeOK
  <2> QED
    BY <1>3, <1>4, <1>5, <2>1, <2>2 DEF Bypass
<1>6. ASSUME NEW r \in Requests, DecideAllow(r) PROVE CountsInv'
  <2>1. Balanced("decide", "countAllowed", result'[r], {"allowed", "total"}, {})
    BY DEF Balanced, Gain, In, Blocked, Failed, ToBlock, ToAllow, ToConfirm
  <2> QED
    BY <1>3, <1>4, <1>6, <2>1 DEF DecideAllow
<1>7. ASSUME NEW r \in Requests, DecideBlock(r) PROVE CountsInv'
  <2>1. Balanced("decide", "countBlocked", result'[r], {"blocked", "total"}, {})
    BY DEF Balanced, Gain, In, Blocked, Failed, ToBlock, ToAllow, ToConfirm
  <2> QED
    BY <1>3, <1>4, <1>7, <2>1 DEF DecideBlock
<1>8. ASSUME NEW r \in Requests, ReceiveYes(r) PROVE CountsInv'
  <2>1. Balanced("waiting", "consented", result'[r], {"confirmed"}, {})
    BY DEF Balanced, Gain, In, Blocked, Failed, ToBlock, ToAllow, ToConfirm
  <2> QED
    BY <1>3, <1>4, <1>8, <2>1 DEF ReceiveYes
<1>9. ASSUME NEW r \in Requests, LogConsented(r) PROVE CountsInv'
  <2>1. Balanced("consented", "countConfirmed", result'[r], {"allowed", "total"}, {})
    BY DEF Balanced, Gain, In, Blocked, Failed, ToBlock, ToAllow, ToConfirm
  <2> QED
    BY <1>3, <1>4, <1>9, <2>1 DEF LogConsented
<1>10. ASSUME NEW r \in Requests, ReceiveNo(r) PROVE CountsInv'
  <2>1. Balanced("waiting", "countCancelled", result'[r], {"blocked", "total"}, {})
    BY DEF Balanced, Gain, In, Blocked, Failed, ToBlock, ToAllow, ToConfirm
  <2> QED
    BY <1>3, <1>4, <1>10, <2>1 DEF ReceiveNo
<1>11. ASSUME NEW r \in Requests, Count(r) PROVE CountsInv'
  <2>0. UNCHANGED <<result, audit>>
    BY <1>11 DEF Count
  <2>1. CASE Goto(r, "countAllowed", "served") /\ stats' = Bump(stats, {"allowed", "total"})
    <3>1. result'[r] = "allow"
      BY <1>0, <2>0, <2>1 DEF Goto, Flow, FlowOf
    <3>2. Balanced("countAllowed", "served", result'[r], {}, {"allowed", "total"})
      BY <3>1 DEF Balanced, Gain, In, Blocked, Failed, ToBlock, ToAllow, ToConfirm
    <3> QED
      BY <1>3, <1>4, <2>0, <2>1, <3>2
  <2>2. CASE Goto(r, "countBlocked", "refused") /\ stats' = Bump(stats, {"blocked", "total"})
    <3>2. Balanced("countBlocked", "refused", result'[r], {}, {"blocked", "total"})
      BY DEF Balanced, Gain, In, Blocked, Failed, ToBlock, ToAllow, ToConfirm
    <3> QED
      BY <1>3, <1>4, <2>0, <2>2, <3>2
  <2>3. CASE Goto(r, "countConfirmed", "served") /\ stats' = Bump(stats, {"confirmed", "total"})
    <3>1. result'[r] = "confirm"
      BY <1>0, <2>0, <2>3 DEF Goto, Flow, FlowOf, Asking
    <3>2. Balanced("countConfirmed", "served", result'[r], {}, {"confirmed", "total"})
      BY <3>1 DEF Balanced, Gain, In, Blocked, Failed, ToBlock, ToAllow, ToConfirm
    <3> QED
      BY <1>3, <1>4, <2>0, <2>3, <3>2
  <2>4. CASE Goto(r, "countCancelled", "refused") /\ stats' = Bump(stats, {"blocked", "cancelled", "total"})
    <3>2. Balanced("countCancelled", "refused", result'[r], {}, {"blocked", "cancelled", "total"})
      BY DEF Balanced, Gain, In, Blocked, Failed, ToBlock, ToAllow, ToConfirm
    <3> QED
      BY <1>3, <1>4, <2>0, <2>4, <3>2
  <2>5. CASE Goto(r, "countFailed", "unconfirmed") /\ stats' = Bump(stats, {"blocked", "total"})
    <3>2. Balanced("countFailed", "unconfirmed", result'[r], {}, {"blocked", "total"})
      BY DEF Balanced, Gain, In, Blocked, Failed, ToBlock, ToAllow, ToConfirm
    <3> QED
      BY <1>3, <1>4, <2>0, <2>5, <3>2
  <2> QED
    BY <1>11, <2>1, <2>2, <2>3, <2>4, <2>5 DEF Count
<1>12. CASE BreakerTimeout \/ Handler \/ UserAnswers \/ UNCHANGED vars
  BY <1>12, StillCounts DEF BreakerTimeout, Handler, TakeRequest, SendReply, UserAnswers,
     vars, requestVars, recordVars
<1> QED
  BY <1>1, <1>2, <1>5, <1>6, <1>7, <1>8, <1>9, <1>10, <1>11, <1>12 DEF Next, Arrive, Progress

\* A request only steps away from a phase in which it is not over, and one that is
\* over stays so.
LEMMA OverForGood ==
  ASSUME TypeOK, [Next]_vars, NEW r \in Requests, pc[r] \in Final
  PROVE  pc'[r] = pc[r]
<1>1. ASSUME NEW q \in Requests, Arrive(q) \/ Progress(q)
      PROVE  \E a \in Phases \ Final, b \in Phases : Goto(q, a, b)
  <2>1. CASE PassThrough(q) \/ Download(q) \/ Bypass(q) \/ NeedAnalysis(q) \/ CacheHit(q) \/ CacheMiss(q)
    BY <2>1 DEF PassThrough, Download, Bypass, NeedAnalysis, CacheHit, CacheMiss, Phases, Final
  <2>2. CASE Admit(q) \/ Rejected(q) \/ Analyzed(q) \/ AnalysisFailed(q) \/ Store(q)
    BY <2>2 DEF Admit, Rejected, Analyzed, AnalysisFailed, Store, Phases, Final
  <2>3. CASE DecideAllow(q) \/ DecideBlock(q) \/ DecideConfirm(q) \/ Send(q) \/ SendTimeout(q)
    BY <2>3 DEF DecideAllow, DecideBlock, DecideConfirm, Send, SendTimeout, Phases, Final
  <2>4. CASE ReceiveYes(q) \/ LogConsented(q) \/ ReceiveNo(q) \/ WaitTimeout(q) \/ Count(q)
    BY <2>4 DEF ReceiveYes, LogConsented, ReceiveNo, WaitTimeout, Count, Phases, Final
  <2> QED
    BY <1>1, <2>1, <2>2, <2>3, <2>4 DEF Arrive, Progress
<1>2. ASSUME NEW q \in Requests, Arrive(q) \/ Progress(q) PROVE pc'[r] = pc[r]
  <2>1. PICK a \in Phases \ Final, b \in Phases : Goto(q, a, b)
    BY <1>1, <1>2
  <2> QED
    BY <2>1 DEF Goto, TypeOK
<1>3. CASE BreakerTimeout \/ Handler \/ UserAnswers \/ UNCHANGED vars
  BY <1>3 DEF BreakerTimeout, Handler, TakeRequest, SendReply, UserAnswers, vars, requestVars
<1> QED
  BY <1>2, <1>3 DEF Next

\* The counters of the report only grow.
LEMMA StatsGrow ==
  ASSUME TypeOK, [Next]_vars, NEW c \in StatCounters
  PROVE  stats[c] \in Nat /\ stats'[c] \in Nat /\ stats'[c] >= stats[c]
<1>0. stats \in [StatCounters -> Nat]
  BY DEF TypeOK
<1>1. CASE \E which : stats' = Bump(stats, which)
  <2>1. PICK which : stats' = Bump(stats, which)
    BY <1>1
  <2>2. stats'[c] = stats[c] + In(which, c)
    BY <1>0, <2>1, BumpAdds
  <2> QED
    BY <1>0, <2>2 DEF In
<1>2. CASE UNCHANGED stats
  BY <1>0, <1>2
<1>3. ASSUME NEW q \in Requests, Arrive(q) \/ Progress(q)
      PROVE  UNCHANGED stats \/ Count(q)
  BY <1>3 DEF Arrive, Progress, PassThrough, Download, Bypass, NeedAnalysis, CacheHit, CacheMiss,
     Admit, Rejected, Analyzed, AnalysisFailed, Store, DecideAllow, DecideBlock, DecideConfirm,
     Send, SendTimeout, ReceiveYes, LogConsented, ReceiveNo, WaitTimeout, recordVars
<1>4. ASSUME NEW q \in Requests, Count(q) PROVE \E which : stats' = Bump(stats, which)
  BY <1>4 DEF Count
<1>5. CASE BreakerTimeout \/ Handler \/ UserAnswers \/ UNCHANGED vars
  BY <1>2, <1>5 DEF BreakerTimeout, Handler, TakeRequest, SendReply, UserAnswers, vars, recordVars
<1> QED
  BY <1>1, <1>2, <1>3, <1>4, <1>5 DEF Next

LEMMA CountsStart == Init => CountsInv
<1> SUFFICES ASSUME Init PROVE CountsInv
  OBVIOUS
<1>1. \A phases : "idle" \notin phases => Number(phases) = 0
  BY FS_EmptySet DEF Init, At, Number
<1>2. \A action : Cardinality(Served(action)) = 0
  BY FS_EmptySet DEF Init, At, Served
<1>3. /\ \A c \in AuditCounters : audit[c] = 0
      /\ \A c \in StatCounters : stats[c] = 0
  BY DEF Init
<1>4. StatsMatchDecisions
  <2>1. Number(Blocked) = 0
    BY <1>1 DEF Blocked
  <2> QED
    BY ONLY <1>2, <1>3, <2>1 DEF StatsMatchDecisions, Number, Served, Blocked, StatCounters
<1>5. AuditMatchesStats
  <2>1. Number(Failed) = 0 /\ Number(ToBlock) = 0 /\ Number(ToAllow) = 0 /\ Number(ToConfirm) = 0
    BY <1>1 DEF Failed, ToBlock, ToAllow, ToConfirm
  <2> QED
    BY ONLY <1>3, <2>1 DEF AuditMatchesStats, Number, Failed, ToBlock, ToAllow, ToConfirm,
       AuditCounters, StatCounters
<1> QED
  BY <1>4, <1>5 DEF CountsInv

THEOREM CountsInvariance == Spec => []CountsInv
<1>1. GuardInv /\ CountsInv /\ [Next]_vars => CountsInv'
  BY CountsStep
<1> QED
  BY <1>1, CountsStart, Invariance, PTL DEF Spec

\* The report counts every analysed download once and under its own heading, a
\* cancelled one as blocked too, and those that failed open not at all, however
\* the goroutines interleave between the decision and its counters.
THEOREM StatsMatch == Spec => []StatsMatchDecisions
<1>1. CountsInv => StatsMatchDecisions
  BY DEF CountsInv
<1> QED
  BY CountsInvariance, <1>1, PTL

\* The audit session and the report never drift apart: they differ only by the
\* downloads between the two, and by the confirmations nobody gave.
THEOREM AuditMatches == Spec => []AuditMatchesStats
<1>1. CountsInv => AuditMatchesStats
  BY DEF CountsInv
<1> QED
  BY CountsInvariance, <1>1, PTL

-----------------------------------------------------------------------------
(* ProxyGuard implements RequestGate                                        *)

\* A step that learns something of r, decides r, or does neither.
LEMMA JudgeStep ==
  ASSUME TypeOK, NEW r \in Requests, NEW p, NEW a \in Actions \ {"none"},
         result[r] = "none", result' = [result EXCEPT ![r] = a],
         pc[r] \notin Final, p \notin Final, pc' = [pc EXCEPT ![r] = p], reply' = reply
  PROVE  Gate!Judge(r)
<1>1. \A q \in Requests : Standing(q)' = (IF q = r THEN a ELSE Standing(q))
  BY DEF Standing, TypeOK, Actions
<1>2. \A q \in Requests : Outcome(q)' = Outcome(q)
  BY DEF Outcome, TypeOK
<1>3. Standing(r) = "unknown" /\ Outcome(r) = "pending"
  BY DEF Standing, Outcome
<1>4. a \in Gate!Standings \ {"unknown"}
  BY DEF Gate!Standings, Actions
<1>5. [q \in Requests |-> Standing(q)'] = [[q \in Requests |-> Standing(q)] EXCEPT ![r] = a]
  BY <1>1
<1>6. [q \in Requests |-> Outcome(q)'] = [q \in Requests |-> Outcome(q)]
  BY <1>2
<1> QED
  BY ONLY <1>3, <1>4, <1>5, <1>6, r \in Requests, reply' = reply DEF Gate!Judge

LEMMA DecideStep ==
  ASSUME TypeOK, NEW r \in Requests, NEW p \in Final,
         pc[r] \notin Final, pc' = [pc EXCEPT ![r] = p], result' = result, reply' = reply,
         p = "served" => result[r] \in {"none", "allow"} \/ (result[r] = "confirm" /\ reply[r] = "yes"),
         p # "served" => result[r] \in {"confirm", "block"}
  PROVE  Gate!Serve(r) \/ Gate!Refuse(r)
<1>1. \A q \in Requests : Outcome(q)' =
        (IF q # r THEN Outcome(q) ELSE IF p = "served" THEN "served" ELSE "refused")
  BY DEF Outcome, TypeOK
<1>2. Outcome(r) = "pending"
  BY DEF Outcome
<1>3. CASE p = "served"
  BY <1>1, <1>2, <1>3 DEF Gate!Serve, Standing, Outcome
<1>4. CASE p # "served"
  BY <1>1, <1>2, <1>4 DEF Gate!Refuse, Standing, Outcome
<1> QED
  BY <1>3, <1>4

LEMMA QuietStep ==
  ASSUME TypeOK, result' = result, reply' = reply,
         \A q \in Requests : \/ pc'[q] = pc[q]
                             \/ pc[q] \notin Final /\ pc'[q] \notin Final
  PROVE  UNCHANGED Gate!gateVars
<1>1. \A q \in Requests : Outcome(q)' = Outcome(q)
  BY DEF Outcome, TypeOK, Phases
<1>2. \A q \in Requests : Standing(q)' = Standing(q)
  BY DEF Standing
<1> QED
  BY <1>1, <1>2 DEF Gate!gateVars

LEMMA GateStep == GuardInv /\ [Next]_vars => [Gate!GateNext]_(Gate!gateVars)
<1> DEFINE Goal == Gate!GateNext \/ UNCHANGED Gate!gateVars
<1> SUFFICES ASSUME GuardInv, [Next]_vars PROVE Goal
  OBVIOUS
<1> USE DEF Goto, Final, requestVars, confirmVars, recordVars
<1>0. TypeOK /\ Flow /\ Channel
  BY DEF GuardInv
<1>1. ASSUME NEW r \in Requests, Bypass(r) PROVE Goal
  <2>1. Gate!Judge(r)
    BY <1>0, <1>1, JudgeStep DEF Bypass, Flow, FlowOf, Untouched, Actions
  <2> QED
    BY <2>1 DEF Gate!GateNext
<1>2. ASSUME NEW r \in Requests, CacheHit(r) PROVE Goal
  <2>1. cache[pkg[r]] \in Actions \ {"none"}
    BY <1>0, <1>2 DEF CacheHit, TypeOK, Flow, FlowOf, Analysing
  <2>2. Gate!Judge(r)
    BY <1>0, <1>2, <2>1, JudgeStep DEF CacheHit, Flow, FlowOf, Untouched
  <2> QED
    BY <2>2 DEF Gate!GateNext
<1>3. ASSUME NEW r \in Requests, Analyzed(r) PROVE Goal
  <2>1. PICK a \in Verdicts(pkg[r]) : result' = [result EXCEPT ![r] = a]
    BY <1>3 DEF Analyzed, Verdicts
  <2>2. a \in Actions \ {"none"}
    BY <1>0, <1>3, VerdictsAreActions DEF Analyzed, Flow, FlowOf, Analysing
  <2>3. Gate!Judge(r)
    BY <1>0, <1>3, <2>1, <2>2, JudgeStep DEF Analyzed, Flow, FlowOf, Untouched
  <2> QED
    BY <2>3 DEF Gate!GateNext
<1>4. ASSUME NEW r \in Requests, PassThrough(r) PROVE Goal
  <2>1. Gate!Serve(r) \/ Gate!Refuse(r)
    BY <1>0, <1>4, DecideStep DEF PassThrough, Flow, FlowOf, Untouched
  <2> QED
    BY <2>1 DEF Gate!GateNext
<1>5. ASSUME NEW r \in Requests, Rejected(r) PROVE Goal
  <2>1. Gate!Serve(r) \/ Gate!Refuse(r)
    BY <1>0, <1>5, DecideStep DEF Rejected, Flow, FlowOf, Untouched
  <2> QED
    BY <2>1 DEF Gate!GateNext
<1>6. ASSUME NEW r \in Requests, AnalysisFailed(r) PROVE Goal
  <2>1. Gate!Serve(r) \/ Gate!Refuse(r)
    BY <1>0, <1>6, DecideStep DEF AnalysisFailed, Flow, FlowOf, Untouched
  <2> QED
    BY <2>1 DEF Gate!GateNext
<1>7. ASSUME NEW r \in Requests, Count(r) PROVE Goal
  <2>1. PICK p \in Final :
          /\ pc' = [pc EXCEPT ![r] = p] /\ pc[r] \notin Final
          /\ p = "served" => pc[r] \in {"countAllowed", "countConfirmed"}
          /\ p # "served" => pc[r] \in {"countBlocked", "countCancelled", "countFailed"}
    BY <1>7 DEF Count
  <2>2. /\ p = "served" => result[r] = "allow" \/ (result[r] = "confirm" /\ reply[r] = "yes")
        /\ p # "served" => result[r] \in {"confirm", "block"}
    BY <1>0, <2>1 DEF Flow, FlowOf, Asking
  <2>3. result' = result /\ reply' = reply
    BY <1>7 DEF Count
  <2>4. Gate!Serve(r) \/ Gate!Refuse(r)
    BY <1>0, <2>1, <2>2, <2>3, DecideStep
  <2> QED
    BY <2>4 DEF Gate!GateNext
<1>8. ASSUME NEW r \in Requests, Download(r) PROVE Goal
  BY <1>0, <1>8, QuietStep DEF Download, TypeOK
<1>9. ASSUME NEW r \in Requests, NeedAnalysis(r) PROVE Goal
  BY <1>0, <1>9, QuietStep DEF NeedAnalysis, TypeOK
<1>10. ASSUME NEW r \in Requests, CacheMiss(r) PROVE Goal
  BY <1>0, <1>10, QuietStep DEF CacheMiss, TypeOK
<1>11. ASSUME NEW r \in Requests, Admit(r) PROVE Goal
  BY <1>0, <1>11, QuietStep DEF Admit, TypeOK
<1>12. ASSUME NEW r \in Requests, Store(r) PROVE Goal
  BY <1>0, <1>12, QuietStep DEF Store, TypeOK
<1>13. ASSUME NEW r \in Requests, DecideAllow(r) PROVE Goal
  BY <1>0, <1>13, QuietStep DEF DecideAllow, TypeOK
<1>14. ASSUME NEW r \in Requests, DecideBlock(r) PROVE Goal
  BY <1>0, <1>14, QuietStep DEF DecideBlock, TypeOK
<1>15. ASSUME NEW r \in Requests, DecideConfirm(r) PROVE Goal
  BY <1>0, <1>15, QuietStep DEF DecideConfirm, TypeOK
<1>16. ASSUME NEW r \in Requests, Send(r) PROVE Goal
  BY <1>0, <1>16, QuietStep DEF Send, TypeOK
<1>17. ASSUME NEW r \in Requests, SendTimeout(r) PROVE Goal
  BY <1>0, <1>17, QuietStep DEF SendTimeout, TypeOK
<1>18. ASSUME NEW r \in Requests, ReceiveYes(r) PROVE Goal
  BY <1>0, <1>18, QuietStep DEF ReceiveYes, TypeOK
<1>19. ASSUME NEW r \in Requests, LogConsented(r) PROVE Goal
  BY <1>0, <1>19, QuietStep DEF LogConsented, TypeOK
<1>20. ASSUME NEW r \in Requests, ReceiveNo(r) PROVE Goal
  BY <1>0, <1>20, QuietStep DEF ReceiveNo, TypeOK
<1>21. ASSUME NEW r \in Requests, WaitTimeout(r) PROVE Goal
  BY <1>0, <1>21, QuietStep DEF WaitTimeout, TypeOK
<1>22. ASSUME BreakerTimeout PROVE Goal
  BY <1>0, <1>22, QuietStep DEF BreakerTimeout
<1>23. ASSUME TakeRequest PROVE Goal
  BY <1>0, <1>23, QuietStep DEF TakeRequest
<1>24. ASSUME UserAnswers PROVE Goal
  BY <1>0, <1>24, QuietStep DEF UserAnswers
<1>25. ASSUME SendReply PROVE Goal
  <2>1. /\ handling \in Requests /\ reply[handling] = "none" /\ result[handling] = "confirm"
        /\ answer \in {"yes", "no"} /\ reply' = [reply EXCEPT ![handling] = answer]
    BY <1>0, <1>25 DEF SendReply, TypeOK, YesNo, Channel, ChannelOf
  <2>2. \A q \in Requests : Standing(q)' = Standing(q) /\ Outcome(q)' = Outcome(q)
    BY <1>25 DEF SendReply, Standing, Outcome
  <2>3. Gate!Answer(handling)
    BY <1>0, <2>1, <2>2 DEF Gate!Answer, Standing, Outcome, TypeOK
  <2> QED
    BY <2>1, <2>3 DEF Gate!GateNext
<1>26. CASE UNCHANGED vars
  BY <1>0, <1>26, QuietStep DEF vars
<1> QED
  BY <1>1, <1>2, <1>3, <1>4, <1>5, <1>6, <1>7, <1>8, <1>9, <1>10, <1>11, <1>12, <1>13, <1>14, <1>15, <1>16, <1>17, <1>18, <1>19, <1>20, <1>21, <1>22, <1>23, <1>24, <1>25, <1>26 DEF Next, Arrive, Progress, Handler

\* Every behaviour of the proxy's concurrent machinery is one of RequestGate: each
\* download is judged at most once, decided once, and refused only when flagged.
THEOREM GuardImplementsGate == Spec => ImplementsGate
<1>1. Init => Gate!GateInit
  BY DEF Init, Gate!GateInit, Final, Standing, Outcome
<1> QED
  BY Invariance, <1>1, GateStep, PTL DEF Spec, ImplementsGate, Gate!GateSpec

-----------------------------------------------------------------------------
(* The session                                                              *)

Quiet   == \A r \in Requests : pc[r] = "idle"
Setup   == {"begun", "certified", "wired", "ready"}
Over    == {"failed", "errorExit", "succeeded", "auditClosed", "leaving", "exited"}

\* The session owes its summary.
Owes == "complete" \in deferred

WiringInv ==
  /\ certFile => "cert" \in deferred
  /\ proxyUp => "proxy" \in deferred
  /\ chanClosed => /\ "proxy" \notin deferred /\ "channel" \notin deferred
                   /\ phase \in Over \cup {"returning", "crashed"}
  /\ phase \in Over => deferred = {}
  /\ deferred # {} => started
  /\ summaries = (IF started /\ ~Owes THEN 1 ELSE 0)

PhaseInv ==
  /\ phase \in Setup \cup {"joining", "ended", "counted", "listed"} => Owes
  /\ phase = "running" /\ mode # "noProxy" => Owes
  /\ phase = "summarised" => ~Owes
  /\ phase = "start" => deferred = {} /\ ~started
  /\ mode = "noProxy" => ~started /\ deferred = {}
  /\ child = "running" => phase = "running"
  /\ phase \in Setup \cup {"start"} => child = "none" /\ mode = "none"

RequestInv ==
  /\ phase \in Setup \cup {"start"} => Quiet
  /\ phase = "returning" /\ Owes => Quiet
  /\ ~Quiet => started
  /\ phase = "crashed" => chanClosed /\ ~Owes /\ ~Quiet

SessionInv == WiringInv /\ PhaseInv /\ RequestInv

-----------------------------------------------------------------------------
\* A step of the guard within a session is a step of the guard.
LEMMA SessionStepIsGuardStep == [SessionNext]_allVars => [Next]_vars
<1> SUFFICES ASSUME [SessionNext]_allVars PROVE [Next]_vars
  OBVIOUS
<1>1. CASE MainStep
  BY <1>1 DEF MainStep, SkipProxy, BeginSession, DryRunEnds, WriteCertificate, MakeChannel, StartProxy, SetupFails, LaunchDirect, LaunchPty, PreparePtySession, LaunchFails, JoinLoop, TakeSnapshot, Summarise, HandleResult, StopProxy, CloseChannel, RemoveCertificate, CompleteSession, Return, SpawnOnError, ErrorExit, CloseAudit, SpawnOnSuccess, Exit, Spawn
<1>2. CASE ChildEnds \/ LateLine
  BY <1>2 DEF ChildEnds, LateLine
<1>3. CASE Panic
  BY <1>3 DEF Panic
<1>4. CASE GuardStep
  BY <1>4 DEF GuardStep, RequestStep, HandlerStep, AnswerStep, TimeoutStep, Next
<1>5. CASE UNCHANGED allVars
  BY <1>5 DEF allVars
<1> QED
  BY <1>1, <1>2, <1>3, <1>4, <1>5 DEF SessionNext

\* Every run of a session is a run of the guard: the handlers of ProxyGuard.tla meet
\* nothing in proxyFlow.Run that they do not meet alone.
THEOREM SessionRunsGuard == SessionSpec => Spec
<1>1. SessionInit => Init
  BY DEF SessionInit
<1> QED
  BY <1>1, SessionStepIsGuardStep, PTL DEF SessionSpec, Spec

\* No download of a malicious package is served in a session either, whatever it
\* leaves behind (analyzePackage and handleAnalysisResult of base_registry.go).
THEOREM SessionConsent == SessionSpec => []ConsentRequired
BY SessionRunsGuard, ConsentIsRequired, PTL

-----------------------------------------------------------------------------
LEMMA ProgressIsNotIdle == \A r \in Requests : Progress(r) => pc[r] # "idle"
BY DEF Progress, Goto, Bypass, NeedAnalysis, CacheHit, CacheMiss, Admit, Rejected,
       Analyzed, AnalysisFailed, Store, DecideAllow, DecideBlock, DecideConfirm, Send,
       SendTimeout, ReceiveYes, LogConsented, ReceiveNo, WaitTimeout, Count

\* The four kinds of guard steps leave the session alone, but for the line an answer
\* takes from the loop over the keyboard, and start a request only while the proxy is up
\* and the package manager runs.
LEMMA GuardStepFrame ==
  ASSUME GuardStep
  PROVE  /\ UNCHANGED <<mainVars, mode, child, code, seen, wiringVars, reportVars, processVars>>
         /\ Quiet => Quiet' \/ (proxyUp /\ child = "running")
<1>1. CASE \E r \in Requests : RequestStep(r)
  BY <1>1, ProgressIsNotIdle DEF RequestStep, Quiet, sessionVars, childVars
<1>2. CASE HandlerStep
  BY <1>2 DEF HandlerStep, Handler, TakeRequest, SendReply, requestVars, Quiet, sessionVars, childVars
<1>3. CASE AnswerStep
  BY <1>3 DEF AnswerStep, UserAnswers, requestVars, Quiet
<1>4. CASE TimeoutStep
  BY <1>4 DEF TimeoutStep, BreakerTimeout, requestVars, Quiet, sessionVars, childVars
<1> QED
  BY <1>1, <1>2, <1>3, <1>4 DEF GuardStep

\* The main goroutine, the package manager, a late line and a panic do not touch the requests.
LEMMA MainFrame == MainStep \/ ChildEnds \/ LateLine \/ Panic => UNCHANGED vars
BY DEF MainStep, ChildEnds, LateLine, Panic, SkipProxy, BeginSession, DryRunEnds, WriteCertificate, MakeChannel, StartProxy, SetupFails, LaunchDirect, LaunchPty, PreparePtySession, LaunchFails, JoinLoop, TakeSnapshot, Summarise, HandleResult, StopProxy, CloseChannel, RemoveCertificate, CompleteSession, Return, SpawnOnError, ErrorExit, CloseAudit, SpawnOnSuccess, Exit, Spawn

LEMMA QuietFrame == UNCHANGED vars => Quiet' = Quiet
BY DEF vars, requestVars, Quiet

LEMMA SessionInitInv == SessionInit => SessionInv
BY DEF SessionInit, Init, SessionInv, WiringInv, PhaseInv, RequestInv, Quiet, Setup, Over, Owes

LEMMA SessionStep == SessionInv /\ [SessionNext]_allVars => SessionInv'
<1> SUFFICES ASSUME SessionInv, [SessionNext]_allVars PROVE SessionInv'
  OBVIOUS
<1> USE DEF Setup, Over, Owes, Advance, Defer
<1>0. WiringInv /\ PhaseInv /\ RequestInv
  BY DEF SessionInv
<1>1. CASE SkipProxy
  <2>0. Quiet' = Quiet
    BY <1>1, MainFrame, QuietFrame DEF MainStep
  <2>1. WiringInv'
    BY <1>0, <1>1, <2>0 DEF WiringInv, PhaseInv, RequestInv, SkipProxy, mainVars, childVars, wiringVars, reportVars
  <2>2. PhaseInv'
    BY <1>0, <1>1, <2>0 DEF WiringInv, PhaseInv, RequestInv, SkipProxy, mainVars, childVars, wiringVars, reportVars
  <2>3. RequestInv'
    BY <1>0, <1>1, <2>0 DEF WiringInv, PhaseInv, RequestInv, SkipProxy, mainVars, childVars, wiringVars, reportVars
  <2> QED BY <2>1, <2>2, <2>3 DEF SessionInv
<1>2. CASE BeginSession
  <2>0. Quiet' = Quiet
    BY <1>2, MainFrame, QuietFrame DEF MainStep
  <2>1. WiringInv'
    BY <1>0, <1>2, <2>0 DEF WiringInv, PhaseInv, RequestInv, BeginSession, mainVars, childVars, wiringVars, reportVars
  <2>2. PhaseInv'
    BY <1>0, <1>2, <2>0 DEF WiringInv, PhaseInv, RequestInv, BeginSession, mainVars, childVars, wiringVars, reportVars
  <2>3. RequestInv'
    BY <1>0, <1>2, <2>0 DEF WiringInv, PhaseInv, RequestInv, BeginSession, mainVars, childVars, wiringVars, reportVars
  <2> QED BY <2>1, <2>2, <2>3 DEF SessionInv
<1>3. CASE DryRunEnds
  <2>0. Quiet' = Quiet
    BY <1>3, MainFrame, QuietFrame DEF MainStep
  <2>1. WiringInv'
    BY <1>0, <1>3, <2>0 DEF WiringInv, PhaseInv, RequestInv, DryRunEnds, mainVars, childVars, wiringVars, reportVars
  <2>2. PhaseInv'
    BY <1>0, <1>3, <2>0 DEF WiringInv, PhaseInv, RequestInv, DryRunEnds, mainVars, childVars, wiringVars, reportVars
  <2>3. RequestInv'
    BY <1>0, <1>3, <2>0 DEF WiringInv, PhaseInv, RequestInv, DryRunEnds, mainVars, childVars, wiringVars, reportVars
  <2> QED BY <2>1, <2>2, <2>3 DEF SessionInv
<1>4. CASE WriteCertificate
  <2>0. Quiet' = Quiet
    BY <1>4, MainFrame, QuietFrame DEF MainStep
  <2>1. WiringInv'
    BY <1>0, <1>4, <2>0 DEF WiringInv, PhaseInv, RequestInv, WriteCertificate, mainVars, childVars, wiringVars, reportVars
  <2>2. PhaseInv'
    BY <1>0, <1>4, <2>0 DEF WiringInv, PhaseInv, RequestInv, WriteCertificate, mainVars, childVars, wiringVars, reportVars
  <2>3. RequestInv'
    BY <1>0, <1>4, <2>0 DEF WiringInv, PhaseInv, RequestInv, WriteCertificate, mainVars, childVars, wiringVars, reportVars
  <2> QED BY <2>1, <2>2, <2>3 DEF SessionInv
<1>5. CASE MakeChannel
  <2>0. Quiet' = Quiet
    BY <1>5, MainFrame, QuietFrame DEF MainStep
  <2>1. WiringInv'
    BY <1>0, <1>5, <2>0 DEF WiringInv, PhaseInv, RequestInv, MakeChannel, mainVars, childVars, wiringVars, reportVars
  <2>2. PhaseInv'
    BY <1>0, <1>5, <2>0 DEF WiringInv, PhaseInv, RequestInv, MakeChannel, mainVars, childVars, wiringVars, reportVars
  <2>3. RequestInv'
    BY <1>0, <1>5, <2>0 DEF WiringInv, PhaseInv, RequestInv, MakeChannel, mainVars, childVars, wiringVars, reportVars
  <2> QED BY <2>1, <2>2, <2>3 DEF SessionInv
<1>6. CASE StartProxy
  <2>0. Quiet' = Quiet
    BY <1>6, MainFrame, QuietFrame DEF MainStep
  <2>1. WiringInv'
    BY <1>0, <1>6, <2>0 DEF WiringInv, PhaseInv, RequestInv, StartProxy, mainVars, childVars, wiringVars, reportVars
  <2>2. PhaseInv'
    BY <1>0, <1>6, <2>0 DEF WiringInv, PhaseInv, RequestInv, StartProxy, mainVars, childVars, wiringVars, reportVars
  <2>3. RequestInv'
    BY <1>0, <1>6, <2>0 DEF WiringInv, PhaseInv, RequestInv, StartProxy, mainVars, childVars, wiringVars, reportVars
  <2> QED BY <2>1, <2>2, <2>3 DEF SessionInv
<1>7. CASE SetupFails
  <2>0. Quiet' = Quiet
    BY <1>7, MainFrame, QuietFrame DEF MainStep
  <2>1. WiringInv'
    BY <1>0, <1>7, <2>0 DEF WiringInv, PhaseInv, RequestInv, SetupFails, mainVars, childVars, wiringVars, reportVars
  <2>2. PhaseInv'
    BY <1>0, <1>7, <2>0 DEF WiringInv, PhaseInv, RequestInv, SetupFails, mainVars, childVars, wiringVars, reportVars
  <2>3. RequestInv'
    BY <1>0, <1>7, <2>0 DEF WiringInv, PhaseInv, RequestInv, SetupFails, mainVars, childVars, wiringVars, reportVars
  <2> QED BY <2>1, <2>2, <2>3 DEF SessionInv
<1>8. CASE LaunchDirect
  <2>0. Quiet' = Quiet
    BY <1>8, MainFrame, QuietFrame DEF MainStep
  <2>1. WiringInv'
    BY <1>0, <1>8, <2>0 DEF WiringInv, PhaseInv, RequestInv, LaunchDirect, mainVars, childVars, wiringVars, reportVars
  <2>2. PhaseInv'
    BY <1>0, <1>8, <2>0 DEF WiringInv, PhaseInv, RequestInv, LaunchDirect, mainVars, childVars, wiringVars, reportVars
  <2>3. RequestInv'
    BY <1>0, <1>8, <2>0 DEF WiringInv, PhaseInv, RequestInv, LaunchDirect, mainVars, childVars, wiringVars, reportVars
  <2> QED BY <2>1, <2>2, <2>3 DEF SessionInv
<1>9. CASE LaunchPty
  <2>0. Quiet' = Quiet
    BY <1>9, MainFrame, QuietFrame DEF MainStep
  <2>1. WiringInv'
    BY <1>0, <1>9, <2>0 DEF WiringInv, PhaseInv, RequestInv, LaunchPty, mainVars, childVars, wiringVars, reportVars
  <2>2. PhaseInv'
    BY <1>0, <1>9, <2>0 DEF WiringInv, PhaseInv, RequestInv, LaunchPty, mainVars, childVars, wiringVars, reportVars
  <2>3. RequestInv'
    BY <1>0, <1>9, <2>0 DEF WiringInv, PhaseInv, RequestInv, LaunchPty, mainVars, childVars, wiringVars, reportVars
  <2> QED BY <2>1, <2>2, <2>3 DEF SessionInv
<1>10. CASE PreparePtySession
  <2>0. Quiet' = Quiet
    BY <1>10, MainFrame, QuietFrame DEF MainStep
  <2>1. WiringInv'
    BY <1>0, <1>10, <2>0 DEF WiringInv, PhaseInv, RequestInv, PreparePtySession, mainVars, childVars, wiringVars, reportVars
  <2>2. PhaseInv'
    BY <1>0, <1>10, <2>0 DEF WiringInv, PhaseInv, RequestInv, PreparePtySession, mainVars, childVars, wiringVars, reportVars
  <2>3. RequestInv'
    BY <1>0, <1>10, <2>0 DEF WiringInv, PhaseInv, RequestInv, PreparePtySession, mainVars, childVars, wiringVars, reportVars
  <2> QED BY <2>1, <2>2, <2>3 DEF SessionInv
<1>11. CASE LaunchFails
  <2>0. Quiet' = Quiet
    BY <1>11, MainFrame, QuietFrame DEF MainStep
  <2>1. WiringInv'
    BY <1>0, <1>11, <2>0 DEF WiringInv, PhaseInv, RequestInv, LaunchFails, mainVars, childVars, wiringVars, reportVars
  <2>2. PhaseInv'
    BY <1>0, <1>11, <2>0 DEF WiringInv, PhaseInv, RequestInv, LaunchFails, mainVars, childVars, wiringVars, reportVars
  <2>3. RequestInv'
    BY <1>0, <1>11, <2>0 DEF WiringInv, PhaseInv, RequestInv, LaunchFails, mainVars, childVars, wiringVars, reportVars
  <2> QED BY <2>1, <2>2, <2>3 DEF SessionInv
<1>12. CASE TakeSnapshot
  <2>0. Quiet' = Quiet
    BY <1>12, MainFrame, QuietFrame DEF MainStep
  <2>1. WiringInv'
    BY <1>0, <1>12, <2>0 DEF WiringInv, PhaseInv, RequestInv, TakeSnapshot, mainVars, childVars, wiringVars, reportVars
  <2>2. PhaseInv'
    BY <1>0, <1>12, <2>0 DEF WiringInv, PhaseInv, RequestInv, TakeSnapshot, mainVars, childVars, wiringVars, reportVars
  <2>3. RequestInv'
    BY <1>0, <1>12, <2>0 DEF WiringInv, PhaseInv, RequestInv, TakeSnapshot, mainVars, childVars, wiringVars, reportVars
  <2> QED BY <2>1, <2>2, <2>3 DEF SessionInv
<1>13. CASE Summarise
  <2>0. Quiet' = Quiet
    BY <1>13, MainFrame, QuietFrame DEF MainStep
  <2>1. WiringInv'
    BY <1>0, <1>13, <2>0 DEF WiringInv, PhaseInv, RequestInv, Summarise, LogSummary, mainVars, childVars, wiringVars, reportVars
  <2>2. PhaseInv'
    BY <1>0, <1>13, <2>0 DEF WiringInv, PhaseInv, RequestInv, Summarise, LogSummary, mainVars, childVars, wiringVars, reportVars
  <2>3. RequestInv'
    BY <1>0, <1>13, <2>0 DEF WiringInv, PhaseInv, RequestInv, Summarise, LogSummary, mainVars, childVars, wiringVars, reportVars
  <2> QED BY <2>1, <2>2, <2>3 DEF SessionInv
<1>14. CASE HandleResult
  <2>0. Quiet' = Quiet
    BY <1>14, MainFrame, QuietFrame DEF MainStep
  <2>1. WiringInv'
    BY <1>0, <1>14, <2>0 DEF WiringInv, PhaseInv, RequestInv, HandleResult, ExecutionError, mainVars, childVars, wiringVars, reportVars
  <2>2. PhaseInv'
    BY <1>0, <1>14, <2>0 DEF WiringInv, PhaseInv, RequestInv, HandleResult, ExecutionError, mainVars, childVars, wiringVars, reportVars
  <2>3. RequestInv'
    BY <1>0, <1>14, <2>0 DEF WiringInv, PhaseInv, RequestInv, HandleResult, ExecutionError, mainVars, childVars, wiringVars, reportVars
  <2> QED BY <2>1, <2>2, <2>3 DEF SessionInv
<1>15. CASE StopProxy
  <2>0. Quiet' = Quiet
    BY <1>15, MainFrame, QuietFrame DEF MainStep
  <2>1. WiringInv'
    BY <1>0, <1>15, <2>0 DEF WiringInv, PhaseInv, RequestInv, StopProxy, mainVars, childVars, wiringVars, reportVars
  <2>2. PhaseInv'
    BY <1>0, <1>15, <2>0 DEF WiringInv, PhaseInv, RequestInv, StopProxy, mainVars, childVars, wiringVars, reportVars
  <2>3. RequestInv'
    BY <1>0, <1>15, <2>0 DEF WiringInv, PhaseInv, RequestInv, StopProxy, mainVars, childVars, wiringVars, reportVars
  <2> QED BY <2>1, <2>2, <2>3 DEF SessionInv
<1>16. CASE CloseChannel
  <2>0. Quiet' = Quiet
    BY <1>16, MainFrame, QuietFrame DEF MainStep
  <2>1. WiringInv'
    BY <1>0, <1>16, <2>0 DEF WiringInv, PhaseInv, RequestInv, CloseChannel, mainVars, childVars, wiringVars, reportVars
  <2>2. PhaseInv'
    BY <1>0, <1>16, <2>0 DEF WiringInv, PhaseInv, RequestInv, CloseChannel, mainVars, childVars, wiringVars, reportVars
  <2>3. RequestInv'
    BY <1>0, <1>16, <2>0 DEF WiringInv, PhaseInv, RequestInv, CloseChannel, mainVars, childVars, wiringVars, reportVars
  <2> QED BY <2>1, <2>2, <2>3 DEF SessionInv
<1>17. CASE RemoveCertificate
  <2>0. Quiet' = Quiet
    BY <1>17, MainFrame, QuietFrame DEF MainStep
  <2>1. WiringInv'
    BY <1>0, <1>17, <2>0 DEF WiringInv, PhaseInv, RequestInv, RemoveCertificate, mainVars, childVars, wiringVars, reportVars
  <2>2. PhaseInv'
    BY <1>0, <1>17, <2>0 DEF WiringInv, PhaseInv, RequestInv, RemoveCertificate, mainVars, childVars, wiringVars, reportVars
  <2>3. RequestInv'
    BY <1>0, <1>17, <2>0 DEF WiringInv, PhaseInv, RequestInv, RemoveCertificate, mainVars, childVars, wiringVars, reportVars
  <2> QED BY <2>1, <2>2, <2>3 DEF SessionInv
<1>18. CASE CompleteSession
  <2>0. Quiet' = Quiet
    BY <1>18, MainFrame, QuietFrame DEF MainStep
  <2>1. WiringInv'
    BY <1>0, <1>18, <2>0 DEF WiringInv, PhaseInv, RequestInv, CompleteSession, LogSummary, mainVars, childVars, wiringVars, reportVars
  <2>2. PhaseInv'
    BY <1>0, <1>18, <2>0 DEF WiringInv, PhaseInv, RequestInv, CompleteSession, LogSummary, mainVars, childVars, wiringVars, reportVars
  <2>3. RequestInv'
    BY <1>0, <1>18, <2>0 DEF WiringInv, PhaseInv, RequestInv, CompleteSession, LogSummary, mainVars, childVars, wiringVars, reportVars
  <2> QED BY <2>1, <2>2, <2>3 DEF SessionInv
<1>19. CASE Return
  <2>0. Quiet' = Quiet
    BY <1>19, MainFrame, QuietFrame DEF MainStep
  <2>1. WiringInv'
    BY <1>0, <1>19, <2>0 DEF WiringInv, PhaseInv, RequestInv, Return, mainVars, childVars, wiringVars, reportVars
  <2>2. PhaseInv'
    BY <1>0, <1>19, <2>0 DEF WiringInv, PhaseInv, RequestInv, Return, mainVars, childVars, wiringVars, reportVars
  <2>3. RequestInv'
    BY <1>0, <1>19, <2>0 DEF WiringInv, PhaseInv, RequestInv, Return, mainVars, childVars, wiringVars, reportVars
  <2> QED BY <2>1, <2>2, <2>3 DEF SessionInv
<1>20. CASE SpawnOnError
  <2>0. Quiet' = Quiet
    BY <1>20, MainFrame, QuietFrame DEF MainStep
  <2>1. WiringInv'
    BY <1>0, <1>20, <2>0 DEF WiringInv, PhaseInv, RequestInv, SpawnOnError, Spawn, mainVars, childVars, wiringVars, reportVars
  <2>2. PhaseInv'
    BY <1>0, <1>20, <2>0 DEF WiringInv, PhaseInv, RequestInv, SpawnOnError, Spawn, mainVars, childVars, wiringVars, reportVars
  <2>3. RequestInv'
    BY <1>0, <1>20, <2>0 DEF WiringInv, PhaseInv, RequestInv, SpawnOnError, Spawn, mainVars, childVars, wiringVars, reportVars
  <2> QED BY <2>1, <2>2, <2>3 DEF SessionInv
<1>21. CASE ErrorExit
  <2>0. Quiet' = Quiet
    BY <1>21, MainFrame, QuietFrame DEF MainStep
  <2>1. WiringInv'
    BY <1>0, <1>21, <2>0 DEF WiringInv, PhaseInv, RequestInv, ErrorExit, mainVars, childVars, wiringVars, reportVars
  <2>2. PhaseInv'
    BY <1>0, <1>21, <2>0 DEF WiringInv, PhaseInv, RequestInv, ErrorExit, mainVars, childVars, wiringVars, reportVars
  <2>3. RequestInv'
    BY <1>0, <1>21, <2>0 DEF WiringInv, PhaseInv, RequestInv, ErrorExit, mainVars, childVars, wiringVars, reportVars
  <2> QED BY <2>1, <2>2, <2>3 DEF SessionInv
<1>22. CASE CloseAudit
  <2>0. Quiet' = Quiet
    BY <1>22, MainFrame, QuietFrame DEF MainStep
  <2>1. WiringInv'
    BY <1>0, <1>22, <2>0 DEF WiringInv, PhaseInv, RequestInv, CloseAudit, mainVars, childVars, wiringVars, reportVars
  <2>2. PhaseInv'
    BY <1>0, <1>22, <2>0 DEF WiringInv, PhaseInv, RequestInv, CloseAudit, mainVars, childVars, wiringVars, reportVars
  <2>3. RequestInv'
    BY <1>0, <1>22, <2>0 DEF WiringInv, PhaseInv, RequestInv, CloseAudit, mainVars, childVars, wiringVars, reportVars
  <2> QED BY <2>1, <2>2, <2>3 DEF SessionInv
<1>23. CASE SpawnOnSuccess
  <2>0. Quiet' = Quiet
    BY <1>23, MainFrame, QuietFrame DEF MainStep
  <2>1. WiringInv'
    BY <1>0, <1>23, <2>0 DEF WiringInv, PhaseInv, RequestInv, SpawnOnSuccess, Spawn, mainVars, childVars, wiringVars, reportVars
  <2>2. PhaseInv'
    BY <1>0, <1>23, <2>0 DEF WiringInv, PhaseInv, RequestInv, SpawnOnSuccess, Spawn, mainVars, childVars, wiringVars, reportVars
  <2>3. RequestInv'
    BY <1>0, <1>23, <2>0 DEF WiringInv, PhaseInv, RequestInv, SpawnOnSuccess, Spawn, mainVars, childVars, wiringVars, reportVars
  <2> QED BY <2>1, <2>2, <2>3 DEF SessionInv
<1>24. CASE Exit
  <2>0. Quiet' = Quiet
    BY <1>24, MainFrame, QuietFrame DEF MainStep
  <2>1. WiringInv'
    BY <1>0, <1>24, <2>0 DEF WiringInv, PhaseInv, RequestInv, Exit, mainVars, childVars, wiringVars, reportVars
  <2>2. PhaseInv'
    BY <1>0, <1>24, <2>0 DEF WiringInv, PhaseInv, RequestInv, Exit, mainVars, childVars, wiringVars, reportVars
  <2>3. RequestInv'
    BY <1>0, <1>24, <2>0 DEF WiringInv, PhaseInv, RequestInv, Exit, mainVars, childVars, wiringVars, reportVars
  <2> QED BY <2>1, <2>2, <2>3 DEF SessionInv
<1>25. CASE ChildEnds
  <2>0. Quiet' = Quiet
    BY <1>25, MainFrame, QuietFrame DEF MainStep
  <2>1. WiringInv'
    BY <1>0, <1>25, <2>0 DEF WiringInv, PhaseInv, RequestInv, ChildEnds, mainVars, childVars, wiringVars, reportVars
  <2>2. PhaseInv'
    BY <1>0, <1>25, <2>0 DEF WiringInv, PhaseInv, RequestInv, ChildEnds, mainVars, childVars, wiringVars, reportVars
  <2>3. RequestInv'
    BY <1>0, <1>25, <2>0 DEF WiringInv, PhaseInv, RequestInv, ChildEnds, mainVars, childVars, wiringVars, reportVars
  <2> QED BY <2>1, <2>2, <2>3 DEF SessionInv
<1>26. CASE Panic
  <2>0. Quiet' = Quiet
    BY <1>26, MainFrame, QuietFrame DEF MainStep
  <2>q. ~Quiet
    BY <1>26 DEF Panic, At, Quiet
  <2>1. WiringInv'
    BY <1>0, <1>26, <2>0, <2>q DEF WiringInv, PhaseInv, RequestInv, Panic, Alive, mainVars, childVars, wiringVars, reportVars
  <2>2. PhaseInv'
    BY <1>0, <1>26, <2>0, <2>q DEF WiringInv, PhaseInv, RequestInv, Panic, Alive, mainVars, childVars, wiringVars, reportVars
  <2>3. RequestInv'
    BY <1>0, <1>26, <2>0, <2>q DEF WiringInv, PhaseInv, RequestInv, Panic, Alive, mainVars, childVars, wiringVars, reportVars
  <2> QED BY <2>1, <2>2, <2>3 DEF SessionInv
<1>27. CASE JoinLoop
  <2>0. Quiet' = Quiet
    BY <1>27, MainFrame, QuietFrame DEF MainStep
  <2>1. WiringInv'
    BY <1>0, <1>27, <2>0 DEF WiringInv, PhaseInv, RequestInv, JoinLoop, mainVars, childVars, wiringVars, reportVars
  <2>2. PhaseInv'
    BY <1>0, <1>27, <2>0 DEF WiringInv, PhaseInv, RequestInv, JoinLoop, mainVars, childVars, wiringVars, reportVars
  <2>3. RequestInv'
    BY <1>0, <1>27, <2>0 DEF WiringInv, PhaseInv, RequestInv, JoinLoop, mainVars, childVars, wiringVars, reportVars
  <2> QED BY <2>1, <2>2, <2>3 DEF SessionInv
<1>28. CASE LateLine
  <2>0. Quiet' = Quiet
    BY <1>28, MainFrame, QuietFrame DEF MainStep
  <2>1. WiringInv'
    BY <1>0, <1>28, <2>0 DEF WiringInv, PhaseInv, RequestInv, LateLine, mainVars, childVars, wiringVars, reportVars
  <2>2. PhaseInv'
    BY <1>0, <1>28, <2>0 DEF WiringInv, PhaseInv, RequestInv, LateLine, mainVars, childVars, wiringVars, reportVars
  <2>3. RequestInv'
    BY <1>0, <1>28, <2>0 DEF WiringInv, PhaseInv, RequestInv, LateLine, mainVars, childVars, wiringVars, reportVars
  <2> QED BY <2>1, <2>2, <2>3 DEF SessionInv
<1>29. CASE GuardStep
  <2>1. UNCHANGED <<mainVars, mode, child, code, seen, wiringVars, reportVars, processVars>>
    BY <1>29, GuardStepFrame
  <2>2. Quiet => Quiet' \/ (proxyUp /\ child = "running")
    BY <1>29, GuardStepFrame
  <2>3. WiringInv'
    BY <1>0, <2>1 DEF WiringInv, mainVars, wiringVars, reportVars
  <2>4. PhaseInv'
    BY <1>0, <2>1 DEF PhaseInv, mainVars, childVars, wiringVars, reportVars
  <2>5. phase # "crashed"
    BY <1>29 DEF GuardStep, RequestStep, HandlerStep, AnswerStep, TimeoutStep, Alive
  <2>6. RequestInv'
    BY <1>0, <2>1, <2>2, <2>5 DEF WiringInv, PhaseInv, RequestInv, mainVars, childVars, wiringVars, reportVars
  <2> QED
    BY <2>3, <2>4, <2>6 DEF SessionInv
<1>30. CASE UNCHANGED allVars
  <2>1. Quiet' = Quiet
    BY <1>30, QuietFrame DEF allVars
  <2> QED
    BY <1>30, <1>0, <2>1 DEF SessionInv, WiringInv, PhaseInv, RequestInv, allVars, sessionVars, mainVars, childVars, wiringVars, reportVars
<1> QED
  BY <1>1, <1>2, <1>3, <1>4, <1>5, <1>6, <1>7, <1>8, <1>9, <1>10, <1>11, <1>12, <1>13, <1>14, <1>15, <1>16, <1>17, <1>18, <1>19, <1>20, <1>21, <1>22, <1>23, <1>24, <1>25, <1>26, <1>27, <1>28, <1>29, <1>30 DEF SessionNext, MainStep

\* The inductive invariant holds of every session.
THEOREM SessionInvariance == SessionSpec => []SessionInv
BY SessionInitInv, SessionStep, PTL DEF SessionSpec

\* One SESSION_COMPLETE event for every audit session that ends, by whichever of the
\* returns of proxyFlow.Run or by a panic (proxy_flow.go:92-105, 284-285).
THEOREM SummaryIsOne == SessionSpec => []OneSummary
<1>1. SessionInv => OneSummary
  BY DEF SessionInv, WiringInv, RequestInv, OneSummary, Ended, Over, Owes
<1> QED
  BY <1>1, SessionInvariance, PTL

\* A send on the closed confirmation channel (base_registry.go:255) takes the process
\* down only when nothing is owed any more.
THEOREM CrashIsLate == SessionSpec => []CrashLosesNothing
<1>1. SessionInv => CrashLosesNothing
  BY DEF SessionInv, WiringInv, PhaseInv, RequestInv, CrashLosesNothing, Owes
<1> QED
  BY <1>1, SessionInvariance, PTL

\* The deferred calls of proxyFlow.Run have undone the set-up when the process ends.
THEOREM ExitIsOrderly == SessionSpec => []OrderlyExit
<1>1. SessionInv => OrderlyExit
  BY DEF SessionInv, WiringInv, OrderlyExit, Over
<1> QED
  BY <1>1, SessionInvariance, PTL

\* Both ways for the process to end.
THEOREM EndIsInOrder == SessionSpec => []EndsInOrder
<1>1. CrashLosesNothing /\ OrderlyExit => EndsInOrder
  BY DEF EndsInOrder
<1> QED
  BY <1>1, CrashIsLate, ExitIsOrderly, PTL

-----------------------------------------------------------------------------
(* Consent needs a terminal                                                 *)

\* Only a prompt on a terminal answers yes.
NoYes == mode # "pty" => answer # "yes" /\ \A r \in Requests : reply[r] # "yes"

LEMMA RequestsDoNotReply ==
  \A r \in Requests : Arrive(r) \/ Progress(r) => UNCHANGED <<answer, reply>>
BY DEF Arrive, Progress, Count, confirmVars, PassThrough, Download, Bypass, NeedAnalysis, CacheHit, CacheMiss, Admit, Rejected, Analyzed, AnalysisFailed, Store, DecideAllow, DecideBlock, DecideConfirm, Send, SendTimeout, ReceiveYes, LogConsented, ReceiveNo, WaitTimeout

LEMMA NoYesStep == SessionInv /\ TypeOK /\ NoYes /\ [SessionNext]_allVars => NoYes'
<1> SUFFICES ASSUME SessionInv, TypeOK, NoYes, [SessionNext]_allVars PROVE NoYes'
  OBVIOUS
<1>0. PhaseInv /\ reply \in [Requests -> YesNo]
  BY DEF SessionInv, TypeOK
<1>1. ASSUME UNCHANGED vars, mode = "pty" => mode' = "pty" PROVE NoYes'
  BY <1>1 DEF NoYes, vars, confirmVars
<1>2. CASE MainStep \/ ChildEnds \/ LateLine \/ Panic
  <2>1. mode = "pty" => mode' = "pty"
    BY <1>0, <1>2 DEF PhaseInv, Setup, MainStep, ChildEnds, LateLine, Panic, childVars, Advance, Spawn,
       SkipProxy, BeginSession, DryRunEnds, WriteCertificate, MakeChannel, StartProxy, SetupFails, LaunchDirect, LaunchPty, PreparePtySession, LaunchFails, JoinLoop, TakeSnapshot, Summarise, HandleResult, StopProxy, CloseChannel, RemoveCertificate, CompleteSession, Return, SpawnOnError, ErrorExit, CloseAudit, SpawnOnSuccess, Exit
  <2> QED
    BY <1>1, <1>2, <2>1, MainFrame
<1>3. CASE GuardStep
  <2>0. UNCHANGED mode
    BY <1>3, GuardStepFrame
  <2>1. ASSUME NEW r \in Requests, RequestStep(r) PROVE NoYes'
    BY <2>0, <2>1, RequestsDoNotReply DEF RequestStep, NoYes
  <2>2. CASE HandlerStep
    BY <1>0, <2>0, <2>2 DEF HandlerStep, Handler, TakeRequest, SendReply, NoYes
  <2>3. CASE AnswerStep
    BY <2>0, <2>3 DEF AnswerStep, UserAnswers, NoYes
  <2>4. CASE TimeoutStep
    BY <2>0, <2>4 DEF TimeoutStep, BreakerTimeout, confirmVars, NoYes
  <2> QED
    BY <1>3, <2>1, <2>2, <2>3, <2>4 DEF GuardStep
<1>4. CASE UNCHANGED allVars
  BY <1>1, <1>4 DEF allVars, sessionVars, childVars
<1> QED
  BY <1>2, <1>3, <1>4 DEF SessionNext

\* Without a terminal no suspicious package is installed: the callback of
\* BeforeDirectRun says no to every request (proxy_flow.go:213-222).
THEOREM NoTerminalNoConsent == SessionSpec => []NobodyConsentsWithoutTerminal
<1>1. SessionInit => NoYes
  BY DEF SessionInit, Init, NoYes
<1>2. NoYes /\ ConsentRequired => NobodyConsentsWithoutTerminal
  BY DEF NoYes, ConsentRequired, NobodyConsentsWithoutTerminal, At
<1>3. SessionSpec => []TypeOK
  BY SessionRunsGuard, TypeCorrect, PTL
<1>4. SessionSpec => []NoYes
  BY <1>1, <1>3, NoYesStep, SessionInvariance, PTL DEF SessionSpec
<1> QED
  BY <1>2, <1>4, SessionConsent, PTL

-----------------------------------------------------------------------------
(* The outcome                                                              *)

Refusals == At({"refused", "unconfirmed"})

\* In insecure mode a request goes straight from its URL to an Allow.
InsecureInv == Insecure => \A r \in Requests :
  /\ pc[r] \in {"idle", "analyze", "decide", "countAllowed", "served"}
  /\ pc[r] = "decide" => result[r] = "allow"

LEMMA InsecureStep == TypeOK /\ InsecureInv /\ [Next]_vars => InsecureInv'
<1> SUFFICES ASSUME TypeOK, InsecureInv, [Next]_vars, Insecure PROVE InsecureInv'
  BY DEF InsecureInv
<1>0. pc \in [Requests -> Phases] /\ result \in [Requests -> Actions]
  BY DEF TypeOK
<1>1. ASSUME NEW r \in Requests, PassThrough(r) PROVE InsecureInv'
  BY <1>0, <1>1 DEF InsecureInv, Goto, PassThrough
<1>2. ASSUME NEW r \in Requests, Download(r) PROVE InsecureInv'
  BY <1>0, <1>2 DEF InsecureInv, Goto, Download
<1>3. ASSUME NEW r \in Requests, Bypass(r) PROVE InsecureInv'
  BY <1>0, <1>3 DEF InsecureInv, Goto, Bypass
<1>4. ASSUME NEW r \in Requests, NeedAnalysis(r) PROVE InsecureInv'
  BY <1>0, <1>4 DEF InsecureInv, Goto, NeedAnalysis
<1>5. ASSUME NEW r \in Requests, CacheHit(r) PROVE InsecureInv'
  BY <1>0, <1>5 DEF InsecureInv, Goto, CacheHit
<1>6. ASSUME NEW r \in Requests, CacheMiss(r) PROVE InsecureInv'
  BY <1>0, <1>6 DEF InsecureInv, Goto, CacheMiss
<1>7. ASSUME NEW r \in Requests, Admit(r) PROVE InsecureInv'
  BY <1>0, <1>7 DEF InsecureInv, Goto, Admit
<1>8. ASSUME NEW r \in Requests, Rejected(r) PROVE InsecureInv'
  BY <1>0, <1>8 DEF InsecureInv, Goto, Rejected
<1>9. ASSUME NEW r \in Requests, Analyzed(r) PROVE InsecureInv'
  BY <1>0, <1>9 DEF InsecureInv, Goto, Analyzed
<1>10. ASSUME NEW r \in Requests, AnalysisFailed(r) PROVE InsecureInv'
  BY <1>0, <1>10 DEF InsecureInv, Goto, AnalysisFailed
<1>11. ASSUME NEW r \in Requests, Store(r) PROVE InsecureInv'
  BY <1>0, <1>11 DEF InsecureInv, Goto, Store
<1>12. ASSUME NEW r \in Requests, DecideAllow(r) PROVE InsecureInv'
  BY <1>0, <1>12 DEF InsecureInv, Goto, DecideAllow
<1>13. ASSUME NEW r \in Requests, DecideBlock(r) PROVE InsecureInv'
  BY <1>0, <1>13 DEF InsecureInv, Goto, DecideBlock
<1>14. ASSUME NEW r \in Requests, DecideConfirm(r) PROVE InsecureInv'
  BY <1>0, <1>14 DEF InsecureInv, Goto, DecideConfirm
<1>15. ASSUME NEW r \in Requests, Send(r) PROVE InsecureInv'
  BY <1>0, <1>15 DEF InsecureInv, Goto, Send
<1>16. ASSUME NEW r \in Requests, SendTimeout(r) PROVE InsecureInv'
  BY <1>0, <1>16 DEF InsecureInv, Goto, SendTimeout
<1>17. ASSUME NEW r \in Requests, ReceiveYes(r) PROVE InsecureInv'
  BY <1>0, <1>17 DEF InsecureInv, Goto, ReceiveYes
<1>18. ASSUME NEW r \in Requests, LogConsented(r) PROVE InsecureInv'
  BY <1>0, <1>18 DEF InsecureInv, Goto, LogConsented
<1>19. ASSUME NEW r \in Requests, ReceiveNo(r) PROVE InsecureInv'
  BY <1>0, <1>19 DEF InsecureInv, Goto, ReceiveNo
<1>20. ASSUME NEW r \in Requests, WaitTimeout(r) PROVE InsecureInv'
  BY <1>0, <1>20 DEF InsecureInv, Goto, WaitTimeout
<1>21. ASSUME NEW r \in Requests, Count(r) PROVE InsecureInv'
  BY <1>0, <1>21 DEF InsecureInv, Goto, Count
<1>22. CASE BreakerTimeout \/ Handler \/ UserAnswers \/ UNCHANGED vars
  BY <1>22 DEF InsecureInv, BreakerTimeout, Handler, TakeRequest, SendReply, UserAnswers, vars, requestVars
<1> QED
  BY <1>1, <1>2, <1>3, <1>4, <1>5, <1>6, <1>7, <1>8, <1>9, <1>10, <1>11, <1>12, <1>13, <1>14, <1>15, <1>16, <1>17, <1>18, <1>19, <1>20, <1>21, <1>22 DEF Next, Arrive, Progress

\* A refusal is counted before it is sent: what the counters and the sets they count
\* tell of one another.
LEMMA RefusalsCounted ==
  ASSUME TypeOK, StatsMatchDecisions
  PROVE  /\ stats.blocked \in Nat
         /\ stats.blocked = Cardinality(Refusals)
         /\ Refusals # {} => stats.blocked > 0
<1>1. IsFiniteSet(Refusals)
  BY GuardAssumption, FS_Subset DEF Refusals, At
<1>2. stats.blocked = Cardinality(Refusals)
  BY DEF StatsMatchDecisions, Refusals
<1> QED
  BY <1>1, <1>2, FS_CardinalityType, FS_EmptySet

\* No refusal is taken back.
LEMMA RefusalsStay ==
  ASSUME TypeOK, [Next]_vars
  PROVE  /\ Refusals \subseteq Refusals'
         /\ /\ {Cardinality(At({"unconfirmed"})), Cardinality(At({"unconfirmed"}))'} \subseteq Nat
            /\ Cardinality(At({"unconfirmed"}))' >= Cardinality(At({"unconfirmed"}))
<1>1. \A r \in Requests : pc[r] \in Final => pc'[r] = pc[r]
  BY OverForGood
<1>2. Refusals \subseteq Refusals'
  BY <1>1 DEF Refusals, At, Final
<1>3. At({"unconfirmed"}) \subseteq At({"unconfirmed"})'
  BY <1>1 DEF At, Final
<1>4. IsFiniteSet(At({"unconfirmed"})) /\ IsFiniteSet(At({"unconfirmed"})')
  BY GuardAssumption, FS_Subset DEF At
<1>5. /\ Cardinality(At({"unconfirmed"})) \in Nat
      /\ Cardinality(At({"unconfirmed"})') \in Nat
      /\ Cardinality(At({"unconfirmed"})) <= Cardinality(At({"unconfirmed"})')
  BY <1>3, <1>4, FS_CardinalityType, FS_Subset
<1> QED
  BY <1>2, <1>5

\* What the report is made of, step by step.
HonestInv ==
  /\ seen \subseteq Refusals
  /\ phase \in {"counted", "listed", "summarised"} =>
       /\ counts.blocked \in Nat
       /\ seen # {} => counts.blocked > 0
  /\ phase \in {"joining", "ended", "counted", "listed", "summarised"} =>
       child \in {"exited", "broken"}
  /\ OutcomeIsHonest

LEMMA HonestStep ==
  ASSUME SessionInv, TypeOK, InsecureInv, StatsMatchDecisions, Refusals \subseteq Refusals',
         HonestInv, [SessionNext]_allVars
  PROVE  HonestInv'
<1> USE DEF Advance
<1>1. Insecure => Refusals = {}
  BY DEF InsecureInv, Refusals, At
<1>2. ASSUME seen' = seen, phase' \notin {"joining", "ended", "counted", "listed", "summarised"}
      PROVE  HonestInv'
  BY <1>2 DEF HonestInv, OutcomeIsHonest
<1>3. ASSUME phase' = phase, UNCHANGED <<seen, code, child, reportVars>> PROVE HonestInv'
  BY <1>3 DEF HonestInv, OutcomeIsHonest, reportVars
<1>4. CASE SkipProxy
  BY <1>2, <1>4 DEF SkipProxy, Spawn, childVars
<1>5. CASE BeginSession
  BY <1>2, <1>5 DEF BeginSession, Spawn, childVars
<1>6. CASE DryRunEnds
  BY <1>2, <1>6 DEF DryRunEnds, Spawn, childVars
<1>7. CASE WriteCertificate
  BY <1>2, <1>7 DEF WriteCertificate, Spawn, childVars
<1>8. CASE MakeChannel
  BY <1>2, <1>8 DEF MakeChannel, Spawn, childVars
<1>9. CASE StartProxy
  BY <1>2, <1>9 DEF StartProxy, Spawn, childVars
<1>10. CASE SetupFails
  BY <1>2, <1>10 DEF SetupFails, Spawn, childVars
<1>11. CASE LaunchDirect
  BY <1>2, <1>11 DEF LaunchDirect, Spawn, childVars
<1>12. CASE LaunchPty
  BY <1>2, <1>12 DEF LaunchPty, Spawn, childVars
<1>13. CASE PreparePtySession
  BY <1>3, <1>13 DEF PreparePtySession, mainVars, childVars
<1>14. CASE LaunchFails
  BY <1>14 DEF LaunchFails, HonestInv, OutcomeIsHonest, childVars
<1>15. CASE TakeSnapshot
  <2>1. CASE phase = "ended"
    BY <1>15, <2>1, RefusalsCounted DEF TakeSnapshot, HonestInv, OutcomeIsHonest, childVars
  <2>2. CASE phase = "counted"
    <3>1. seen' \subseteq blockedPackages'
      BY <1>15, <2>2 DEF TakeSnapshot, HonestInv, childVars, Refusals
    <3>2. seen # {} => outcome' \in {"blocked", "cancelled"}
      BY <1>1, <1>15, <2>2 DEF TakeSnapshot, HonestInv, InferOutcome
    <3>3. outcome' = "success" => seen = {} /\ code = 0 /\ child = "exited"
      BY <1>15, <2>2, <3>2 DEF TakeSnapshot, HonestInv, InferOutcome, ExecutionError
    <3> QED
      BY <1>15, <2>2, <3>1, <3>2, <3>3 DEF TakeSnapshot, HonestInv, OutcomeIsHonest, childVars
  <2> QED
    BY <1>15, <2>1, <2>2 DEF TakeSnapshot
<1>16. CASE Summarise
  BY <1>16 DEF Summarise, LogSummary, HonestInv, OutcomeIsHonest, childVars
<1>17. CASE HandleResult
  BY <1>2, <1>17 DEF HandleResult, Spawn, childVars
<1>18. CASE StopProxy
  BY <1>3, <1>18 DEF StopProxy, mainVars, childVars
<1>19. CASE CloseChannel
  BY <1>3, <1>19 DEF CloseChannel, mainVars, childVars
<1>20. CASE RemoveCertificate
  BY <1>3, <1>20 DEF RemoveCertificate, mainVars, childVars
<1>21. CASE CompleteSession
  BY <1>2, <1>21 DEF CompleteSession, mainVars, childVars
<1>22. CASE Return
  BY <1>2, <1>22 DEF Return, Spawn, childVars
<1>23. CASE SpawnOnError
  BY <1>2, <1>23 DEF SpawnOnError, Spawn, childVars
<1>24. CASE ErrorExit
  BY <1>2, <1>24 DEF ErrorExit, Spawn, childVars
<1>25. CASE CloseAudit
  BY <1>2, <1>25 DEF CloseAudit, Spawn, childVars
<1>26. CASE SpawnOnSuccess
  BY <1>2, <1>26 DEF SpawnOnSuccess, Spawn, childVars
<1>27. CASE Exit
  BY <1>2, <1>27 DEF Exit, Spawn, childVars
<1>28. CASE ChildEnds
  BY <1>28 DEF ChildEnds, HonestInv, OutcomeIsHonest, Refusals, At, vars, requestVars
<1>29. CASE Panic
  BY <1>2, <1>29 DEF Panic, childVars
<1>30. CASE GuardStep \/ LateLine \/ UNCHANGED allVars
  BY <1>3, <1>30, GuardStepFrame DEF LateLine, allVars, sessionVars, mainVars, childVars
<1>31. CASE JoinLoop
  BY <1>31 DEF JoinLoop, HonestInv, OutcomeIsHonest
<1> QED
  BY <1>4, <1>5, <1>6, <1>7, <1>8, <1>9, <1>10, <1>11, <1>12, <1>13, <1>14, <1>15, <1>16, <1>17, <1>18, <1>19, <1>20, <1>21, <1>22, <1>23, <1>24, <1>25, <1>26, <1>27, <1>28, <1>29, <1>30, <1>31 DEF SessionNext, MainStep

\* The outcome of the report tells of the refusals the package manager saw, and is a
\* success only if there were none and it succeeded (outcome.go:18-42).
THEOREM OutcomeTold == SessionSpec => []OutcomeIsHonest
<1>1. SessionInit => InsecureInv /\ HonestInv
  BY DEF SessionInit, Init, InsecureInv, HonestInv, OutcomeIsHonest, Refusals, At
<1>2. SessionSpec => [](TypeOK /\ StatsMatchDecisions)
  BY SessionRunsGuard, TypeCorrect, StatsMatch, PTL
<1>3. HonestInv => OutcomeIsHonest
  BY DEF HonestInv
<1>4. SessionInv /\ TypeOK /\ StatsMatchDecisions /\ InsecureInv /\ HonestInv /\ [SessionNext]_allVars
        => InsecureInv' /\ HonestInv'
  BY SessionStepIsGuardStep, InsecureStep, RefusalsStay, HonestStep
<1>5. SessionSpec => [](InsecureInv /\ HonestInv)
  BY <1>1, <1>2, <1>4, SessionInvariance, PTL DEF SessionSpec
<1> QED
  BY <1>3, <1>5, PTL

-----------------------------------------------------------------------------
(* The report, the summary and the audit trail                              *)

\* Between the first of its numbers and the summary the report lags behind the
\* counters, never the other way round.
CoveredInv ==
  /\ phase \in {"counted", "listed", "summarised"} =>
       \A c \in {"blocked", "confirmed", "allowed"} : counts[c] \in Nat /\ counts[c] <= stats[c]
  /\ phase = "summarised" =>
       /\ summary.blocked \in Nat
       /\ summary.blocked + Cardinality(At({"unconfirmed"})) >= counts.blocked
       /\ summary.allowed >= counts.allowed + counts.confirmed
       /\ summary.confirmed >= counts.confirmed
  /\ ReportListsWhatItCounts

LEMMA CoveredStep ==
  ASSUME TypeOK, TypeOK', CountsInv, CoveredInv, [SessionNext]_allVars
  PROVE  CoveredInv'
<1> USE DEF Advance
<1>0. [Next]_vars
  BY SessionStepIsGuardStep
<1>1. /\ \A c \in {"blocked", "confirmed", "allowed"} :
           stats[c] \in Nat /\ stats'[c] \in Nat /\ stats'[c] >= stats[c]
      /\ Cardinality(At({"unconfirmed"})) \in Nat
      /\ Cardinality(At({"unconfirmed"}))' \in Nat
      /\ Cardinality(At({"unconfirmed"}))' >= Cardinality(At({"unconfirmed"}))
  BY <1>0, StatsGrow, RefusalsStay DEF StatCounters
<1>2. ASSUME UNCHANGED <<phase, counts, summary, blockedPackages>> PROVE CoveredInv'
  <2>1. ASSUME phase \in {"counted", "listed", "summarised"}, NEW c \in {"blocked", "confirmed", "allowed"}
        PROVE  counts'[c] \in Nat /\ counts'[c] <= stats'[c]
    BY <1>1, <1>2, <2>1 DEF CoveredInv
  <2>2. ASSUME phase = "summarised"
        PROVE  summary'.blocked + Cardinality(At({"unconfirmed"}))' >= counts'.blocked
    BY <1>1, <1>2, <2>2 DEF CoveredInv
  <2> QED
    BY <1>2, <2>1, <2>2 DEF CoveredInv, ReportListsWhatItCounts
<1>3. ASSUME phase' \notin {"counted", "listed", "summarised"} PROVE CoveredInv'
  BY <1>3 DEF CoveredInv, ReportListsWhatItCounts
<1>4. CASE TakeSnapshot
  <2>1. CASE phase = "ended"
    BY <1>1, <1>4, <2>1 DEF TakeSnapshot, CoveredInv, ReportListsWhatItCounts, vars, recordVars
  <2>2. CASE phase = "counted"
    <3>1. stats.blocked = Cardinality(blockedPackages')
      BY <1>4, <2>2, RefusalsCounted DEF TakeSnapshot, Refusals, CountsInv
    <3>2. phase' = "listed" /\ counts' = counts /\ stats' = stats
      BY <1>4, <2>2 DEF TakeSnapshot, vars, recordVars
    <3> QED
      BY <1>1, <2>2, <3>1, <3>2 DEF CoveredInv, ReportListsWhatItCounts
  <2> QED
    BY <1>4, <2>1, <2>2 DEF TakeSnapshot
<1>5. CASE Summarise
  <2>1. /\ phase = "listed" /\ phase' = "summarised"
        /\ summary' = audit /\ UNCHANGED <<counts, blockedPackages, stats, pc>>
    BY <1>5 DEF Summarise, LogSummary, vars, requestVars, recordVars
  <2>2. /\ audit.blocked + Cardinality(At({"unconfirmed"}))
             = stats.blocked + Number(ToBlock)
        /\ audit.allowed = stats.allowed + stats.confirmed + Number(ToAllow)
        /\ audit.confirmed = stats.confirmed + Number(ToConfirm)
    BY DEF CountsInv, AuditMatchesStats, Number, ToBlock, ToAllow, ToConfirm
  <2>3. Number(ToBlock) \in Nat /\ Number(ToAllow) \in Nat /\ Number(ToConfirm) \in Nat
    BY GuardAssumption, FS_Subset, FS_CardinalityType DEF Number, At
  <2>4. audit.blocked \in Nat
    BY DEF TypeOK, AuditCounters
  <2>5. \A c \in {"blocked", "confirmed", "allowed"} : counts[c] \in Nat /\ counts[c] <= stats[c]
    BY <2>1 DEF CoveredInv
  <2>6. /\ audit.blocked + Cardinality(At({"unconfirmed"})) >= counts.blocked
        /\ audit.allowed >= counts.allowed + counts.confirmed
        /\ audit.confirmed >= counts.confirmed
    BY <1>1, <2>2, <2>3, <2>4, <2>5
  <2>7. Cardinality(At({"unconfirmed"}))' = Cardinality(At({"unconfirmed"}))
    BY <2>1 DEF At
  <2> QED
    BY ONLY <2>1, <2>4, <2>5, <2>6, <2>7, CoveredInv DEF CoveredInv, ReportListsWhatItCounts
<1>6. CASE GuardStep \/ LateLine \/ UNCHANGED allVars
  BY <1>2, <1>6, GuardStepFrame DEF LateLine, allVars, sessionVars, mainVars, reportVars
<1>7. CASE \/ SkipProxy \/ BeginSession \/ DryRunEnds \/ WriteCertificate \/ MakeChannel
           \/ StartProxy \/ SetupFails \/ LaunchDirect \/ LaunchPty \/ LaunchFails
  BY <1>3, <1>7 DEF SkipProxy, BeginSession, DryRunEnds, WriteCertificate, MakeChannel, StartProxy,
     SetupFails, LaunchDirect, LaunchPty, LaunchFails
<1>8. CASE HandleResult \/ CompleteSession \/ Return \/ SpawnOnError \/ ErrorExit
           \/ CloseAudit \/ SpawnOnSuccess \/ Exit \/ ChildEnds \/ JoinLoop \/ Panic
  BY <1>3, <1>8 DEF HandleResult, CompleteSession, Return, SpawnOnError, ErrorExit,
     CloseAudit, SpawnOnSuccess, Exit, ChildEnds, JoinLoop, Panic, mainVars
<1>9. CASE PreparePtySession \/ StopProxy \/ CloseChannel \/ RemoveCertificate
  BY <1>2, <1>9 DEF PreparePtySession, StopProxy, CloseChannel, RemoveCertificate, mainVars, reportVars
<1> QED
  BY <1>4, <1>5, <1>6, <1>7, <1>8, <1>9 DEF SessionNext, MainStep

\* The report lists every refusal it counts, the summary logged after it covers its
\* numbers and the audit trail matches its counters, however many requests are
\* counted, refused or audited between those steps (proxy_flow.go, report.go).
THEOREM ReportTells == SessionSpec => []ReportTellsAll
<1>1. SessionInit => CoveredInv
  BY DEF SessionInit, CoveredInv, ReportListsWhatItCounts
<1>2. SessionSpec => [](TypeOK /\ CountsInv)
  BY SessionRunsGuard, TypeCorrect, CountsInvariance, PTL
<1>3. TypeOK /\ TypeOK' /\ CountsInv /\ CoveredInv /\ [SessionNext]_allVars => CoveredInv'
  BY CoveredStep
<1>4. CountsInv /\ CoveredInv => ReportTellsAll
  BY DEF CountsInv, CoveredInv, ReportTellsAll, ReportIsCovered, SummaryCoversReport
<1> QED
  BY <1>1, <1>2, <1>3, <1>4, PTL DEF SessionSpec

-----------------------------------------------------------------------------
\* However a session ends (proxy_flow.go), it is summarised once and leaves nothing
\* behind, for any requests and any package manager.
THEOREM SessionCloses == SessionSpec => []SessionClosesCleanly
<1>1. OneSummary /\ EndsInOrder => SessionClosesCleanly
  BY DEF SessionClosesCleanly
<1> QED
  BY <1>1, SummaryIsOne, EndIsInOrder, PTL
=============================================================================
