------------------------------ MODULE ProxyGuard ------------------------------
(***************************************************************************)
(* The registry interceptor of the proxy (proxy/interceptors): concurrent   *)
(* package downloads pass through the analysis cache, the circuit breaker   *)
(* and the analyzer, and suspicious ones through the confirmation channel   *)
(* to the one goroutine that asks the user.  Every decision is recorded in  *)
(* the audit session's counters and in the statistics of the report.        *)
(*                                                                         *)
(* One request is one HTTP handler goroutine of the proxy.  A step is what  *)
(* the goroutine does between two points at which others can run: a mutex   *)
(* of the cache, of the breaker, of the audit session or of the statistics, *)
(* or an operation on a channel.                                            *)
(***************************************************************************)
EXTENDS Naturals, Sequences, FiniteSets

CONSTANTS
  Requests,        \* requests to the registry, each handled by a goroutine
  Packages,        \* the package versions they download
  Trusted,         \* those config.IsTrustedPackage accepts
  Insecure,        \* config.InsecureInstallation
  Answers,         \* what the analyzer may answer for each package version
  ChanCap,         \* capacity of confirmationChan (10 in proxy_flow.go)
  FailureLimit,    \* consecutive failures that open the breaker (3)
  Nobody           \* no request, no package

AnalyzerAnswers == {"allow", "confirm", "block", "notFound", "error"}

ASSUME GuardAssumption ==
  /\ Trusted \subseteq Packages
  /\ Insecure \in BOOLEAN
  /\ Answers \in [Packages -> SUBSET AnalyzerAnswers]
  /\ \A p \in Packages : Answers[p] # {}
  /\ ChanCap \in Nat \ {0}
  /\ FailureLimit \in Nat \ {0}
  /\ Nobody \notin Requests \cup Packages
  /\ IsFiniteSet(Requests)

VARIABLES
  pc,              \* where the handler of each request is
  pkg,             \* the package version parsed from its URL
  result,          \* the analysis result it acts on
  generation,      \* the breaker's generation when its analysis began
  cache,           \* inMemoryAnalysisCache
  breaker,         \* gobreaker.CircuitBreaker
  queue,           \* confirmationChan
  handling,        \* the request HandleConfirmationRequests is working on
  answer,          \* responseVal of that request, once the user has answered
  reply,           \* what was sent on each request's ResponseChan
  audit,           \* the counters of the audit session
  stats            \* AnalysisStatsCollector

requestVars == <<pc, pkg, result, generation>>
confirmVars == <<queue, handling, answer, reply>>
recordVars  == <<audit, stats>>
vars == <<requestVars, cache, breaker, confirmVars, recordVars>>

Actions == {"none", "allow", "confirm", "block"}
YesNo   == {"none", "yes", "no"}

\* A request is over at one of these; "unconfirmed" is the 403 of a
\* confirmation that could not be had.
Final == {"served", "refused", "unconfirmed"}

Phases == Final \cup
  {"idle", "analyze", "lookup", "admit", "analyzing", "store", "decide",
   "sending", "waiting", "consented", "countAllowed", "countBlocked",
   "countConfirmed", "countCancelled", "countFailed"}

AuditCounters == {"allowed", "blocked", "confirmed", "trusted", "insecure", "total"}
StatCounters  == {"allowed", "blocked", "confirmed", "cancelled", "total"}

BreakerStates == [state : {"closed", "open", "halfOpen"},
                  gen : Nat, failures : Nat, probes : Nat]

TypeOK ==
  /\ pc \in [Requests -> Phases]
  /\ pkg \in [Requests -> Packages \cup {Nobody}]
  /\ result \in [Requests -> Actions]
  /\ generation \in [Requests -> Nat]
  /\ cache \in [Packages -> Actions]
  /\ breaker \in BreakerStates
  /\ queue \in Seq(Requests)
  /\ handling \in Requests \cup {Nobody}
  /\ answer \in YesNo
  /\ reply \in [Requests -> YesNo]
  /\ audit \in [AuditCounters -> Nat]
  /\ stats \in [StatCounters -> Nat]

Init ==
  /\ pc = [r \in Requests |-> "idle"]
  /\ pkg = [r \in Requests |-> Nobody]
  /\ result = [r \in Requests |-> "none"]
  /\ generation = [r \in Requests |-> 0]
  /\ cache = [p \in Packages |-> "none"]
  /\ breaker = [state |-> "closed", gen |-> 0, failures |-> 0, probes |-> 0]
  /\ queue = << >>
  /\ handling = Nobody
  /\ answer = "none"
  /\ reply = [r \in Requests |-> "none"]
  /\ audit = [c \in AuditCounters |-> 0]
  /\ stats = [c \in StatCounters |-> 0]

Goto(r, from, to) == pc[r] = from /\ pc' = [pc EXCEPT ![r] = to]

\* Adds one to each of a set of counters of a record of counters.
Bump(counters, which) ==
  [c \in DOMAIN counters |-> counters[c] + (IF c \in which THEN 1 ELSE 0)]

-----------------------------------------------------------------------------
(* HandleRequest of the npm and PyPI interceptors, up to analyzePackage.    *)

\* The early returns: a host without analysis, a URL that does not parse, a
\* metadata request, an incomplete name.  Nothing is analysed or recorded.
PassThrough(r) ==
  /\ Goto(r, "idle", "served")
  /\ UNCHANGED <<pkg, result, generation, cache, breaker, confirmVars, recordVars>>

\* The URL of a tarball or a wheel gives a name and a version.
Download(r) ==
  /\ Goto(r, "idle", "analyze")
  /\ \E p \in Packages : pkg' = [pkg EXCEPT ![r] = p]
  /\ UNCHANGED <<result, generation, cache, breaker, confirmVars, recordVars>>

-----------------------------------------------------------------------------
(* analyzePackage                                                           *)

\* Insecure mode and trusted packages skip the analysis with an Allow, which
\* handleAnalysisResult then treats like any other.
Bypass(r) ==
  /\ Goto(r, "analyze", "decide")
  /\ Insecure \/ pkg[r] \in Trusted
  /\ audit' = Bump(audit, {IF Insecure THEN "insecure" ELSE "trusted", "total"})
  /\ result' = [result EXCEPT ![r] = "allow"]
  /\ UNCHANGED <<pkg, generation, cache, breaker, confirmVars, stats>>

NeedAnalysis(r) ==
  /\ Goto(r, "analyze", "lookup")
  /\ ~Insecure /\ pkg[r] \notin Trusted
  /\ UNCHANGED <<pkg, result, generation, cache, breaker, confirmVars, recordVars>>

CacheHit(r) ==
  /\ Goto(r, "lookup", "decide")
  /\ cache[pkg[r]] # "none"
  /\ result' = [result EXCEPT ![r] = cache[pkg[r]]]
  /\ UNCHANGED <<pkg, generation, cache, breaker, confirmVars, recordVars>>

\* The lock of the cache is released here: others may analyse the same package.
CacheMiss(r) ==
  /\ Goto(r, "lookup", "admit")
  /\ cache[pkg[r]] = "none"
  /\ UNCHANGED <<pkg, result, generation, cache, breaker, confirmVars, recordVars>>
\* Fault: a half-open breaker lets everybody try.
AdmitsUnlessOpen == breaker.state # "open"

\* gobreaker admits every call while closed and MaxRequests = 1 while half-open,
\* the only state in which its count of requests is read.
Admits == \/ breaker.state = "closed"
          \/ breaker.state = "halfOpen" /\ breaker.probes < 1

Admit(r) ==
  /\ Goto(r, "admit", "analyzing")
  /\ Admits
  /\ breaker' = [breaker EXCEPT !.probes = @ + (IF breaker.state = "halfOpen" THEN 1 ELSE 0)]
  /\ generation' = [generation EXCEPT ![r] = breaker.gen]
  /\ UNCHANGED <<pkg, result, cache, confirmVars, recordVars>>

\* ErrOpenState and ErrTooManyRequests: HandleRequest fails open.
Rejected(r) ==
  /\ Goto(r, "admit", "served")
  /\ ~Admits
  /\ UNCHANGED <<pkg, result, generation, cache, breaker, confirmVars, recordVars>>

\* setState of gobreaker: a new generation with its counts cleared.
BreakerAt(s) == [state |-> s, gen |-> breaker.gen + 1, failures |-> 0, probes |-> 0]

\* afterRequest of gobreaker: the outcome of an older generation is dropped.
AfterRequest(g, ok) ==
  breaker' =
    IF g # breaker.gen \/ breaker.state = "open" THEN breaker
    ELSE IF breaker.state = "halfOpen" THEN BreakerAt(IF ok THEN "closed" ELSE "open")
    ELSE IF ok THEN [breaker EXCEPT !.failures = 0]
    ELSE IF breaker.failures + 1 >= FailureLimit THEN BreakerAt("open")
    ELSE [breaker EXCEPT !.failures = @ + 1]

\* The 30 s of the open state are over.
BreakerTimeout ==
  /\ breaker.state = "open"
  /\ breaker' = BreakerAt("halfOpen")
  /\ UNCHANGED <<requestVars, cache, confirmVars, recordVars>>

\* The analyzer answers.  NotFound is an Allow and no failure of the breaker.
Analyzed(r) ==
  /\ Goto(r, "analyzing", "store")
  /\ \E a \in Answers[pkg[r]] \ {"error"} :
       result' = [result EXCEPT ![r] = IF a = "notFound" THEN "allow" ELSE a]
  /\ AfterRequest(generation[r], TRUE)
  /\ UNCHANGED <<pkg, generation, cache, confirmVars, recordVars>>
\* Fault: the Allow of a failed analysis is remembered.
AnalysisFailedCached(r) ==
  /\ Goto(r, "analyzing", "served")
  /\ "error" \in Answers[pkg[r]]
  /\ AfterRequest(generation[r], FALSE)
  /\ cache' = [cache EXCEPT ![pkg[r]] = "allow"]
  /\ UNCHANGED <<pkg, result, generation, confirmVars, recordVars>>

\* The analyzer fails, or its 10 s are over: HandleRequest fails open.
AnalysisFailed(r) ==
  /\ Goto(r, "analyzing", "served")
  /\ "error" \in Answers[pkg[r]]
  /\ AfterRequest(generation[r], FALSE)
  /\ UNCHANGED <<pkg, result, generation, cache, confirmVars, recordVars>>

\* cache.Set: the last of several concurrent analyses wins.
Store(r) ==
  /\ Goto(r, "store", "decide")
  /\ cache' = [cache EXCEPT ![pkg[r]] = result[r]]
  /\ UNCHANGED <<pkg, result, generation, breaker, confirmVars, recordVars>>

-----------------------------------------------------------------------------
(* handleAnalysisResult: the audit event first, the statistics after it.    *)

DecideAllow(r) ==
  /\ Goto(r, "decide", "countAllowed")
  /\ result[r] = "allow"
  /\ audit' = Bump(audit, {"allowed", "total"})
  /\ UNCHANGED <<pkg, result, generation, cache, breaker, confirmVars, stats>>
\* Fault: a malicious package falls into the branch of the confirmations.
DecideBlockAsks(r) ==
  /\ Goto(r, "decide", "sending")
  /\ result[r] = "block"
  /\ UNCHANGED <<pkg, result, generation, cache, breaker, confirmVars, recordVars>>

DecideBlock(r) ==
  /\ Goto(r, "decide", "countBlocked")
  /\ result[r] = "block"
  /\ audit' = Bump(audit, {"blocked", "total"})
  /\ UNCHANGED <<pkg, result, generation, cache, breaker, confirmVars, stats>>

DecideConfirm(r) ==
  /\ Goto(r, "decide", "sending")
  /\ result[r] = "confirm"
  /\ UNCHANGED <<pkg, result, generation, cache, breaker, confirmVars, recordVars>>

Send(r) ==
  /\ Goto(r, "sending", "waiting")
  /\ Len(queue) < ChanCap
  /\ queue' = Append(queue, r)
  /\ UNCHANGED <<pkg, result, generation, cache, breaker, handling, answer, reply, recordVars>>

\* Five seconds with the channel full.
SendTimeout(r) ==
  /\ Goto(r, "sending", "countFailed")
  /\ Len(queue) >= ChanCap
  /\ UNCHANGED <<pkg, result, generation, cache, breaker, confirmVars, recordVars>>

ReceiveYes(r) ==
  /\ Goto(r, "waiting", "consented")
  /\ reply[r] = "yes"
  /\ audit' = Bump(audit, {"confirmed"})
  /\ UNCHANGED <<pkg, result, generation, cache, breaker, confirmVars, stats>>

LogConsented(r) ==
  /\ Goto(r, "consented", "countConfirmed")
  /\ audit' = Bump(audit, {"allowed", "total"})
  /\ UNCHANGED <<pkg, result, generation, cache, breaker, confirmVars, stats>>
ReceiveNo(r) ==
  /\ Goto(r, "waiting", "countCancelled")
  /\ reply[r] = "no"
  /\ audit' = Bump(audit, {"blocked", "total"})
  /\ UNCHANGED <<pkg, result, generation, cache, breaker, confirmVars, stats>>
\* Fault: a prompt nobody answered counts as a yes.
WaitTimeoutServes(r) ==
  /\ Goto(r, "waiting", "consented")
  /\ UNCHANGED <<pkg, result, generation, cache, breaker, confirmVars, recordVars>>

\* Five minutes without an answer.  A select with both cases ready takes either,
\* so the timeout may win over a reply that is already there.
WaitTimeout(r) ==
  /\ Goto(r, "waiting", "countFailed")
  /\ UNCHANGED <<pkg, result, generation, cache, breaker, confirmVars, recordVars>>
\* Fault: a cancelled package is not counted as blocked as well.
CountCancelledOnly(r) ==
  /\ \/ Goto(r, "countAllowed", "served")      /\ stats' = Bump(stats, {"allowed", "total"})
     \/ Goto(r, "countBlocked", "refused")     /\ stats' = Bump(stats, {"blocked", "total"})
     \/ Goto(r, "countConfirmed", "served")    /\ stats' = Bump(stats, {"confirmed", "total"})
     \/ Goto(r, "countCancelled", "refused")   /\ stats' = Bump(stats, {"cancelled", "total"})
     \/ Goto(r, "countFailed", "unconfirmed")  /\ stats' = Bump(stats, {"blocked", "total"})
  /\ UNCHANGED <<pkg, result, generation, cache, breaker, confirmVars, audit>>

\* RecordAllowed, RecordBlocked, RecordConfirmed, RecordUserCancelled, and the
\* RecordBlocked of a confirmation that failed.
Count(r) ==
  /\ \/ Goto(r, "countAllowed", "served")      /\ stats' = Bump(stats, {"allowed", "total"})
     \/ Goto(r, "countBlocked", "refused")     /\ stats' = Bump(stats, {"blocked", "total"})
     \/ Goto(r, "countConfirmed", "served")    /\ stats' = Bump(stats, {"confirmed", "total"})
     \/ Goto(r, "countCancelled", "refused")   /\ stats' = Bump(stats, {"blocked", "cancelled", "total"})
     \/ Goto(r, "countFailed", "unconfirmed")  /\ stats' = Bump(stats, {"blocked", "total"})
  /\ UNCHANGED <<pkg, result, generation, cache, breaker, confirmVars, audit>>

-----------------------------------------------------------------------------
(* HandleConfirmationRequests: one goroutine, one request at a time.        *)

\* Takes a request off the channel and asks, even if its sender has given up.
TakeRequest ==
  /\ handling = Nobody
  /\ queue # << >>
  /\ handling' = Head(queue)
  /\ queue' = Tail(queue)
  /\ UNCHANGED <<requestVars, cache, breaker, answer, reply, recordVars>>

\* The user answers; an error of the prompt leaves responseVal false.
UserAnswers ==
  /\ handling # Nobody
  /\ answer = "none"
  /\ answer' \in {"yes", "no"}
  /\ UNCHANGED <<requestVars, cache, breaker, queue, handling, reply, recordVars>>
\* Fault: only a sender that still waits is answered, its channel never closed.
SendReplyIfWaiting ==
  /\ answer # "none"
  /\ reply' = IF pc[handling] = "waiting" THEN [reply EXCEPT ![handling] = answer] ELSE reply
  /\ handling' = Nobody
  /\ answer' = "none"
  /\ UNCHANGED <<requestVars, cache, breaker, queue, recordVars>>

\* The deferred send on the ResponseChan of capacity one, which never blocks.
SendReply ==
  /\ answer # "none"
  /\ reply' = [reply EXCEPT ![handling] = answer]
  /\ handling' = Nobody
  /\ answer' = "none"
  /\ UNCHANGED <<requestVars, cache, breaker, queue, recordVars>>

-----------------------------------------------------------------------------
\* What the goroutine of a request does once it has a request.
Progress(r) ==
  \/ Bypass(r) \/ NeedAnalysis(r) \/ CacheHit(r) \/ CacheMiss(r)
  \/ Admit(r) \/ Rejected(r) \/ Analyzed(r) \/ AnalysisFailed(r) \/ Store(r)
  \/ DecideAllow(r) \/ DecideBlock(r) \/ DecideConfirm(r)
  \/ Send(r) \/ SendTimeout(r)
  \/ ReceiveYes(r) \/ LogConsented(r) \/ ReceiveNo(r) \/ WaitTimeout(r)
  \/ Count(r)

Arrive(r) == PassThrough(r) \/ Download(r)

Handler == TakeRequest \/ SendReply

Next ==
  \/ \E r \in Requests : Arrive(r) \/ Progress(r)
  \/ BreakerTimeout
  \/ Handler
  \/ UserAnswers

Spec == Init /\ [][Next]_vars

\* Goroutines are scheduled, the timers of the two selects and of the analysis
\* context fire, and the handler goroutine runs.  Nothing is assumed of the user.
FairSpec ==
  /\ Spec
  /\ \A r \in Requests : WF_vars(Progress(r))
  /\ WF_vars(Handler)
-----------------------------------------------------------------------------
(* Properties                                                               *)

At(phases) == {r \in Requests : pc[r] \in phases}

\* What the analyzer can have said of a package, as handleAnalysisResult sees it.
Verdicts(p) == {IF a = "notFound" THEN "allow" ELSE a : a \in Answers[p] \ {"error"}}

\* No download of a package the proxy took for malicious is served, and one it
\* took for suspicious is served only if the user said yes to this very request:
\* not to an earlier one for the same package, not after a timeout.
ConsentRequired ==
  \A r \in At({"served"}) : /\ result[r] # "block"
                           /\ result[r] = "confirm" => reply[r] = "yes"

\* The cache holds only what the analyzer said of the package: never the Allow of
\* a failed analysis, of a trusted package or of insecure mode, nor a user's yes.
CacheIsGenuine ==
  \A p \in Packages : cache[p] # "none" =>
    /\ cache[p] \in Verdicts(p)
    /\ ~Insecure /\ p \notin Trusted

\* Whatever the interleaving, the report counts every analysed download once and
\* under its own heading, and those that failed open not at all.
StatsMatchDecisions ==
  /\ stats.blocked = Cardinality(At({"refused", "unconfirmed"}))
  /\ stats.confirmed = Cardinality({r \in At({"served"}) : result[r] = "confirm"})
  /\ stats.allowed = Cardinality({r \in At({"served"}) : result[r] = "allow"})
  /\ stats.cancelled <= stats.blocked
  /\ stats.total = stats.allowed + stats.confirmed + stats.blocked

\* The counters of the audit session and the report agree, up to the requests
\* between the two, and to the confirmations that failed, which are not audited.
\* A bypassed package is counted twice in the session's total.
AuditMatchesStats ==
  /\ audit.blocked + Cardinality(At({"unconfirmed"}))
       = stats.blocked + Cardinality(At({"countBlocked", "countCancelled"}))
  /\ audit.allowed = stats.allowed + stats.confirmed
                      + Cardinality(At({"countAllowed", "countConfirmed"}))
  /\ audit.confirmed = stats.confirmed + Cardinality(At({"consented", "countConfirmed"}))
  /\ audit.total = audit.allowed + audit.blocked + audit.trusted + audit.insecure

\* The breaker shields the analyzer: an open breaker has no call of its own
\* generation in flight and a half-open one at most the single probe.
BreakerShieldsAnalyzer ==
  LET inFlight == {r \in At({"analyzing"}) : generation[r] = breaker.gen}
  IN  /\ breaker.state = "open" => inFlight = {}
      /\ breaker.state = "halfOpen" => \A r, s \in inFlight : r = s

\* Once a Block is cached, a download that starts after it is not served, also
\* when the breaker is open, an analysis of it is still running or the analyzer
\* is down: of a package the analyzer never contradicts itself about.
CachedBlockIsFinal ==
  \A r \in Requests, p \in Packages :
    Verdicts(p) = {"block"} =>
      []((pc[r] = "idle" /\ cache[p] = "block") => [](pc[r] = "served" => pkg[r] # p))

\* Every download gets its response, whatever the user does: a prompt nobody
\* answers, a full channel and a broken analyzer all end in one.
EveryRequestAnswered == <>[](\A r \in Requests : pc[r] \in {"idle"} \cup Final)

\* If the user leaves no prompt unanswered for ever, every confirmation request
\* that was sent is answered on its ResponseChan, those of senders that gave up
\* included.
EveryPromptAnswered ==
  []<>(handling = Nobody \/ answer # "none") =>
    \A r \in Requests : pc[r] = "waiting" ~> reply[r] # "none"

\* Both ends of the conversation with the user come to an end.
EverybodyIsAnswered == EveryRequestAnswered /\ EveryPromptAnswered

\* What the proxy has learnt of r's package, and what the package manager got.
Standing(r) == IF result[r] = "none" THEN "unknown" ELSE result[r]

Outcome(r) == IF pc[r] \notin Final THEN "pending"
              ELSE IF pc[r] = "served" THEN "served" ELSE "refused"

\* ProxyGuard implements RequestGate: what was learnt is the result acted on, the
\* consent is what came back on the ResponseChan.
Gate == INSTANCE RequestGate WITH
  standing <- [r \in Requests |-> Standing(r)],
  consent  <- reply,
  outcome  <- [r \in Requests |-> Outcome(r)]

\* Every download is judged at most once, decided once, and refused only if its
\* package was flagged: the promise of RequestGate.tla.
ImplementsGate == Gate!GateSpec
=============================================================================
