----------------------------- MODULE ProxySession -----------------------------
(***************************************************************************)
(* One run of a package manager under the proxy: proxyFlow.Run of           *)
(* internal/flows/proxy_flow.go around the interceptor of ProxyGuard.tla,   *)
(* from the RunE of cmd/npm (those of the other package managers are the    *)
(* same) to the end of the process.                                         *)
(*                                                                         *)
(* The main goroutine sets the proxy up, runs the package manager, reports  *)
(* and unwinds its deferred calls while request handlers are still at work: *)
(* a package manager that has seen one refusal exits at once, and Shutdown  *)
(* of net/http does not wait for the connections of a MITM.                 *)
(***************************************************************************)
EXTENDS ProxyGuard

CONSTANT Codes     \* exit codes of the package manager

ASSUME SessionAssumption == Codes \subseteq Nat /\ 0 \in Codes

VARIABLES
  dryRun,          \* config.DryRun
  phase,           \* where the main goroutine is
  deferred,        \* the deferred calls Run has registered
  mode,            \* how the runner executes the package manager
  child,           \* the package manager
  code,            \* its exit code
  failed,          \* the function that runs is returning an error
  handlerOn,       \* HandleConfirmationRequests has been started
  chanClosed,      \* confirmationChan is closed
  proxyUp,         \* the proxy accepts connections
  certFile,        \* the temporary CA certificate exists
  started,         \* LogInstallStarted has begun an audit session
  summaries,       \* the SESSION_COMPLETE events logged
  summary,         \* the counters of the last of them
  counts,          \* the numbers of the report
  blockedPackages, \* the refused requests the report lists
  outcome,         \* reportData.Outcome
  seen,            \* the refusals the package manager had got when it ended
  inputLoop,       \* the goroutine of runPTY that reads the keyboard
  auditOpen,       \* audit.Close has not run
  spawned,         \* the background sync has been forked
  exitCode         \* the exit code of pmg

mainVars    == <<dryRun, phase, failed>>
childVars   == <<mode, child, code, seen, inputLoop>>
wiringVars  == <<deferred, handlerOn, chanClosed, proxyUp, certFile>>
reportVars  == <<started, summaries, summary, counts, blockedPackages, outcome>>
processVars == <<auditOpen, spawned, exitCode>>
sessionVars == <<mainVars, childVars, wiringVars, reportVars, processVars>>

Deferred  == {"complete", "cert", "channel", "proxy"}
Outcomes  == {"success", "error", "insecure", "dryRun", "cancelled", "blocked"}
MainPhases ==
  {"start", "begun", "certified", "wired", "ready", "running", "joining", "ended", "counted",
   "listed", "summarised", "returning", "failed", "errorExit", "succeeded",
   "auditClosed", "leaving", "exited", "crashed"}

SessionTypeOK ==
  /\ dryRun \in BOOLEAN
  /\ phase \in MainPhases
  /\ deferred \subseteq Deferred
  /\ mode \in {"none", "direct", "pty", "noProxy"}
  /\ child \in {"none", "running", "exited", "broken"}
  /\ code \in Codes
  /\ handlerOn \in BOOLEAN /\ chanClosed \in BOOLEAN /\ proxyUp \in BOOLEAN
  /\ certFile \in BOOLEAN /\ started \in BOOLEAN /\ failed \in BOOLEAN
  /\ summaries \in Nat
  /\ summary \in [AuditCounters -> Nat]
  /\ counts \in [StatCounters -> Nat]
  /\ blockedPackages \subseteq Requests
  /\ outcome \in Outcomes
  /\ seen \subseteq Requests
  /\ inputLoop \in {"none", "routing", "blocked", "done"}
  /\ auditOpen \in BOOLEAN /\ spawned \in BOOLEAN
  /\ exitCode \in Nat

SessionInit ==
  /\ Init
  /\ dryRun \in BOOLEAN
  /\ phase = "start" /\ failed = FALSE
  /\ mode = "none" /\ child = "none" /\ code = 0 /\ seen = {}
  /\ inputLoop = "none"
  /\ deferred = {} /\ handlerOn = FALSE /\ chanClosed = FALSE
  /\ proxyUp = FALSE /\ certFile = FALSE
  /\ started = FALSE /\ summaries = 0 /\ summary = audit /\ counts = stats
  /\ blockedPackages = {} /\ outcome = "success"
  /\ auditOpen = TRUE /\ spawned = FALSE /\ exitCode = 0

Advance(from, to) == phase = from /\ phase' = to
Defer(d) == deferred' = deferred \cup {d}

Alive == phase \notin {"exited", "crashed"}

-----------------------------------------------------------------------------
(* proxyFlow.Run up to the launch of the package manager                    *)

\* install_only: a command that downloads nothing, or one the user excepted, runs
\* without the proxy and without an audit session; not at all in a dry run.
SkipProxy ==
  /\ Advance("start", IF dryRun THEN "returning" ELSE "running")
  /\ mode' = "noProxy"
  /\ child' = IF dryRun THEN "none" ELSE "running"
  /\ UNCHANGED <<vars, dryRun, failed, code, seen, inputLoop, wiringVars, reportVars, processVars>>

BeginSession ==
  /\ Advance("start", "begun")
  /\ started' = TRUE
  /\ Defer("complete")
  /\ UNCHANGED <<vars, dryRun, failed, childVars, handlerOn, chanClosed, proxyUp, certFile,
                 summaries, summary, counts, blockedPackages, outcome, processVars>>

DryRunEnds ==
  /\ Advance("begun", "returning")
  /\ dryRun
  /\ outcome' = "dryRun"
  /\ UNCHANGED <<vars, dryRun, failed, childVars, wiringVars, started, summaries, summary,
                 counts, blockedPackages, processVars>>

WriteCertificate ==
  /\ Advance("begun", "certified")
  /\ ~dryRun
  /\ certFile' = TRUE
  /\ Defer("cert")
  /\ UNCHANGED <<vars, dryRun, failed, childVars, handlerOn, chanClosed, proxyUp,
                 reportVars, processVars>>

\* The certificate manager and the analyzer exist.
MakeChannel ==
  /\ Advance("certified", "wired")
  /\ Defer("channel")
  /\ UNCHANGED <<vars, dryRun, failed, childVars, handlerOn, chanClosed, proxyUp, certFile,
                 reportVars, processVars>>

StartProxy ==
  /\ Advance("wired", "ready")
  /\ proxyUp' = TRUE
  /\ Defer("proxy")
  /\ UNCHANGED <<vars, dryRun, failed, childVars, handlerOn, chanClosed, certFile,
                 reportVars, processVars>>

\* The certificate, its manager, the analyzer, the interceptor or the proxy server
\* cannot be made: Run returns the error.
SetupFails ==
  /\ \/ Advance("begun", "returning") /\ ~dryRun
     \/ Advance("certified", "returning")
     \/ Advance("wired", "returning")
  /\ failed' = TRUE
  /\ UNCHANGED <<vars, dryRun, childVars, wiringVars, reportVars, processVars>>

-----------------------------------------------------------------------------
(* runner.ExecuteWithOptions                                                *)

\* Without a terminal the hook starts the handler before the child exists.
LaunchDirect ==
  /\ Advance("ready", "running")
  /\ mode' = "direct" /\ child' = "running" /\ handlerOn' = TRUE
  /\ UNCHANGED <<vars, dryRun, failed, code, seen, inputLoop, deferred, chanClosed, proxyUp,
                 certFile, reportVars, processVars>>

\* With one, the child and the loop over the keyboard run before PreparePTYSession
\* starts the handler.
LaunchPty ==
  /\ Advance("ready", "running")
  /\ mode' = "pty" /\ child' = "running" /\ inputLoop' = "routing"
  /\ UNCHANGED <<vars, dryRun, failed, code, seen, wiringVars, reportVars, processVars>>

PreparePtySession ==
  /\ phase = "running" /\ mode = "pty" /\ ~handlerOn
  /\ handlerOn' = TRUE
  /\ UNCHANGED <<vars, mainVars, childVars, deferred, chanClosed, proxyUp, certFile,
                 reportVars, processVars>>

\* No real binary, no sandbox, no terminal session.
LaunchFails ==
  /\ Advance("ready", "ended")
  /\ child' = "broken"
  /\ handlerOn' \in BOOLEAN
  /\ UNCHANGED <<vars, dryRun, failed, mode, code, seen, inputLoop, deferred, chanClosed,
                 proxyUp, certFile, reportVars, processVars>>

\* The package manager exits, its requests answered or not.
ChildEnds ==
  /\ phase = "running" /\ child = "running"
  /\ mode = "pty" => handlerOn
  /\ child' = "exited"
  /\ code' \in Codes
  /\ seen' = At({"refused", "unconfirmed"})
  /\ phase' = CASE mode = "noProxy" -> "returning" [] mode = "pty" -> "joining" [] OTHER -> "ended"
  /\ failed' = (mode = "noProxy" /\ code' # 0)
  /\ UNCHANGED <<vars, dryRun, mode, inputLoop, wiringVars, reportVars, processVars>>

\* A line typed when the prompt has its answer and the keyboard is not yet given back:
\* the loop writes it to the prompt's pipe, which nobody reads before the next prompt.
LateLine ==
  /\ Alive /\ handling # Nobody /\ answer # "none"
  /\ inputLoop = "routing" /\ inputLoop' = "blocked"
  /\ UNCHANGED <<vars, mainVars, mode, child, code, seen, wiringVars, reportVars, processVars>>

\* The deferred cancelInput() and <-inputDone: runPTY returns when the loop has ended,
\* which it does at its next turn.  The pipe is closed only after that.
JoinLoop ==
  /\ Advance("joining", "ended")
  /\ inputLoop = "routing" /\ inputLoop' = "done"
  /\ UNCHANGED <<vars, dryRun, failed, mode, child, code, seen, wiringVars, reportVars,
                 processVars>>

ExecutionError == child = "broken" \/ code # 0

-----------------------------------------------------------------------------
(* The report                                                               *)

\* Fault: an error of the package manager hides that packages were blocked.
InferErrorFirst ==
  IF ExecutionError THEN "error"
  ELSE IF Insecure THEN "insecure"
  ELSE IF counts.cancelled > 0 THEN "cancelled"
  ELSE IF counts.blocked > 0 THEN "blocked" ELSE "success"

\* inferOutcome; a dry run never gets here.
InferOutcome ==
  IF ExecutionError /\ counts.blocked = 0 THEN "error"
  ELSE IF Insecure THEN "insecure"
  ELSE IF counts.cancelled > 0 THEN "cancelled"
  ELSE IF counts.blocked > 0 THEN "blocked" ELSE "success"
\* Fault: the packages are listed before they are counted.
ListThenCount ==
  /\ \/ Advance("ended", "counted") /\ blockedPackages' = At({"refused", "unconfirmed"})
                                    /\ UNCHANGED <<counts, outcome>>
     \/ Advance("counted", "listed") /\ counts' = stats /\ outcome' = InferOutcome
                                     /\ UNCHANGED blockedPackages
  /\ UNCHANGED <<vars, dryRun, failed, childVars, wiringVars, started, summaries, summary,
                 processVars>>

\* GetStats and then GetBlockedPackages, each under the lock of the collector, so
\* that requests may be counted in between; the outcome is inferred from both.
TakeSnapshot ==
  /\ \/ Advance("ended", "counted") /\ counts' = stats
                                    /\ UNCHANGED <<blockedPackages, outcome>>
     \/ /\ Advance("counted", "listed")
        /\ blockedPackages' = At({"refused", "unconfirmed"})
        /\ outcome' = InferOutcome
        /\ UNCHANGED counts
  /\ UNCHANGED <<vars, dryRun, failed, childVars, wiringVars, started, summaries, summary,
                 processVars>>

\* LogSessionComplete takes the counters of the audit session as they are now.
LogSummary ==
  /\ summaries' = summaries + 1
  /\ summary' = audit
  /\ UNCHANGED <<started, counts, blockedPackages>>
\* sessionCompleted disarms the deferred summary.
Summarise ==
  /\ Advance("listed", "summarised")
  /\ LogSummary
  /\ deferred' = deferred \ {"complete"}
  /\ UNCHANGED <<vars, dryRun, failed, childVars, handlerOn, chanClosed, proxyUp, certFile,
                 outcome, processVars>>
\* Fault: the exit code is passed on by an os.Exit that skips the deferred calls.
HandleResultExits ==
  /\ phase = "summarised"
  /\ IF code # 0
       THEN phase' = "exited" /\ exitCode' = code /\ UNCHANGED failed
       ELSE phase' = "returning" /\ failed' = (child = "broken") /\ UNCHANGED exitCode
  /\ UNCHANGED <<vars, dryRun, childVars, wiringVars, reportVars, auditOpen, spawned>>

\* ui.Report and handleExecutionResultError.  The runner has wrapped the ExitError
\* of the package manager in a usefulerror, so its type assertion fails and the
\* os.Exit behind it never runs: every failure is returned as an error.
HandleResult ==
  /\ Advance("summarised", "returning")
  /\ failed' = ExecutionError
  /\ UNCHANGED <<vars, dryRun, childVars, wiringVars, reportVars, processVars>>

-----------------------------------------------------------------------------
(* The deferred calls, last in first out                                    *)

\* Shutdown closes the listener and leaves hijacked connections alone.
StopProxy ==
  /\ phase = "returning" /\ "proxy" \in deferred
  /\ proxyUp' = FALSE
  /\ deferred' = deferred \ {"proxy"}
  /\ UNCHANGED <<vars, mainVars, childVars, handlerOn, chanClosed, certFile,
                 reportVars, processVars>>
\* Fault: Run waits for the last prompt before it closes the channel.
CloseChannelAnswered ==
  /\ phase = "returning" /\ "channel" \in deferred /\ "proxy" \notin deferred
  /\ queue = << >> /\ handling = Nobody
  /\ chanClosed' = TRUE
  /\ deferred' = deferred \ {"channel"}
  /\ UNCHANGED <<vars, mainVars, childVars, handlerOn, proxyUp, certFile,
                 reportVars, processVars>>

CloseChannel ==
  /\ phase = "returning" /\ "channel" \in deferred /\ "proxy" \notin deferred
  /\ chanClosed' = TRUE
  /\ deferred' = deferred \ {"channel"}
  /\ UNCHANGED <<vars, mainVars, childVars, handlerOn, proxyUp, certFile,
                 reportVars, processVars>>

RemoveCertificate ==
  /\ phase = "returning" /\ "cert" \in deferred
  /\ deferred \cap {"proxy", "channel"} = {}
  /\ certFile' = FALSE
  /\ deferred' = deferred \ {"cert"}
  /\ UNCHANGED <<vars, mainVars, childVars, handlerOn, chanClosed, proxyUp,
                 reportVars, processVars>>

\* Only an early return gets here with the summary still to be logged.
CompleteSession ==
  /\ phase = "returning" /\ deferred = {"complete"}
  /\ LogSummary
  /\ deferred' = {}
  /\ outcome' = IF failed /\ outcome = "success" THEN "error" ELSE outcome
  /\ UNCHANGED <<vars, mainVars, childVars, handlerOn, chanClosed, proxyUp, certFile,
                 processVars>>

Return ==
  /\ Advance("returning", IF failed THEN "failed" ELSE "succeeded")
  /\ deferred = {}
  /\ UNCHANGED <<vars, dryRun, failed, childVars, wiringVars, reportVars, processVars>>

-----------------------------------------------------------------------------
(* The end of the process                                                   *)

\* MaybeSpawnBackgroundSync, if auto-sync is on and its cooldown has elapsed.
Spawn ==
  /\ spawned' \in BOOLEAN
  /\ UNCHANGED <<vars, dryRun, failed, childVars, wiringVars, reportVars, auditOpen, exitCode>>

SpawnOnError == Advance("failed", "errorExit") /\ Spawn

\* os.Exit(1): the deferred calls of main, audit.Close among them, never run.
ErrorExit ==
  /\ Advance("errorExit", "exited")
  /\ exitCode' = 1
  /\ UNCHANGED <<vars, dryRun, failed, childVars, wiringVars, reportVars, auditOpen, spawned>>

CloseAudit ==
  /\ Advance("succeeded", "auditClosed")
  /\ auditOpen' = FALSE
  /\ UNCHANGED <<vars, dryRun, failed, childVars, wiringVars, reportVars, spawned, exitCode>>

SpawnOnSuccess == Advance("auditClosed", "leaving") /\ Spawn

Exit ==
  /\ Advance("leaving", "exited")
  /\ UNCHANGED <<vars, dryRun, failed, childVars, wiringVars, reportVars, processVars>>

\* A request handler sends on the closed channel: the panic of its goroutine, which
\* is none of net/http's, takes the process down with code 2.
Panic ==
  /\ Alive /\ chanClosed
  /\ At({"sending"}) # {}
  /\ phase' = "crashed" /\ exitCode' = 2
  /\ UNCHANGED <<vars, dryRun, failed, childVars, wiringVars, reportVars, auditOpen, spawned>>

-----------------------------------------------------------------------------
(* The goroutines of the proxy                                              *)

\* The package manager sends its requests through the proxy while both are there;
\* what was accepted goes on until the process ends.
RequestStep(r) ==
  /\ Alive
  /\ \/ proxyUp /\ child = "running" /\ Arrive(r)
     \/ Progress(r) /\ (pc[r] = "sending" => ~chanClosed)
  /\ UNCHANGED sessionVars

\* The handler drains the channel, also after it was closed.
HandlerStep == Alive /\ handlerOn /\ Handler /\ UNCHANGED sessionVars

\* Without a terminal the answer is no.  With one a line that the loop holds for the
\* pipe is the answer, if there is one, or the user gives it; once runPTY has returned, a
\* prompt that is open gets a no from its closed pipe and a later one reads os.Stdin,
\* which are not told apart.
AnswerStep ==
  /\ Alive
  /\ UserAnswers
  /\ answer' = "yes" => mode = "pty"
  /\ inputLoop' = IF inputLoop = "blocked" THEN "routing" ELSE inputLoop
  /\ UNCHANGED <<mainVars, mode, child, code, seen, wiringVars, reportVars, processVars>>

TimeoutStep == Alive /\ BreakerTimeout /\ UNCHANGED sessionVars

GuardStep ==
  \/ \E r \in Requests : RequestStep(r)
  \/ HandlerStep \/ AnswerStep \/ TimeoutStep

MainStep ==
  \/ SkipProxy \/ BeginSession \/ DryRunEnds \/ WriteCertificate \/ MakeChannel
  \/ StartProxy \/ SetupFails \/ LaunchDirect \/ LaunchPty \/ PreparePtySession
  \/ LaunchFails \/ JoinLoop \/ TakeSnapshot \/ Summarise \/ HandleResult
  \/ StopProxy \/ CloseChannel \/ RemoveCertificate \/ CompleteSession \/ Return
  \/ SpawnOnError \/ ErrorExit \/ CloseAudit \/ SpawnOnSuccess \/ Exit

SessionNext == MainStep \/ ChildEnds \/ LateLine \/ Panic \/ GuardStep

allVars == <<vars, sessionVars>>

SessionSpec == SessionInit /\ [][SessionNext]_allVars

\* The main goroutine is scheduled; the package manager need not end, nor the user
\* answer.
FairSession == SessionSpec /\ WF_allVars(MainStep)

-----------------------------------------------------------------------------
(* Properties                                                               *)

Ended == phase \in {"exited", "crashed"}

\* An audit session gets one SESSION_COMPLETE event, whichever way Run is left: an
\* early return, a report, or the panic of a handler after it.
OneSummary == Ended => summaries = (IF started THEN 1 ELSE 0)

\* What may be lost when a handler panics is nothing the user was to see: the
\* package manager has ended, the proxy is closed and the session is summarised.
CrashLosesNothing ==
  phase = "crashed" => ~proxyUp /\ child # "running" /\ summaries = 1

\* A process that ends by itself leaves neither the certificate authority on disk
\* nor the proxy open, after a failure at any point of the setup as well.
OrderlyExit == phase = "exited" => ~certFile /\ ~proxyUp /\ deferred = {}

\* The outcome tells of every refusal the package manager saw, also when that made
\* it fail, and success means that it succeeded and saw none.
OutcomeIsHonest ==
  phase \in {"listed", "summarised"} =>
    /\ seen # {} => outcome \in {"blocked", "cancelled"} /\ seen \subseteq blockedPackages
    /\ outcome = "success" => seen = {} /\ code = 0 /\ child = "exited"

\* However the process ends, nothing is left behind that somebody would miss.
EndsInOrder == CrashLosesNothing /\ OrderlyExit

\* However the run ends, it is summarised once, and the proxy stops after the
\* decisions are taken.
SessionClosesCleanly == OneSummary /\ EndsInOrder

\* The report lists every package it counts as blocked, though requests that the
\* package manager no longer waits for are counted while it is put together.
ReportListsWhatItCounts ==
  phase \in {"listed", "summarised"} => counts.blocked <= Cardinality(blockedPackages)

\* The summary of the session, logged after the report's numbers were taken, covers
\* them: nothing is in the report that is not in the audit trail, the confirmations
\* that failed excepted.
SummaryCoversReport ==
  phase = "summarised" =>
    /\ summary.blocked + Cardinality(At({"unconfirmed"})) >= counts.blocked
    /\ summary.allowed >= counts.allowed + counts.confirmed
    /\ summary.confirmed >= counts.confirmed

\* Neither its lists nor the audit trail say less than the report.
ReportIsCovered == ReportListsWhatItCounts /\ SummaryCoversReport

\* The report, the summary and the audit trail tell of the same requests.
ReportTellsAll == ReportIsCovered /\ AuditMatchesStats

\* Without a terminal nobody can consent: no suspicious package is installed.
NobodyConsentsWithoutTerminal ==
  mode = "direct" => \A r \in At({"served"}) : result[r] # "confirm"

\* Once the package manager has ended pmg ends, whatever requests and prompts it has
\* left behind, answered or not, unless a line typed behind an answer stays in the pipe
\* of the prompts for ever: the input loop that holds it is waited for (runPTY,
\* internal/runner/execute.go), and no later prompt comes to read it.  What leads there,
\* against a comment, is PromptInput's violation.
SessionEnds == []<>(inputLoop # "blocked") => (child = "exited" ~> Ended)

\* The comment at internal/flows/proxy_flow.go:290-291 says that Run ends "to ensure
\* the process exits with the correct exit code from the execution result".
ExitCodeIsPropagated ==
  phase = "exited" /\ started /\ child = "exited" => exitCode = code
=============================================================================
