------------------------------- MODULE GuardFlow -------------------------------
(***************************************************************************)
(* PMG without the proxy (guard/guard.go, internal/flows/common_flow.go):    *)
(* the install targets or the manifest are read, their dependencies resolved, *)
(* all of it analysed by a pool of workers, and the package manager is        *)
(* started only if the verdicts, or the user, allow it.  Three kinds of       *)
(* goroutine share the analysis: the workers, the collector of their          *)
(* results, and the one that waits for both; the main goroutine waits for     *)
(* that one, or for the time limit.                                           *)
(***************************************************************************)
EXTENDS Naturals, Sequences, FiniteSets, SequencesExt

CONSTANTS
  Packages,        \* package versions
  Trusted,         \* those config.IsTrustedPackage accepts
  Targets,         \* a sequence: the install targets, or what the manifest lists
  Dependencies,    \* of each target, as the registry would tell them
  Analyzers,       \* how many there are, asked one after the other
  Answers,         \* what each may answer for each package
  Workers          \* MaxConcurrentAnalyzes of them

Actions == {"allow", "confirm", "block"}

ASSUME GuardFlowAssumption ==
  /\ Trusted \subseteq Packages
  /\ Targets \in Seq(Packages)
  /\ Dependencies \in [Packages -> SUBSET Packages]
  /\ Analyzers \in Nat \ {0}
  /\ Answers \in [Packages \X (1..Analyzers) -> SUBSET (Actions \cup {"error"})]
  /\ IsFiniteSet(Packages) /\ {"none", "gone"} \cap Packages = {}
  /\ Workers # {}

VARIABLES
  command,         \* what was typed and configured, fixed
  pc,              \* of the main goroutine
  resolving,       \* the number of targets to read or to resolve yet
  packages,        \* packagesToAnalyze
  queued,          \* how many of them the loop of concurrentAnalyzePackages has seen
  jobs,            \* the channel of that name
  worker,          \* each worker: its package, the analyzer it asks, what it has to send
  results,         \* the channel of that name
  collected,       \* analysisResults
  waiter,          \* the goroutine that closes results, and then waiter
  answered,        \* history: what the analyzers answered
  said,            \* history: the user's answer
  ran,             \* history: the executor was called
  report,          \* GuardResult and the outcome shown
  audit,           \* the counters of the audit session
  exit             \* the exit code, once there is one

analysisVars == <<queued, jobs, worker, results, collected, waiter, answered>>
outcomeVars  == <<report, audit, exit>>
vars == <<command, pc, resolving, packages, analysisVars, said, ran, outcomeVars>>

Idle == [pkg |-> "none", next |-> 1, holds |-> "none"]
Gone == [pkg |-> "gone", next |-> 1, holds |-> "none"]

Result(p, action) == [pkg |-> p, action |-> action]
ResultsOf(as)     == [pkg : Packages, action : as]

Reports == [total : Nat, trusted : Nat, allowed : Nat, confirmed : Nat, blocked : Nat,
            cancelled : BOOLEAN, failed : BOOLEAN]
NoReport == [total |-> 0, trusted |-> 0, allowed |-> 0, confirmed |-> 0, blocked |-> 0,
             cancelled |-> FALSE, failed |-> FALSE]

Commands == [kind : {"targets", "requirements", "lockfile", "other"},
             insecure : BOOLEAN, dryRun : BOOLEAN]

TypeOK ==
  /\ command \in Commands
  /\ pc \in {"start", "extract", "resolve", "queue", "select", "judge", "prompt", "execute",
              "running", "report", "ended"}
  /\ resolving \in 0..Len(Targets)
  /\ packages \in Seq(Packages)
  /\ queued \in 0..Len(packages)
  /\ jobs \in Seq(Packages)
  /\ worker \in [Workers -> [pkg : Packages \cup {"none", "gone"}, next : 1..Analyzers,
                              holds : Actions \cup {"none"}]]
  /\ results \in Seq(ResultsOf(Actions)) /\ collected \in Seq(ResultsOf(Actions))
  /\ waiter \in {"notStarted", "workers", "collector", "done"}
  /\ answered \subseteq Packages \X (1..Analyzers) \X (Actions \cup {"error"})
  /\ said \in {"none", "yes", "no"}
  /\ ran \in BOOLEAN
  /\ report \in Reports
  /\ audit \in [allowed : Nat, confirmed : Nat, blocked : Nat, total : Nat]
  /\ exit \in {"none", "success", "failure"}

Init ==
  /\ command \in Commands
  /\ pc = "start"
  /\ resolving = 0 /\ queued = 0
  /\ packages = <<>> /\ jobs = <<>> /\ results = <<>> /\ collected = <<>>
  /\ worker = [w \in Workers |-> Gone]
  /\ waiter = "notStarted"
  /\ answered = {}
  /\ said = "none" /\ ran = FALSE /\ exit = "none"
  /\ report = NoReport
  /\ audit = [allowed |-> 0, confirmed |-> 0, blocked |-> 0, total |-> 0]

Goto(from, to) == pc = from /\ exit = "none" /\ pc' = to

-----------------------------------------------------------------------------
(* What is to be analysed                                                   *)

\* No analyzer can be set up: nothing is started, and nothing is logged.
SetupFails ==
  /\ Goto("start", "ended")
  /\ exit' = "failure"
  /\ UNCHANGED <<command, resolving, packages, analysisVars, said, ran, report, audit>>

\* InsecureInstallation, or a command that installs nothing: straight on.
StartUnguarded ==
  /\ Goto("start", "execute")
  /\ command.insecure \/ command.kind = "other"
  /\ UNCHANGED <<command, resolving, packages, analysisVars, said, ran, outcomeVars>>

StartTargets ==
  /\ Goto("start", "resolve")
  /\ ~command.insecure /\ command.kind = "targets"
  /\ packages' = Targets
  /\ resolving' = Len(Targets)
  /\ UNCHANGED <<command, analysisVars, said, ran, outcomeVars>>

StartManifest ==
  /\ Goto("start", "extract")
  /\ ~command.insecure /\ command.kind \in {"requirements", "lockfile"}
  /\ resolving' = Len(Targets)
  /\ UNCHANGED <<command, packages, analysisVars, said, ran, outcomeVars>>

\* A manifest that is missing or cannot be parsed contributes nothing.
Extract ==
  /\ resolving > 0
  /\ Goto("extract", "extract")
  /\ packages' \in {packages, Append(packages, Targets[Len(Targets) + 1 - resolving])}
  /\ resolving' = resolving - 1
  /\ UNCHANGED <<command, analysisVars, said, ran, outcomeVars>>

\* If none contributes anything there is nothing to analyse.  Dependencies are resolved
\* for a requirements.txt, not for a requirements file of another name.
Extracted ==
  /\ resolving = 0
  /\ Goto("extract", IF packages = <<>> THEN "execute" ELSE "resolve")
  /\ resolving' = IF command.kind = "requirements" THEN Len(packages) ELSE 0
  /\ UNCHANGED <<command, packages, analysisVars, said, ran, outcomeVars>>

\* The resolver tells some of the dependencies (see DependencyResolver): requests
\* that fail inside it are not errors.
ResolveTarget ==
  /\ resolving > 0
  /\ Goto("resolve", "resolve")
  /\ \E found \in SUBSET Dependencies[packages[resolving]] : packages' = packages \o SetToSeq(found)
  /\ resolving' = resolving - 1
  /\ UNCHANGED <<command, analysisVars, said, ran, outcomeVars>>

\* The latest version of a target, or the registry itself, cannot be had.
ResolveFails ==
  /\ resolving > 0
  /\ Goto("resolve", "report")
  /\ report' = [report EXCEPT !.failed = TRUE]
  /\ UNCHANGED <<command, resolving, packages, analysisVars, said, ran, audit, exit>>

-----------------------------------------------------------------------------
(* concurrentAnalyzePackages                                                *)

\* The workers are started before there is a job ...
StartWorkers ==
  /\ resolving = 0
  /\ Goto("resolve", "queue")
  /\ worker' = [w \in Workers |-> Idle]
  /\ UNCHANGED <<command, resolving, packages, queued, jobs, results, collected, waiter, answered,
                 said, ran, outcomeVars>>

\* ... the packages that are not trusted are queued, in a channel with room for all ...
QueuePackage ==
  /\ queued < Len(packages)
  /\ Goto("queue", "queue")
  /\ queued' = queued + 1
  /\ jobs' = IF packages[queued'] \in Trusted THEN jobs ELSE Append(jobs, packages[queued'])
  /\ UNCHANGED <<command, resolving, packages, worker, results, collected, waiter, answered,
                 said, ran, outcomeVars>>

\* ... and only when it is closed do the collector and the waiter start.
CloseJobs ==
  /\ queued = Len(packages)
  /\ Goto("queue", "select")
  /\ waiter' = "workers"
  /\ UNCHANGED <<command, resolving, packages, queued, jobs, worker, results, collected, answered,
                 said, ran, outcomeVars>>

Background == UNCHANGED <<command, pc, resolving, packages, queued, said, ran, outcomeVars>>

Take(w) ==
  /\ exit = "none" /\ worker[w] = Idle
  /\ jobs # <<>>
  /\ worker' = [worker EXCEPT ![w].pkg = Head(jobs)]
  /\ jobs' = Tail(jobs)
  /\ Background /\ UNCHANGED <<results, collected, waiter, answered>>

\* The channel of jobs is empty and closed.
Quit(w) ==
  /\ exit = "none" /\ worker[w] = Idle
  /\ jobs = <<>> /\ waiter # "notStarted"
  /\ worker' = [worker EXCEPT ![w] = Gone]
  /\ Background /\ UNCHANGED <<jobs, results, collected, waiter, answered>>

Asking(w) == exit = "none" /\ worker[w].pkg \in Packages

\* On to the next analyzer, or back to the channel of jobs.
Onward(w) ==
  worker' = [worker EXCEPT ![w] =
    IF @.next = Analyzers THEN Idle
    ELSE [pkg |-> @.pkg, next |-> @.next + 1, holds |-> "none"]]

\* An analyzer that fails is passed over.
Ask(w) ==
  /\ Asking(w) /\ worker[w].holds = "none"
  /\ \E r \in Answers[<<worker[w].pkg, worker[w].next>>] :
       /\ answered' = answered \cup {<<worker[w].pkg, worker[w].next, r>>}
       /\ IF r = "error" THEN Onward(w) ELSE worker' = [worker EXCEPT ![w].holds = r]
  /\ Background /\ UNCHANGED <<jobs, results, collected, waiter>>

\* The channel has room for one result to a package, and there may be more.
Send(w) ==
  /\ Asking(w) /\ worker[w].holds # "none"
  /\ Len(results) < Len(packages)
  /\ results' = Append(results, Result(worker[w].pkg, worker[w].holds))
  /\ Onward(w)
  /\ Background /\ UNCHANGED <<jobs, collected, waiter, answered>>

Collect ==
  /\ exit = "none" /\ waiter # "notStarted"
  /\ results # <<>>
  /\ collected' = Append(collected, Head(results))
  /\ results' = Tail(results)
  /\ Background /\ UNCHANGED <<jobs, worker, waiter, answered>>

CloseResults ==
  /\ exit = "none" /\ waiter = "workers"
  /\ \A w \in Workers : worker[w] = Gone
  /\ waiter' = "collector"
  /\ Background /\ UNCHANGED <<jobs, worker, results, collected, answered>>

\* Fault: the collector is not waited for.
CloseWaiterEarly ==
  /\ exit = "none" /\ waiter = "collector"
  /\ waiter' = "done"
  /\ Background /\ UNCHANGED <<jobs, worker, results, collected, answered>>

CloseWaiter ==
  /\ exit = "none" /\ waiter = "collector"
  /\ results = <<>>
  /\ waiter' = "done"
  /\ Background /\ UNCHANGED <<jobs, worker, results, collected, answered>>

-----------------------------------------------------------------------------
(* The main goroutine judges                                                *)

Judging == UNCHANGED <<command, resolving, packages, analysisVars, ran, exit>>

Counted(as) == Cardinality({i \in 1..Len(collected) : collected[i].action \in as})

\* TotalAnalyzed and TrustedSkipped are set once the analysis has succeeded.
Analysed ==
  [report EXCEPT !.total = Len(packages),
                 !.trusted = Cardinality({i \in 1..Len(packages) : packages[i] \in Trusted})]

Proceed ==
  /\ waiter = "done"
  /\ Goto("select", "judge")
  /\ report' = Analysed
  /\ Judging /\ UNCHANGED <<said, audit>>

\* Fault: the select has no case for the time limit, but while nothing is asked.
TimeoutIfIdle ==
  /\ Goto("select", "report")
  /\ \A w \in Workers : worker[w].pkg \notin Packages
  /\ report' = [report EXCEPT !.failed = TRUE]
  /\ Judging /\ UNCHANGED <<said, audit>>

\* AnalysisTimeout: the select returns an error, the workers are left to themselves.
Timeout ==
  /\ Goto("select", "report")
  /\ report' = [report EXCEPT !.failed = TRUE]
  /\ Judging /\ UNCHANGED <<said, audit>>

\* AllowedCount when the loop over the results meets the first block.
AllowedFirst ==
  Cardinality({i \in 1..Len(collected) :
    collected[i].action = "allow" /\ \A j \in 1..i : collected[j].action # "block"})

\* The first block ends the loop: one package is reported, whatever comes after.
JudgeBlock ==
  /\ Goto("judge", "report")
  /\ Counted({"block"}) > 0
  /\ report' = [report EXCEPT !.blocked = 1, !.allowed = AllowedFirst]
  /\ audit' = [audit EXCEPT !.blocked = @ + 1, !.total = @ + 1]
  /\ Judging /\ UNCHANGED said

\* LogInstallAllowed, for each install target or for the first package of a manifest.
AllowInstall(record) ==
  LET targets == IF command.kind = "targets" THEN Len(Targets) ELSE 1
  IN  [record EXCEPT !.allowed = @ + targets, !.total = @ + targets]

JudgeSuspicion ==
  /\ Goto("judge", "prompt")
  /\ Counted({"block"}) = 0 /\ Counted({"confirm"}) > 0
  /\ report' = [report EXCEPT !.allowed = Counted({"allow"})]
  /\ Judging /\ UNCHANGED <<said, audit>>

JudgeClear ==
  /\ Goto("judge", "execute")
  /\ Counted({"block", "confirm"}) = 0
  /\ report' = [report EXCEPT !.allowed = Counted({"allow"})]
  /\ audit' = AllowInstall(audit)
  /\ Judging /\ UNCHANGED said

\* One prompt for all that is suspicious: none of it is installed ...
SayNo ==
  /\ Goto("prompt", "report")
  /\ said' = "no"
  /\ report' = [report EXCEPT !.blocked = Counted({"confirm"}), !.cancelled = TRUE]
  /\ audit' = [audit EXCEPT !.blocked = @ + Counted({"confirm"}), !.total = @ + Counted({"confirm"})]
  /\ Judging

\* Fault: the confirmation is not recorded where it is given.
SayYesUnrecorded ==
  /\ Goto("prompt", "execute")
  /\ said' = "yes"
  /\ report' = [report EXCEPT !.confirmed = Counted({"confirm"})]
  /\ audit' = AllowInstall(audit)
  /\ Judging

\* ... or all of it.
SayYes ==
  /\ Goto("prompt", "execute")
  /\ said' = "yes"
  /\ report' = [report EXCEPT !.confirmed = Counted({"confirm"})]
  /\ audit' = AllowInstall([audit EXCEPT !.confirmed = @ + Counted({"confirm"})])
  /\ Judging

\* Standard input ends, or cannot be read.
PromptFails ==
  /\ Goto("prompt", "report")
  /\ report' = [report EXCEPT !.failed = TRUE]
  /\ Judging /\ UNCHANGED <<said, audit>>

-----------------------------------------------------------------------------
(* The package manager, the report and the exit code                        *)

Running == UNCHANGED <<command, resolving, packages, analysisVars, said, audit>>

\* A dry run starts nothing.
Execute ==
  /\ \/ command.dryRun /\ Goto("execute", "report") /\ UNCHANGED ran
     \/ ~command.dryRun /\ Goto("execute", "running") /\ ran' = TRUE
  /\ Running /\ UNCHANGED <<report, exit>>

PackageManagerEnds ==
  /\ Goto("running", "report")
  /\ \E failed \in BOOLEAN : report' = [report EXCEPT !.failed = failed]
  /\ Running /\ UNCHANGED <<ran, exit>>

\* inferOutcome
Outcome ==
  IF report.failed /\ report.blocked = 0 THEN "error"
  ELSE IF command.insecure THEN "insecure"
  ELSE IF command.dryRun THEN "dryRun"
  ELSE IF report.cancelled /\ report.blocked > 0 THEN "cancelled"
  ELSE IF report.blocked > 0 THEN "blocked"
  ELSE "success"

\* LogSessionComplete, the report, and os.Exit(1) or the error of Run.
End ==
  /\ Goto("report", "ended")
  /\ exit' = IF report.failed \/ Outcome \in {"blocked", "cancelled"} THEN "failure" ELSE "success"
  /\ Running /\ UNCHANGED <<ran, report>>

-----------------------------------------------------------------------------
Gather == SetupFails \/ StartUnguarded \/ StartTargets \/ StartManifest \/ Extract \/ Extracted
          \/ ResolveTarget \/ ResolveFails
Queue  == StartWorkers \/ QueuePackage \/ CloseJobs
Judge  == Proceed \/ JudgeBlock \/ JudgeSuspicion \/ JudgeClear
Reply  == SayNo \/ SayYes \/ PromptFails
Work(w) == Take(w) \/ Quit(w) \/ Ask(w) \/ Send(w)

Next ==
  \/ Gather \/ Queue \/ Judge \/ Timeout \/ Reply
  \/ Execute \/ PackageManagerEnds \/ End
  \/ \E w \in Workers : Work(w)
  \/ Collect \/ CloseResults \/ CloseWaiter

Spec == Init /\ [][Next]_vars

\* The main goroutine runs when it can, and the timer fires.  Nothing is assumed
\* of the analyzers, the workers, the user or the package manager.
FairSpec == Spec /\ WF_vars(Gather \/ Queue \/ Judge \/ Timeout \/ Execute \/ End)

-----------------------------------------------------------------------------
Guarded == ~command.insecure /\ command.kind # "other"

\* The package manager never runs over a verdict: whatever was answered, by
\* whichever worker and however late, no package of the installation is to be
\* blocked, and what is suspicious the user has accepted.
FlaggedNeverRuns ==
  (ran /\ Guarded) =>
    \A entry \in answered : entry[3] # "block" /\ (entry[3] = "confirm" => said = "yes")

\* It runs only when every analyzer has been asked of every package, the trusted
\* ones excepted: a time limit or a lost result does not shorten the list.
EverythingIsAsked ==
  (ran /\ Guarded) =>
    \A p \in ToSet(packages) \ Trusted, n \in 1..Analyzers :
      \E entry \in answered : entry[1] = p /\ entry[2] = n

\* Nothing runs that was not analysed, cleared and, where suspected, confirmed.
OnlyClearedRuns == FlaggedNeverRuns /\ EverythingIsAsked

\* The report and the audit session tell the same of what was refused and accepted.
ReportMatchesAudit ==
  exit # "none" => report.blocked = audit.blocked /\ report.confirmed = audit.confirmed

\* Unless the user leaves the prompt open or the package manager goes on for ever,
\* PMG ends, though the analyzers may never answer.
FlowEnds == []<>(pc \notin {"prompt", "running"}) => <>(exit # "none")
=============================================================================
