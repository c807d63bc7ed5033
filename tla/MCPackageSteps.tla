---------------------------- MODULE MCPackageSteps ----------------------------
(***************************************************************************)
(* The steps on the way of a package to its verdict: a word of a command line, *)
(* an edge of a dependency graph or the path of a request to a registry names  *)
(* it, the feed is loaded, and the composite analyzer judges it.  The five     *)
(* share no state but the name, so a behaviour takes one of them.             *)
(***************************************************************************)
EXTENDS MCDependencyResolver, MCRegistryRequest, MCCommandLine, CompositeAnalysis, AikidoFeed

VARIABLE part       \* the one that this behaviour takes

stepsVars == <<walkVars, registryVars, commandVars, analysisVars, vars, part>>

\* The other four stay as they are here.
WalkIdle ==
  /\ deps = CHOOSE g \in Graphs : TRUE
  /\ failFast = FALSE
  /\ at = [call \in {Top} |-> "gaveUp"]
  /\ visited = {}
  /\ result = {}

AnalysisIdle ==
  /\ world = [malysis |-> "clean", aikido |-> "unlisted", paranoid |-> FALSE,
              policy |-> [readable |-> FALSE, blocklisted |-> FALSE, allowlisted |-> FALSE]]
  /\ phase = [analyzer \in Analyzers |-> "received"]
  /\ allow = Allow /\ firstBlock = None /\ degraded = FALSE
  /\ returned = Allow

FeedIdle == Init /\ disk = 0

StepsInit ==
  /\ part \in {"walk", "registry", "command", "analysis", "feed"}
  /\ IF part = "walk" THEN WalkInit ELSE WalkIdle
  /\ IF part = "registry" THEN RegistryInit ELSE RegistryIdle
  /\ IF part = "command" THEN CommandInit ELSE CommandIdle
  /\ IF part = "analysis" THEN AnalysisInit ELSE AnalysisIdle
  /\ IF part = "feed" THEN Init ELSE FeedIdle

Walking(A) ==
  part = "walk" /\ A /\ UNCHANGED <<registryVars, commandVars, analysisVars, vars, part>>
Requesting(A) ==
  part = "registry" /\ A /\ UNCHANGED <<walkVars, commandVars, analysisVars, vars, part>>
Commanding(A) ==
  part = "command" /\ A /\ UNCHANGED <<walkVars, registryVars, analysisVars, vars, part>>
Analysing(A) ==
  part = "analysis" /\ A /\ UNCHANGED <<walkVars, registryVars, commandVars, vars, part>>
Feeding(A) ==
  part = "feed" /\ A /\ UNCHANGED <<walkVars, registryVars, commandVars, analysisVars, part>>

StepsNext ==
  \/ Walking(WalkNext)
  \/ Requesting(RegistryNext)
  \/ Commanding(CommandNext)
  \/ Analysing(AnalysisNext)
  \/ Feeding(Next)

\* The fairness of FairWalk, FairAnalysis and the FairSpec of the feed: goroutines that
\* can run do, analyzers answer or run out of time, and the HTTP client has a timeout.
StepsSpec ==
  /\ StepsInit /\ [][StepsNext]_stepsVars
  /\ WF_walkVars(part = "walk" /\ WalkNext)
  /\ \A analyzer \in Analyzers : WF_analysisVars(part = "analysis" /\ Send(analyzer))
  /\ WF_analysisVars(part = "analysis" /\ Loop)
  /\ \A caller \in Callers : WF_vars(part = "feed" /\ (Progress(caller) \/ Load(caller)))
  /\ \A goroutine \in Refreshers :
       WF_vars(part = "feed" /\ (Load(goroutine) \/ EndRefresh(goroutine)))

\* No goroutine that looks for dependencies, and none that asks an analyzer, waits for
\* ever, on a semaphore or on a channel that nobody reads
\* (dependency_resolver.go, composite.go).
EveryGoroutineEnds == <>(Done /\ AllGone)

\* Nor does a caller of the feed, or its refresh (aikido_intel.go).
AllWorkEnds == EveryGoroutineEnds /\ FeedWorkEnds
=============================================================================
