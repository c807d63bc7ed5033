-------------------------- MODULE CompositeAnalysis --------------------------
(***************************************************************************)
(* One call of the composite analyzer (analyzer/composite.go): every        *)
(* configured analyzer runs in a goroutine of its own, their results come    *)
(* over a buffered channel in any order, and a loop folds them into one      *)
(* verdict, returning at once on malware.                                   *)
(*                                                                         *)
(* What the services and the local files say of the package is fixed in the  *)
(* initial state; which analyzer answers when is not.                       *)
(***************************************************************************)
EXTENDS Naturals, FiniteSets

CONSTANTS
  Analyzers,       \* those createAnalyzer configured, two or three of the names below
  Capacity         \* of the results channel: len(c.analyzers)

AnalyzerNames == {"malysis", "aikido", "policy"}

ASSUME CompositeAssumption ==
  /\ Analyzers \subseteq AnalyzerNames
  /\ Capacity \in Nat

VARIABLES
  world,           \* what there is to be known of the package, and config Paranoid
  phase,           \* of each analyzer's goroutine
  allow,           \* the loop's local variables
  firstBlock,
  degraded,
  returned         \* the verdict of Analyze, once it has returned

localVars == <<allow, firstBlock, degraded>>
analysisVars == <<world, phase, localVars, returned>>

-----------------------------------------------------------------------------
(* What each analyzer answers                                               *)

Result(action, malware, partial) ==
  [action |-> action, malware |-> malware, degraded |-> partial]

Failed   == Result("error", FALSE, FALSE)     \* an error instead of a result
NotFound == Result("notFound", FALSE, FALSE)  \* the error of a package Malysis does not know
None     == Result("none", FALSE, FALSE)      \* a nil pointer

Results == [action : {"allow", "confirm", "block"}, malware : BOOLEAN, degraded : BOOLEAN]

Allow == Result("allow", FALSE, FALSE)

\* Malysis: inferred malware is to be confirmed, or blocked in paranoid mode,
\* verified malware is always blocked.
MalysisResult(report) ==
  IF report = "unreachable" THEN Failed
  ELSE IF report = "notFound" THEN NotFound
  ELSE IF report = "verified" \/ (report = "inferred" /\ world.paranoid)
       THEN Result("block", TRUE, FALSE)
  ELSE IF report = "inferred" THEN Result("confirm", TRUE, FALSE)
  ELSE Allow

\* The Aikido feed: without a snapshot the answer is an Allow marked degraded.
AikidoResult(feed) ==
  CASE feed = "listed"   -> Result("block", TRUE, FALSE)
    [] feed = "unlisted" -> Allow
    [] feed = "absent"   -> Result("allow", FALSE, TRUE)

\* The organisation's policy: the allowlist wins over the blocklist, and a cached
\* policy that cannot be read is no policy.
PolicyResult(policy) ==
  IF policy.readable /\ policy.blocklisted /\ ~policy.allowlisted
  THEN Result("block", FALSE, FALSE)
  ELSE Allow

Worlds == [malysis : {"unreachable", "notFound", "clean", "inferred", "verified"},
           aikido  : {"listed", "unlisted", "absent"},
           paranoid : BOOLEAN,
           policy  : [readable : BOOLEAN, blocklisted : BOOLEAN, allowlisted : BOOLEAN]]

Answer(a) ==
  CASE a = "malysis" -> MalysisResult(world.malysis)
    [] a = "aikido"  -> AikidoResult(world.aikido)
    [] a = "policy"  -> PolicyResult(world.policy)

Blocks(item)  == item.action = "block"
Malware(item) == Blocks(item) /\ item.malware
IsError(item) == item \in {Failed, NotFound}
Partial(item) == item = Failed \/ (~Blocks(item) /\ item.degraded)

-----------------------------------------------------------------------------
AnalysisTypeOK ==
  /\ world \in Worlds
  /\ phase \in [Analyzers -> {"running", "sent", "received"}]
  /\ allow \in Results \cup {None}
  /\ firstBlock \in Results \cup {None}
  /\ degraded \in BOOLEAN
  /\ returned \in Results \cup {None}

AnalysisInit ==
  /\ world \in Worlds
  /\ phase = [a \in Analyzers |-> "running"]
  /\ allow = None
  /\ firstBlock = None
  /\ degraded = FALSE
  /\ returned = None

Buffered == {a \in Analyzers : phase[a] = "sent"}

\* Fault: an unbuffered channel, a send waits for the loop.
SendUnbuffered(a) ==
  /\ phase[a] = "running"
  /\ Buffered = {} /\ returned = None
  /\ phase' = [phase EXCEPT ![a] = "sent"]
  /\ UNCHANGED <<world, localVars, returned>>

\* The goroutine of an analyzer sends its result and exits; it would wait on a
\* full channel.
Send(a) ==
  /\ phase[a] = "running"
  /\ Cardinality(Buffered) < Capacity
  /\ phase' = [phase EXCEPT ![a] = "sent"]
  /\ UNCHANGED <<world, localVars, returned>>

\* The loop takes one result: the order of the sends is arbitrary, and so is
\* which of the results on the channel comes first.
Receive(a) ==
  /\ returned = None
  /\ phase[a] = "sent"
  /\ phase' = [phase EXCEPT ![a] = "received"]
  /\ UNCHANGED world

\* The loop has no eye for what the error is.
ReceiveError(a) ==
  /\ Receive(a)
  /\ IsError(Answer(a))
  /\ degraded' = TRUE
  /\ UNCHANGED <<allow, firstBlock, returned>>

\* Malware ends the call at once; the other goroutines are left to themselves.
ReceiveMalware(a) ==
  /\ Receive(a)
  /\ Malware(Answer(a))
  /\ returned' = Answer(a)
  /\ UNCHANGED localVars

\* Fault: the loop returns on whatever block comes first.
ReceiveAnyBlock(a) ==
  /\ Receive(a)
  /\ Blocks(Answer(a))
  /\ returned' = Answer(a)
  /\ UNCHANGED localVars

\* A block by policy is kept, in case another analyzer reports malware.
ReceiveBlock(a) ==
  /\ Receive(a)
  /\ Blocks(Answer(a)) /\ ~Malware(Answer(a))
  /\ firstBlock' = IF firstBlock = None THEN Answer(a) ELSE firstBlock
  /\ UNCHANGED <<allow, degraded, returned>>

\* Anything else, a result to be confirmed included: the first one is kept.
ReceiveOther(a) ==
  /\ Receive(a)
  /\ ~IsError(Answer(a)) /\ ~Blocks(Answer(a))
  /\ degraded' = (degraded \/ Answer(a).degraded)
  /\ allow' = IF allow = None THEN Answer(a) ELSE allow
  /\ UNCHANGED <<firstBlock, returned>>

\* All goroutines are done, the channel is closed and drained.
Return ==
  /\ returned = None
  /\ \A a \in Analyzers : phase[a] = "received"
  /\ returned' = IF firstBlock # None THEN firstBlock
                 ELSE IF degraded /\ world.paranoid THEN Result("block", FALSE, FALSE)
                 ELSE IF allow = None THEN Allow ELSE allow
  /\ UNCHANGED <<world, phase, localVars>>

Loop == \/ \E a \in Analyzers : \/ ReceiveError(a) \/ ReceiveMalware(a)
                                \/ ReceiveBlock(a) \/ ReceiveOther(a)
        \/ Return

AnalysisNext == (\E a \in Analyzers : Send(a)) \/ Loop

AnalysisSpec == AnalysisInit /\ [][AnalysisNext]_analysisVars

\* Analyzers end, with a result or because their context is over, and the loop runs.
FairAnalysis == /\ AnalysisSpec
            /\ \A a \in Analyzers : WF_analysisVars(Send(a))
            /\ WF_analysisVars(Loop)

-----------------------------------------------------------------------------
(* Properties                                                               *)

SomeBlocks  == \E a \in Analyzers : Blocks(Answer(a))
SomeMalware == \E a \in Analyzers : Malware(Answer(a))
SomePartial == \E a \in Analyzers : Partial(Answer(a))
SomeUnknown == \E a \in Analyzers : Answer(a) = NotFound

\* Whatever the order of arrival and however early the loop returns, the package
\* is blocked exactly if an analyzer blocks it, or if the mode is paranoid and one
\* could not check it.  In that mode a package Malysis does not know is blocked too,
\* where docs/malware-detection.md:94 says "`NotFound` responses are treated as safe":
\* the composite takes it for a failure, and base_registry.go, which would allow it,
\* is never shown the error.
BlockIsOrderFree ==
  returned # None =>
    (returned.action = "block"
       <=> SomeBlocks \/ (world.paranoid /\ (SomePartial \/ SomeUnknown)))

\* A package that is both malware and blocked by the policy is reported as
\* malware, in whichever order the two analyzers answer (composite.go:72-74).
MalwareOutranksPolicy ==
  returned # None /\ SomeMalware => returned.malware

\* Which analyzer answers first decides neither whether the package is blocked nor
\* whether as malware.  It does decide whether the user is asked: of that,
\* SuspicionIsPrompted.
VerdictIsRight == BlockIsOrderFree /\ MalwareOutranksPolicy

\* No goroutine is left on the channel when the loop returns early
\* (composite.go:45-46), and the call returns.
AllGone == returned # None /\ \A a \in Analyzers : phase[a] # "running"
AllGoroutinesEnd == <>AllGone

\* docs/malware-detection.md:80 says: "Inferred malware: `ActionConfirm` (prompt
\* user)".  The loop keeps the first result that is not a block, so an Allow that
\* arrives before Malysis's Confirm hides it.
SuspicionIsPrompted ==
  returned # None /\ "malysis" \in Analyzers /\ world.malysis = "inferred" =>
    returned.action # "allow"
=============================================================================
