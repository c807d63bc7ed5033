--------------------------- MODULE GuardFlowProofs ---------------------------
(***************************************************************************)
(* Proofs about GuardFlow, for any targets, dependencies, analyzers and       *)
(* number of workers.                                                        *)
(*                                                                         *)
(* A package is cleared by what three kinds of goroutine hand on.  The        *)
(* invariant follows both ends of it: a package that was queued waits in the   *)
(* channel, is in some worker's hands, or has been asked about (AllAsked); an   *)
(* answer is held by a worker, is in the channel of results, or is collected     *)
(* (AllDelivered).  When the last goroutine has closed the waiter the first two   *)
(* places are empty (WaiterHolds), so that the verdict rests on all of it.        *)
(***************************************************************************)
EXTENDS GuardFlow, FiniteSetTheorems, SequenceTheorems, TLAPS

-----------------------------------------------------------------------------
(* The invariant                                                            *)

Among(s, x)      == \E i \in 1..Len(s) : s[i] = x
Waiting(p)       == Among(jobs, p)
InHand(p, n)     == \E w \in Workers : worker[w].pkg = p /\ worker[w].next <= n
Questioned(p, n) == \E r \in Actions \cup {"error"} : <<p, n, r>> \in answered

\* A package whose turn has come is not lost before every analyzer has been asked.
AllAsked ==
  \A i \in 1..queued : packages[i] \notin Trusted =>
    \A n \in 1..Analyzers :
      Waiting(packages[i]) \/ InHand(packages[i], n) \/ Questioned(packages[i], n)

HeldOf(p, n, a) ==
  \E w \in Workers : worker[w].pkg = p /\ worker[w].next = n /\ worker[w].holds = a

\* An answer is not lost before it is collected ...
AllDelivered ==
  \A p \in Packages, n \in 1..Analyzers, a \in Actions :
    <<p, n, a>> \in answered =>
      HeldOf(p, n, a) \/ Among(results, Result(p, a)) \/ Among(collected, Result(p, a))

\* ... and what a worker holds is the answer it got.
HeldIsAnswered ==
  \A w \in Workers : worker[w].holds # "none" =>
    /\ worker[w].pkg \in Packages
    /\ <<worker[w].pkg, worker[w].next, worker[w].holds>> \in answered

\* A worker goes when there is nothing left to take, the results are closed when all
\* have gone, and the waiter when nothing is left to collect.
WaiterHolds ==
  /\ waiter # "notStarted" =>
       /\ queued = Len(packages)
       /\ (\E w \in Workers : worker[w] = Gone) => jobs = <<>>
  /\ waiter \in {"collector", "done"} => \A w \in Workers : worker[w] = Gone
  /\ waiter = "done" => results = <<>>

AnalysisInv == AllAsked /\ AllDelivered /\ HeldIsAnswered /\ WaiterHolds

\* Nothing has been analysed, and no goroutine is there to do it.
Untouched ==
  /\ waiter = "notStarted"
  /\ queued = 0 /\ jobs = <<>> /\ results = <<>> /\ collected = <<>>
  /\ answered = {}
  /\ \A w \in Workers : worker[w] = Gone

\* What the package manager is started on: an empty manifest, or verdicts of which
\* none blocks, and none is suspicious but on the user's word.
Cleared ==
  \/ Untouched /\ packages = <<>>
  \/ /\ waiter = "done"
     /\ \A i \in 1..Len(collected) :
          /\ collected[i].action # "block"
          /\ collected[i].action = "confirm" => said = "yes"

PhaseInv ==
  /\ pc \in {"start", "extract", "resolve"} => Untouched
  /\ pc = "start" => packages = <<>>
  /\ pc = "extract" => Len(packages) + resolving <= Len(Targets)
  /\ pc = "resolve" => resolving <= Len(packages)
  /\ pc = "queue" => waiter = "notStarted" /\ \A w \in Workers : worker[w] # Gone
  /\ pc \in {"judge", "prompt"} => waiter = "done"
  /\ pc = "prompt" => \A i \in 1..Len(collected) : collected[i].action # "block"
  /\ ran => pc \in {"running", "report", "ended"}
  /\ (pc \in {"execute", "running"} \/ ran) /\ Guarded => Cleared

\* The report and the audit session move together, and only once a verdict is known.
BooksInv ==
  /\ report.blocked = audit.blocked /\ report.confirmed = audit.confirmed
  /\ pc \in {"start", "extract", "resolve", "queue", "select", "judge", "prompt"} =>
       report.blocked = 0 /\ report.confirmed = 0

FlowInv == TypeOK /\ AnalysisInv /\ PhaseInv /\ BooksInv

-----------------------------------------------------------------------------
(* Sequences and counts                                                     *)

\* Receiving from a channel loses only what is received ...
LEMMA TakeFirst ==
  ASSUME NEW S, NEW s \in Seq(S), s # <<>>
  PROVE  /\ Head(s) \in S /\ Tail(s) \in Seq(S)
         /\ \A x : Among(s, x) => x = Head(s) \/ Among(Tail(s), x)
<1>1. /\ Head(s) \in S /\ Tail(s) \in Seq(S) /\ Len(Tail(s)) = Len(s) - 1
      /\ \A i \in 1..Len(Tail(s)) : Tail(s)[i] = s[i + 1]
  BY HeadTailProperties
<1>2. ASSUME NEW i \in 1..Len(s), s[i] # Head(s) PROVE Among(Tail(s), s[i])
  <2>1. s[1] = Head(s)
    OBVIOUS
  <2>2. i # 1 /\ Len(s) \in Nat
    BY <1>2, <2>1
  <2>3. i - 1 \in 1..Len(Tail(s)) /\ (i - 1) + 1 = i
    BY <1>1, <2>2
  <2> QED
    BY <1>1, <2>3 DEF Among
<1> QED
  BY <1>1, <1>2 DEF Among

\* ... and sending to one adds what is sent.
LEMMA AddLast ==
  ASSUME NEW S, NEW s \in Seq(S), NEW e \in S
  PROVE  /\ Append(s, e) \in Seq(S) /\ Len(Append(s, e)) = Len(s) + 1
         /\ Among(Append(s, e), e)
         /\ \A x : Among(s, x) => Among(Append(s, e), x)
<1>1. /\ Append(s, e) \in Seq(S) /\ Len(Append(s, e)) = Len(s) + 1 /\ Len(s) \in Nat
      /\ \A i \in 1..Len(s) : Append(s, e)[i] = s[i]
      /\ Append(s, e)[Len(s) + 1] = e
  BY AppendProperties
<1> QED
  BY <1>1 DEF Among

LEMMA Listed ==
  ASSUME NEW S, IsFiniteSet(S)
  PROVE  SetToSeq(S) \in Seq(S)
<1>1. Cardinality(S) \in Nat /\ ExistsBijection(1..Cardinality(S), S)
  BY FS_CardinalityType
<1>2. \E f \in [1..Cardinality(S) -> S] : IsInjective(f)
  BY <1>1 DEF ExistsBijection, Bijection, Injection
<1>3. SetToSeq(S) \in [1..Cardinality(S) -> S]
  BY <1>2 DEF SetToSeq
<1> QED
  BY <1>1, <1>3

LEMMA PositionsCount ==
  ASSUME NEW n \in Nat, NEW S \in SUBSET (1..n)
  PROVE  Cardinality(S) \in Nat /\ (Cardinality(S) = 0 <=> S = {})
<1>1. IsFiniteSet(1..n)
  BY FS_Interval
<1>2. IsFiniteSet(S)
  BY <1>1, FS_Subset
<1> QED
  BY <1>2, FS_CardinalityType, FS_EmptySet

\* What the loop over the verdicts counts.
LEMMA Counts ==
  ASSUME collected \in Seq(ResultsOf(Actions))
  PROVE  /\ AllowedFirst \in Nat
         /\ \A as : /\ Counted(as) \in Nat
                    /\ Counted(as) = 0 <=> \A i \in 1..Len(collected) : collected[i].action \notin as
<1>1. Len(collected) \in Nat
  OBVIOUS
<1>2. AllowedFirst \in Nat
  BY <1>1, PositionsCount DEF AllowedFirst
<1>3. ASSUME NEW as
      PROVE  /\ Counted(as) \in Nat
             /\ Counted(as) = 0 <=> \A i \in 1..Len(collected) : collected[i].action \notin as
  <2> DEFINE S == {i \in 1..Len(collected) : collected[i].action \in as}
  <2>1. Cardinality(S) \in Nat /\ (Cardinality(S) = 0 <=> S = {})
    BY <1>1, PositionsCount
  <2> QED
    BY <2>1 DEF Counted
<1> QED
  BY <1>2, <1>3

-----------------------------------------------------------------------------
(* Types                                                                    *)

WorkerTypes == [pkg : Packages \cup {"none", "gone"}, next : 1..Analyzers,
                holds : Actions \cup {"none"}]
AuditTypes  == [allowed : Nat, confirmed : Nat, blocked : Nat, total : Nat]

LEMMA FirstAnalyzer == Idle \in WorkerTypes /\ Gone \in WorkerTypes /\ Analyzers \in Nat
BY GuardFlowAssumption DEF Idle, Gone, WorkerTypes, Actions

LEMMA TypesInit == Init => TypeOK
<1> SUFFICES ASSUME Init PROVE TypeOK
  OBVIOUS
<1>1. Len(Targets) \in Nat
  BY GuardFlowAssumption
<1>2. worker \in [Workers -> WorkerTypes]
  BY FirstAnalyzer DEF Init
<1>3. report \in Reports /\ audit \in AuditTypes
  BY DEF Init, Reports, NoReport, AuditTypes
<1>4. packages \in Seq(Packages) /\ jobs \in Seq(Packages)
  BY DEF Init
<1>5. results \in Seq(ResultsOf(Actions)) /\ collected \in Seq(ResultsOf(Actions))
  BY DEF Init
<1>6. resolving \in 0..Len(Targets) /\ queued \in 0..Len(packages)
  BY <1>1, <1>4 DEF Init
<1> QED
  BY <1>2, <1>3, <1>4, <1>5, <1>6 DEF Init, TypeOK, WorkerTypes, AuditTypes

\* The main goroutine gathers the packages.
LEMMA GatherTypes ==
  ASSUME TypeOK, PhaseInv, Gather
  PROVE  TypeOK'
<1>1. Len(Targets) \in Nat /\ Targets \in Seq(Packages) /\ Len(packages) \in Nat
  BY GuardFlowAssumption DEF TypeOK
<1>2. CASE SetupFails \/ StartUnguarded \/ ResolveFails
  BY <1>2 DEF SetupFails, StartUnguarded, ResolveFails, Goto, TypeOK, analysisVars, outcomeVars,
     Reports
<1>3. CASE StartTargets \/ StartManifest
  <2>1. queued = 0
    BY <1>3 DEF StartTargets, StartManifest, Goto, PhaseInv, Untouched
  <2>2. packages' \in Seq(Packages) /\ resolving' \in 0..Len(Targets) /\ queued' = 0
    BY <1>1, <1>3, <2>1 DEF StartTargets, StartManifest, TypeOK, analysisVars
  <2>3. queued' \in 0..Len(packages)'
    BY <2>2
  <2> QED
    BY <1>3, <2>2, <2>3 DEF StartTargets, StartManifest, Goto, TypeOK, analysisVars, outcomeVars
<1>4. CASE Extract
  <2>1. queued = 0
    BY <1>4 DEF Extract, Goto, PhaseInv, Untouched
  <2>2. Len(Targets) + 1 - resolving \in 1..Len(Targets) /\ resolving' \in 0..Len(Targets)
    BY <1>1, <1>4 DEF Extract, TypeOK
  <2>3. Targets[Len(Targets) + 1 - resolving] \in Packages /\ packages \in Seq(Packages)
    BY <1>1, <2>2 DEF TypeOK
  <2>4. packages' \in Seq(Packages)
    BY <1>4, <2>3, AddLast DEF Extract
  <2>5. queued' \in 0..Len(packages)'
    BY <1>4, <2>1, <2>4 DEF Extract, analysisVars
  <2> QED
    BY <1>4, <2>2, <2>4, <2>5 DEF Extract, Goto, TypeOK, analysisVars, outcomeVars
<1>5. CASE Extracted
  <2>1. resolving' \in 0..Len(Targets)
    BY <1>1, <1>5 DEF Extracted, Goto, PhaseInv
  <2> QED
    BY <1>5, <2>1 DEF Extracted, Goto, TypeOK, analysisVars, outcomeVars
<1>6. CASE ResolveTarget
  <2>1. queued = 0 /\ packages[resolving] \in Packages
    BY <1>1, <1>6 DEF ResolveTarget, Goto, PhaseInv, Untouched, TypeOK
  <2>2. PICK found \in SUBSET Dependencies[packages[resolving]] :
          packages' = packages \o SetToSeq(found)
    BY <1>6 DEF ResolveTarget
  <2>3. found \subseteq Packages /\ IsFiniteSet(found)
    BY <2>1, GuardFlowAssumption, FS_Subset
  <2>4. SetToSeq(found) \in Seq(Packages)
    BY <2>3, Listed
  <2>5. packages' \in Seq(Packages) /\ resolving' \in 0..Len(Targets)
    BY <1>1, <1>6, <2>2, <2>4, ConcatProperties DEF ResolveTarget, TypeOK
  <2>6. queued' \in 0..Len(packages)'
    BY <1>6, <2>1, <2>5 DEF ResolveTarget, analysisVars
  <2> QED
    BY <1>6, <2>5, <2>6 DEF ResolveTarget, Goto, TypeOK, analysisVars, outcomeVars
<1> QED
  BY <1>2, <1>3, <1>4, <1>5, <1>6 DEF Gather

LEMMA QueueTypes ==
  ASSUME TypeOK, Queue
  PROVE  TypeOK'
<1>1. CASE StartWorkers
  <2>1. worker' \in [Workers -> WorkerTypes]
    BY <1>1, FirstAnalyzer DEF StartWorkers
  <2> QED
    BY <1>1, <2>1 DEF StartWorkers, Goto, TypeOK, WorkerTypes, outcomeVars
<1>2. CASE QueuePackage
  <2>1. queued' \in 1..Len(packages) /\ Len(packages) \in Nat
    BY <1>2 DEF QueuePackage, TypeOK
  <2>2. packages[queued'] \in Packages
    BY <2>1 DEF TypeOK
  <2>3. jobs' \in Seq(Packages)
    BY <1>2, <2>2, AddLast DEF QueuePackage, TypeOK
  <2> QED
    BY <1>2, <2>1, <2>3 DEF QueuePackage, Goto, TypeOK, outcomeVars
<1>3. CASE CloseJobs
  BY <1>3 DEF CloseJobs, Goto, TypeOK, outcomeVars
<1> QED
  BY <1>1, <1>2, <1>3 DEF Queue

\* What a worker does to its own entry.
LEMMA OnwardTypes ==
  ASSUME TypeOK, NEW w \in Workers, Onward(w)
  PROVE  worker' \in [Workers -> WorkerTypes]
<1>1. worker \in [Workers -> WorkerTypes]
  BY DEF TypeOK, WorkerTypes
<1>2. CASE worker[w].next = Analyzers
  BY <1>1, <1>2, FirstAnalyzer DEF Onward
<1>3. CASE worker[w].next # Analyzers
  <2>1. worker[w].next + 1 \in 1..Analyzers
    BY <1>1, <1>3, FirstAnalyzer DEF WorkerTypes
  <2>2. [pkg |-> worker[w].pkg, next |-> worker[w].next + 1, holds |-> "none"] \in WorkerTypes
    BY <1>1, <2>1 DEF WorkerTypes
  <2> QED
    BY <1>1, <1>3, <2>2 DEF Onward
<1> QED
  BY <1>2, <1>3

\* What workers and collector change, and nothing else.
ChannelTypes ==
  /\ jobs \in Seq(Packages)
  /\ worker \in [Workers -> WorkerTypes]
  /\ results \in Seq(ResultsOf(Actions)) /\ collected \in Seq(ResultsOf(Actions))
  /\ waiter \in {"notStarted", "workers", "collector", "done"}
  /\ answered \subseteq Packages \X (1..Analyzers) \X (Actions \cup {"error"})

LEMMA BackgroundTypes ==
  ASSUME TypeOK, Background, ChannelTypes'
  PROVE  TypeOK'
BY DEF TypeOK, Background, ChannelTypes, WorkerTypes, outcomeVars

LEMMA TypedChannels ==
  ASSUME TypeOK
  PROVE  ChannelTypes
BY DEF TypeOK, ChannelTypes, WorkerTypes

LEMMA WorkTypes ==
  ASSUME TypeOK, NEW w \in Workers, Work(w)
  PROVE  TypeOK'
<1>0. ChannelTypes
  BY TypedChannels
<1>1. worker \in [Workers -> WorkerTypes] /\ worker[w] \in WorkerTypes
  BY <1>0 DEF ChannelTypes
<1>2. CASE Take(w)
  <2>1. Head(jobs) \in Packages /\ Tail(jobs) \in Seq(Packages)
    BY <1>0, <1>2, TakeFirst DEF Take, ChannelTypes
  <2>2. worker' \in [Workers -> WorkerTypes]
    BY <1>1, <1>2, <2>1 DEF Take, WorkerTypes
  <2> QED
    BY <1>0, <1>2, <2>1, <2>2, BackgroundTypes DEF Take, ChannelTypes
<1>3. CASE Quit(w)
  <2>1. worker' \in [Workers -> WorkerTypes]
    BY <1>1, <1>3, FirstAnalyzer DEF Quit
  <2> QED
    BY <1>0, <1>3, <2>1, BackgroundTypes DEF Quit, ChannelTypes
<1>4. CASE Ask(w)
  <2>1. PICK r \in Answers[<<worker[w].pkg, worker[w].next>>] :
          /\ answered' = answered \cup {<<worker[w].pkg, worker[w].next, r>>}
          /\ IF r = "error" THEN Onward(w) ELSE worker' = [worker EXCEPT ![w].holds = r]
    BY <1>4 DEF Ask
  <2>2. worker[w].pkg \in Packages /\ worker[w].next \in 1..Analyzers
    BY <1>1, <1>4 DEF Ask, Asking, WorkerTypes
  <2>3. <<worker[w].pkg, worker[w].next>> \in Packages \X (1..Analyzers)
    BY <2>2
  <2>4. r \in Actions \cup {"error"}
    BY <2>1, <2>3, GuardFlowAssumption
  <2>5. answered' \subseteq Packages \X (1..Analyzers) \X (Actions \cup {"error"})
    BY <1>0, <2>1, <2>2, <2>4 DEF ChannelTypes
  <2>6. CASE r = "error"
    <3>1. worker' \in [Workers -> WorkerTypes]
      BY <2>1, <2>6, OnwardTypes
    <3> QED
      BY <1>0, <1>4, <2>5, <3>1, BackgroundTypes DEF Ask, ChannelTypes
  <2>7. CASE r # "error"
    <3>1. worker' \in [Workers -> WorkerTypes]
      BY <1>1, <2>1, <2>4, <2>7 DEF WorkerTypes
    <3> QED
      BY <1>0, <1>4, <2>5, <3>1, BackgroundTypes DEF Ask, ChannelTypes
  <2> QED
    BY <2>6, <2>7
<1>5. CASE Send(w)
  <2>1. worker' \in [Workers -> WorkerTypes]
    BY <1>5, OnwardTypes DEF Send
  <2>2. Result(worker[w].pkg, worker[w].holds) \in ResultsOf(Actions)
    BY <1>1, <1>5 DEF Send, Asking, Result, ResultsOf, WorkerTypes
  <2>3. results' \in Seq(ResultsOf(Actions))
    BY <1>5, <2>2, AddLast, <1>0 DEF Send, ChannelTypes
  <2> QED
    BY <1>0, <1>5, <2>1, <2>3, BackgroundTypes DEF Send, ChannelTypes
<1> QED
  BY <1>2, <1>3, <1>4, <1>5 DEF Work

LEMMA CollectorTypes ==
  ASSUME TypeOK, Collect \/ CloseResults \/ CloseWaiter
  PROVE  TypeOK'
<1>0. ChannelTypes
  BY TypedChannels
<1>1. CASE Collect
  <2>1. Head(results) \in ResultsOf(Actions) /\ Tail(results) \in Seq(ResultsOf(Actions))
    BY <1>0, <1>1, TakeFirst DEF Collect, ChannelTypes
  <2>2. collected' \in Seq(ResultsOf(Actions))
    BY <1>0, <1>1, <2>1, AddLast DEF Collect, ChannelTypes
  <2> QED
    BY <1>0, <1>1, <2>1, <2>2, BackgroundTypes DEF Collect, ChannelTypes
<1>2. CASE CloseResults \/ CloseWaiter
  BY <1>0, <1>2, BackgroundTypes DEF CloseResults, CloseWaiter, ChannelTypes
<1> QED
  BY <1>1, <1>2

\* A count is added to a field of the audit session, and to the total.
LEMMA AuditCounts ==
  ASSUME NEW record \in AuditTypes, NEW n \in Nat
  PROVE  /\ [record EXCEPT !.blocked = @ + n, !.total = @ + n] \in AuditTypes
         /\ [record EXCEPT !.allowed = @ + n, !.total = @ + n] \in AuditTypes
         /\ [record EXCEPT !.confirmed = @ + n] \in AuditTypes
<1>1. /\ record.blocked + n \in Nat /\ record.allowed + n \in Nat
      /\ record.confirmed + n \in Nat /\ record.total + n \in Nat
  BY DEF AuditTypes
<1> QED
  BY <1>1 DEF AuditTypes

LEMMA AllowTypes ==
  ASSUME NEW record \in AuditTypes
  PROVE  AllowInstall(record) \in AuditTypes
<1>1. (IF command.kind = "targets" THEN Len(Targets) ELSE 1) \in Nat
  BY GuardFlowAssumption
<1> QED
  BY <1>1, AuditCounts DEF AllowInstall

\* What a verdict does to the report and to the audit session.
LEMMA BooksTypes ==
  ASSUME TypeOK, Judge \/ Timeout \/ Reply
  PROVE  report' \in Reports /\ audit' \in AuditTypes
<1>1. report \in Reports /\ audit \in AuditTypes
  BY DEF TypeOK, AuditTypes
<1>2. /\ AllowedFirst \in Nat /\ Counted({"allow"}) \in Nat /\ Counted({"confirm"}) \in Nat
      /\ Len(packages) \in Nat /\ Len(Targets) \in Nat
  BY Counts, GuardFlowAssumption DEF TypeOK
<1>3. Cardinality({i \in 1..Len(packages) : packages[i] \in Trusted}) \in Nat
  BY <1>2, PositionsCount
<1>4. CASE Proceed
  BY <1>1, <1>2, <1>3, <1>4 DEF Proceed, Analysed, Reports
<1>5. CASE Timeout \/ PromptFails
  BY <1>1, <1>5 DEF Timeout, PromptFails, Reports
<1>6. CASE JudgeBlock
  <2>1. report' \in Reports
    BY <1>1, <1>2, <1>6 DEF JudgeBlock, Reports
  <2> QED
    BY <1>1, <1>6, <2>1, AuditCounts DEF JudgeBlock
<1>7. CASE SayNo
  <2>1. report' \in Reports
    BY <1>1, <1>2, <1>7 DEF SayNo, Reports
  <2> QED
    BY <1>1, <1>2, <1>7, <2>1, AuditCounts DEF SayNo
<1>8. CASE JudgeSuspicion
  BY <1>1, <1>2, <1>8 DEF JudgeSuspicion, Reports
<1>9. CASE JudgeClear
  <2>1. report' \in Reports
    BY <1>1, <1>2, <1>9 DEF JudgeClear, Reports
  <2> QED
    BY <1>1, <1>9, <2>1, AllowTypes DEF JudgeClear
<1>10. CASE SayYes
  <2>1. report' \in Reports
    BY <1>1, <1>2, <1>10 DEF SayYes, Reports
  <2>2. [audit EXCEPT !.confirmed = @ + Counted({"confirm"})] \in AuditTypes
    BY <1>1, <1>2, AuditCounts
  <2> QED
    BY <1>10, <2>1, <2>2, AllowTypes DEF SayYes
<1> QED
  BY <1>4, <1>5, <1>6, <1>7, <1>8, <1>9, <1>10 DEF Judge, Reply

LEMMA VerdictTypes ==
  ASSUME TypeOK, Judge \/ Timeout \/ Reply
  PROVE  TypeOK'
<1>1. report' \in Reports /\ audit' \in AuditTypes
  BY BooksTypes
<1>2. UNCHANGED <<command, resolving, packages, analysisVars, ran, exit>>
  BY DEF Judge, Reply, Proceed, Timeout, JudgeBlock, JudgeSuspicion, JudgeClear, SayNo, SayYes,
     PromptFails, Judging
<1>3. /\ pc' \in {"report", "judge", "prompt", "execute"}
      /\ said' \in {said, "yes", "no"}
  BY DEF Judge, Reply, Proceed, Timeout, JudgeBlock, JudgeSuspicion, JudgeClear, SayNo, SayYes,
     PromptFails, Goto
<1> QED
  BY <1>1, <1>2, <1>3 DEF TypeOK, AuditTypes, analysisVars

LEMMA EndTypes ==
  ASSUME TypeOK, Execute \/ PackageManagerEnds \/ End
  PROVE  TypeOK'
<1>1. UNCHANGED <<command, resolving, packages, analysisVars, said, audit>>
  BY DEF Execute, PackageManagerEnds, End, Running
<1>2. pc' \in {"report", "running", "ended"} /\ ran' \in {ran, TRUE}
  BY DEF Execute, PackageManagerEnds, End, Goto
<1>3. report' \in Reports
  BY DEF Execute, PackageManagerEnds, End, TypeOK, Reports
<1>4. exit' \in {exit, "success", "failure"}
  BY DEF Execute, PackageManagerEnds, End
<1> QED
  BY <1>1, <1>2, <1>3, <1>4 DEF TypeOK, analysisVars

LEMMA TypesStep ==
  ASSUME TypeOK, PhaseInv, [Next]_vars
  PROVE  TypeOK'
<1>1. CASE UNCHANGED vars
  BY <1>1 DEF vars, TypeOK, analysisVars, outcomeVars
<1> QED
  BY <1>1, GatherTypes, QueueTypes, WorkTypes, CollectorTypes, VerdictTypes, EndTypes DEF Next

-----------------------------------------------------------------------------
(* What happens to a package and to an answer                               *)

\* The main goroutine does nothing to the analysis but start it and queue packages.
MainVars == <<queued, jobs, worker, results, collected, waiter, answered, packages>>

LEMMA AnalysisFrame ==
  ASSUME AnalysisInv, UNCHANGED MainVars
  PROVE  AnalysisInv'
BY DEF MainVars, AnalysisInv, AllAsked, AllDelivered, HeldIsAnswered, WaiterHolds, Waiting, InHand,
   Questioned, HeldOf, Among

\* With nothing queued and nothing answered, nothing can be lost.
LEMMA NothingToLose ==
  ASSUME queued' = 0, answered' = {}, waiter' = "notStarted",
         \A w \in Workers : worker'[w].holds = "none"
  PROVE  AnalysisInv'
BY DEF AnalysisInv, AllAsked, AllDelivered, HeldIsAnswered, WaiterHolds

LEMMA AnalysisInit == Init => AnalysisInv
BY DEF Init, Gone, AnalysisInv, AllAsked, AllDelivered, HeldIsAnswered, WaiterHolds

LEMMA Apart ==
  /\ Idle # Gone
  /\ Idle.pkg \notin Packages /\ Gone.pkg \notin Packages
  /\ Idle.holds = "none" /\ Gone.holds = "none" /\ Idle.next = 1
  /\ "none" \notin Actions /\ "error" \notin Actions
BY GuardFlowAssumption DEF Idle, Gone, Actions

\* A package leaves the channel for a worker's hands, and those when it has been asked about.
LEMMA AskedKept ==
  ASSUME AllAsked, UNCHANGED <<packages, queued>>,
         \A p \in Packages : Waiting(p) => Waiting(p)' \/ \A n \in 1..Analyzers : InHand(p, n)',
         \A p \in Packages, n \in 1..Analyzers : InHand(p, n) => InHand(p, n)' \/ Questioned(p, n)',
         answered \subseteq answered', TypeOK
  PROVE  AllAsked'
<1> SUFFICES ASSUME NEW i \in 1..queued, packages[i] \notin Trusted, NEW n \in 1..Analyzers
             PROVE  Waiting(packages[i])' \/ InHand(packages[i], n)' \/ Questioned(packages[i], n)'
  BY DEF AllAsked
<1>1. packages[i] \in Packages
  BY DEF TypeOK
<1>2. Waiting(packages[i]) \/ InHand(packages[i], n) \/ Questioned(packages[i], n)
  BY DEF AllAsked
<1>3. Questioned(packages[i], n) => Questioned(packages[i], n)'
  BY DEF Questioned
<1> QED
  BY <1>1, <1>2, <1>3

LEMMA GatherKeeps ==
  ASSUME TypeOK, PhaseInv, AnalysisInv, Gather
  PROVE  AnalysisInv'
<1>1. UNCHANGED <<queued, jobs, worker, results, collected, waiter, answered>>
  BY DEF Gather, SetupFails, StartUnguarded, StartTargets, StartManifest, Extract, Extracted,
     ResolveTarget, ResolveFails, analysisVars
<1>2. UNCHANGED packages \/ pc \in {"start", "extract", "resolve"}
  BY DEF Gather, SetupFails, StartUnguarded, StartTargets, StartManifest, Extract, Extracted,
     ResolveTarget, ResolveFails, Goto
<1>3. CASE UNCHANGED packages
  BY <1>1, <1>3, AnalysisFrame DEF MainVars
<1>4. CASE pc \in {"start", "extract", "resolve"}
  <2>1. Untouched
    BY <1>4 DEF PhaseInv
  <2> QED
    BY <1>1, <2>1, NothingToLose, Apart DEF Untouched
<1> QED
  BY <1>2, <1>3, <1>4

LEMMA QueueKeeps ==
  ASSUME TypeOK, PhaseInv, AnalysisInv, Queue
  PROVE  AnalysisInv'
<1>1. CASE StartWorkers
  <2>1. Untouched
    BY <1>1 DEF StartWorkers, Goto, PhaseInv
  <2> QED
    BY <1>1, <2>1, NothingToLose, Apart DEF Untouched, StartWorkers
<1>2. CASE QueuePackage
  <2>1. waiter' = "notStarted" /\ queued + 1 \in 1..Len(packages) /\ queued \in Nat
    BY <1>2 DEF QueuePackage, Goto, PhaseInv, TypeOK
  <2> DEFINE p == packages[queued + 1]
  <2>2. p \in Packages /\ jobs \in Seq(Packages)
    BY <2>1 DEF TypeOK
  <2>3. queued' = queued + 1 /\ jobs' = IF p \in Trusted THEN jobs ELSE Append(jobs, p)
    BY <1>2 DEF QueuePackage
  <2>4. /\ \A x : Among(jobs, x) => Among(jobs', x)
        /\ p \notin Trusted => Among(jobs', p)
    BY <2>2, <2>3, AddLast
  <2>5. UNCHANGED <<packages, worker, results, collected, answered>>
    BY <1>2 DEF QueuePackage
  <2>6. ASSUME NEW i \in 1..queued + 1, packages[i] \notin Trusted, NEW n \in 1..Analyzers
        PROVE  Among(jobs', packages[i]) \/ InHand(packages[i], n) \/ Questioned(packages[i], n)
    <3>1. CASE i = queued + 1
      BY <2>4, <2>6, <3>1
    <3>2. CASE i # queued + 1
      <4>1. i \in 1..queued
        BY <2>1, <3>2
      <4> QED
        BY <2>4, <2>6, <4>1 DEF AnalysisInv, AllAsked, Waiting
    <3> QED
      BY <3>1, <3>2
  <2>7. AllDelivered' /\ HeldIsAnswered'
    BY <2>5 DEF AnalysisInv, AllDelivered, HeldIsAnswered, HeldOf, Among
  <2>8. AllAsked'
    BY <2>3, <2>5, <2>6 DEF AllAsked, Waiting, InHand, Questioned
  <2> QED
    BY <2>1, <2>7, <2>8 DEF AnalysisInv, WaiterHolds
<1>3. CASE CloseJobs
  <2>1. UNCHANGED <<packages, queued, jobs, worker, results, collected, answered>>
    BY <1>3 DEF CloseJobs
  <2>2. waiter' = "workers" /\ queued = Len(packages) /\ \A w \in Workers : worker[w] # Gone
    BY <1>3 DEF CloseJobs, Goto, PhaseInv
  <2>3. AllAsked' /\ AllDelivered' /\ HeldIsAnswered'
    BY <2>1 DEF AnalysisInv, AllAsked, AllDelivered, HeldIsAnswered, Waiting, InHand, Questioned,
       HeldOf
  <2> QED
    BY <2>1, <2>2, <2>3 DEF AnalysisInv, WaiterHolds
<1> QED
  BY <1>1, <1>2, <1>3 DEF Queue

\* A worker with something to do has not gone, and no other that could has.
LEMMA AtWork ==
  ASSUME AnalysisInv, NEW w \in Workers, worker[w] # Gone
  PROVE  waiter \notin {"collector", "done"}
BY DEF AnalysisInv, WaiterHolds

LEMMA TakeMoves ==
  ASSUME TypeOK, NEW w \in Workers, Take(w)
  PROVE  /\ worker'[w].pkg = Head(jobs) /\ worker'[w].next = 1 /\ worker'[w].holds = "none"
         /\ worker'[w] # Gone
         /\ \A v \in Workers \ {w} : worker'[v] = worker[v]
<1>1. worker[w] = Idle /\ jobs # <<>> /\ worker' = [worker EXCEPT ![w].pkg = Head(jobs)]
  BY DEF Take
<1>2. Head(jobs) \in Packages
  BY <1>1, TakeFirst DEF TypeOK
<1>3. worker \in [Workers -> WorkerTypes] /\ worker[w] \in WorkerTypes
  BY DEF TypeOK, WorkerTypes
<1>4. /\ worker'[w].pkg = Head(jobs) /\ worker'[w].next = 1 /\ worker'[w].holds = "none"
      /\ \A v \in Workers \ {w} : worker'[v] = worker[v]
  BY <1>1, <1>3, Apart DEF WorkerTypes
<1> QED
  BY <1>2, <1>4, Apart

LEMMA TakeKeeps ==
  ASSUME TypeOK, AnalysisInv, NEW w \in Workers, Take(w)
  PROVE  AnalysisInv'
<1>1. /\ worker[w] = Idle /\ jobs # <<>>
      /\ worker' = [worker EXCEPT ![w].pkg = Head(jobs)] /\ jobs' = Tail(jobs)
      /\ UNCHANGED <<packages, queued, results, collected, waiter, answered>>
  BY DEF Take, Background
<1>2. Head(jobs) \in Packages /\ \A x : Among(jobs, x) => x = Head(jobs) \/ Among(jobs', x)
  BY <1>1, TakeFirst DEF TypeOK
<1>4. /\ worker'[w].pkg = Head(jobs) /\ worker'[w].next = 1 /\ worker'[w].holds = "none"
      /\ worker'[w] # Gone
      /\ \A v \in Workers \ {w} : worker'[v] = worker[v]
  BY TakeMoves
<1>5. AllAsked'
  <2>1. \A p \in Packages, n \in 1..Analyzers : p = Head(jobs) => InHand(p, n)'
    BY <1>4 DEF InHand
  <2>2. \A p \in Packages, n \in 1..Analyzers : InHand(p, n) => InHand(p, n)'
    BY <1>1, <1>4, Apart DEF InHand
  <2>3. \A p \in Packages : Waiting(p) => Waiting(p)' \/ \A n \in 1..Analyzers : InHand(p, n)'
    BY <1>2, <2>1 DEF Waiting
  <2> QED
    BY <1>1, <2>2, <2>3, AskedKept DEF AnalysisInv
<1>6. AllDelivered'
  <2>1. \A p \in Packages, n \in 1..Analyzers, a \in Actions : HeldOf(p, n, a) => HeldOf(p, n, a)'
    BY <1>1, <1>4, Apart DEF HeldOf
  <2> QED
    BY <1>1, <2>1 DEF AnalysisInv, AllDelivered, Among
<1>7. HeldIsAnswered'
  BY <1>1, <1>4 DEF AnalysisInv, HeldIsAnswered
<1>8. WaiterHolds'
  <2>1. \A v \in Workers : waiter # "notStarted" => worker[v] # Gone
    BY <1>1 DEF AnalysisInv, WaiterHolds
  <2>2. waiter \notin {"collector", "done"}
    BY <1>1, Apart, AtWork
  <2> QED
    BY <1>1, <1>4, <2>1, <2>2 DEF AnalysisInv, WaiterHolds
<1> QED
  BY <1>5, <1>6, <1>7, <1>8 DEF AnalysisInv

LEMMA QuitKeeps ==
  ASSUME TypeOK, AnalysisInv, NEW w \in Workers, Quit(w)
  PROVE  AnalysisInv'
<1>1. /\ worker[w] = Idle /\ jobs = <<>>
      /\ worker' = [worker EXCEPT ![w] = Gone]
      /\ UNCHANGED <<packages, queued, jobs, results, collected, waiter, answered>>
  BY DEF Quit, Background
<1>2. worker'[w] = Gone /\ \A v \in Workers \ {w} : worker'[v] = worker[v]
  BY <1>1 DEF TypeOK
<1>3. AllAsked'
  <2>1. \A p \in Packages, n \in 1..Analyzers : InHand(p, n) => InHand(p, n)'
    BY <1>1, <1>2, Apart DEF InHand
  <2>2. \A p \in Packages : Waiting(p) => Waiting(p)'
    BY <1>1 DEF Waiting, Among
  <2> QED
    BY <1>1, <2>1, <2>2, AskedKept DEF AnalysisInv
<1>4. AllDelivered'
  <2>1. \A p \in Packages, n \in 1..Analyzers, a \in Actions : HeldOf(p, n, a) => HeldOf(p, n, a)'
    BY <1>1, <1>2, Apart DEF HeldOf
  <2> QED
    BY <1>1, <2>1 DEF AnalysisInv, AllDelivered, Among
<1>5. HeldIsAnswered'
  BY <1>1, <1>2, Apart DEF AnalysisInv, HeldIsAnswered
<1>6. WaiterHolds'
  BY <1>1, <1>2, Apart, AtWork DEF AnalysisInv, WaiterHolds
<1> QED
  BY <1>3, <1>4, <1>5, <1>6 DEF AnalysisInv

\* After an analyzer the worker is at the next one with the same package, or done with it.
LEMMA OnwardMoves ==
  ASSUME TypeOK, NEW w \in Workers, Asking(w), Onward(w)
  PROVE  /\ \A v \in Workers \ {w} : worker'[v] = worker[v]
         /\ worker'[w].holds = "none" /\ worker'[w] # Gone
         /\ \A n \in 1..Analyzers : worker[w].next <= n =>
              \/ n = worker[w].next
              \/ worker'[w].pkg = worker[w].pkg /\ worker'[w].next <= n
<1>1. worker \in [Workers -> WorkerTypes] /\ worker[w] \in WorkerTypes
  BY DEF TypeOK, WorkerTypes
<1>2. worker[w].next \in 1..Analyzers /\ worker[w].pkg \in Packages
  BY <1>1 DEF Asking, WorkerTypes
<1>3. \A v \in Workers \ {w} : worker'[v] = worker[v]
  BY <1>1 DEF Onward
<1>4. CASE worker[w].next = Analyzers
  <2>1. worker'[w] = Idle
    BY <1>1, <1>4 DEF Onward
  <2>2. \A n \in 1..Analyzers : worker[w].next <= n => n = worker[w].next
    BY <1>2, <1>4
  <2> QED
    BY <1>3, <2>1, <2>2, Apart
<1>5. CASE worker[w].next # Analyzers
  <2>1. worker'[w] = [pkg |-> worker[w].pkg, next |-> worker[w].next + 1, holds |-> "none"]
    BY <1>1, <1>5 DEF Onward
  <2>2. worker'[w] # Gone
    BY <1>2, <2>1, Apart
  <2>3. \A n \in 1..Analyzers : worker[w].next <= n => n = worker[w].next \/ worker[w].next + 1 <= n
    BY <1>2
  <2> QED
    BY <1>3, <2>1, <2>2, <2>3
<1> QED
  BY <1>4, <1>5

\* What Ask and Send have in common: the other workers stay, this one has not gone, and a
\* package it leaves has been asked about.
LEMMA WaiterKept ==
  ASSUME WaiterHolds, NEW w \in Workers, worker[w] # Gone, worker'[w] # Gone,
         \A v \in Workers \ {w} : worker'[v] = worker[v],
         UNCHANGED <<packages, queued, jobs, waiter>>
  PROVE  WaiterHolds'
BY DEF WaiterHolds

LEMMA AskedOnward ==
  ASSUME TypeOK, AllAsked, NEW w \in Workers, Asking(w), Onward(w),
         UNCHANGED <<packages, queued, jobs>>, answered \subseteq answered',
         \E r \in Actions \cup {"error"} : <<worker[w].pkg, worker[w].next, r>> \in answered'
  PROVE  AllAsked'
<1>1. \A p \in Packages, n \in 1..Analyzers : InHand(p, n) => InHand(p, n)' \/ Questioned(p, n)'
  BY OnwardMoves DEF InHand, Questioned
<1>2. \A p \in Packages : Waiting(p) => Waiting(p)'
  BY DEF Waiting
<1> QED
  BY <1>1, <1>2, AskedKept

LEMMA AskMoves ==
  ASSUME TypeOK, NEW w \in Workers, Ask(w)
  PROVE  /\ worker'[w] # Gone
         /\ \A v \in Workers \ {w} : worker'[v] = worker[v]
<1>1. worker \in [Workers -> WorkerTypes] /\ worker[w] \in WorkerTypes
  BY DEF TypeOK, WorkerTypes
<1>2. Asking(w) /\ worker[w].pkg \in Packages
  BY DEF Ask, Asking
<1>3. PICK r : IF r = "error" THEN Onward(w) ELSE worker' = [worker EXCEPT ![w].holds = r]
  BY DEF Ask
<1>4. CASE r = "error"
  BY <1>2, <1>3, <1>4, OnwardMoves
<1>5. CASE r # "error"
  <2>1. worker'[w].pkg = worker[w].pkg /\ \A v \in Workers \ {w} : worker'[v] = worker[v]
    BY <1>1, <1>3, <1>5 DEF WorkerTypes
  <2> QED
    BY <1>2, <2>1, Apart
<1> QED
  BY <1>4, <1>5

LEMMA AskKeeps ==
  ASSUME TypeOK, AnalysisInv, NEW w \in Workers, Ask(w)
  PROVE  AnalysisInv'
<1>1. /\ Asking(w) /\ worker[w].holds = "none"
      /\ UNCHANGED <<packages, queued, jobs, results, collected, waiter>>
  BY DEF Ask, Background
<1>2. worker \in [Workers -> WorkerTypes] /\ worker[w] \in WorkerTypes
  BY DEF TypeOK, WorkerTypes
<1>3. worker[w].pkg \in Packages /\ worker[w].next \in 1..Analyzers /\ worker[w] # Gone
  BY <1>1, <1>2, Apart DEF Asking, WorkerTypes
<1>4. PICK r \in Answers[<<worker[w].pkg, worker[w].next>>] :
        /\ answered' = answered \cup {<<worker[w].pkg, worker[w].next, r>>}
        /\ IF r = "error" THEN Onward(w) ELSE worker' = [worker EXCEPT ![w].holds = r]
  BY DEF Ask
<1>5. r \in Actions \cup {"error"}
  <2>1. <<worker[w].pkg, worker[w].next>> \in Packages \X (1..Analyzers)
    BY <1>3
  <2> QED
    BY <1>4, <2>1, GuardFlowAssumption
<1>6. CASE r = "error"
  <2>1. Onward(w)
    BY <1>4, <1>6
  <2>2. AllAsked'
    BY <1>1, <1>4, <1>5, <2>1, AskedOnward DEF AnalysisInv
  <2>3. AllDelivered'
    <3>1. \A p \in Packages, n \in 1..Analyzers, a \in Actions : HeldOf(p, n, a) => HeldOf(p, n, a)'
      BY <1>1, <2>1, OnwardMoves, Apart DEF HeldOf
    <3>2. \A p \in Packages, n \in 1..Analyzers, a \in Actions :
            <<p, n, a>> \in answered' => <<p, n, a>> \in answered
      BY <1>4, <1>6, Apart
    <3> QED
      BY <1>1, <3>1, <3>2 DEF AnalysisInv, AllDelivered
  <2>4. HeldIsAnswered'
    BY <1>1, <1>4, <2>1, OnwardMoves DEF AnalysisInv, HeldIsAnswered
  <2>5. WaiterHolds'
    BY <1>1, <1>3, <2>1, OnwardMoves, WaiterKept DEF AnalysisInv
  <2> QED
    BY <2>2, <2>3, <2>4, <2>5 DEF AnalysisInv
<1>7. CASE r # "error"
  <2>1. /\ \A v \in Workers \ {w} : worker'[v] = worker[v]
        /\ worker'[w].pkg = worker[w].pkg /\ worker'[w].next = worker[w].next
        /\ worker'[w].holds = r
    BY <1>2, <1>4, <1>7 DEF WorkerTypes
  <2>2. AllAsked'
    <3>1. \A p \in Packages, n \in 1..Analyzers : InHand(p, n) => InHand(p, n)'
      BY <2>1 DEF InHand
    <3>2. \A p \in Packages : Waiting(p) => Waiting(p)'
      BY <1>1 DEF Waiting
    <3> QED
      BY <1>1, <1>4, <3>1, <3>2, AskedKept DEF AnalysisInv
  <2>3. AllDelivered'
    <3>1. \A p \in Packages, n \in 1..Analyzers, a \in Actions : HeldOf(p, n, a) => HeldOf(p, n, a)'
      BY <1>1, <2>1, Apart DEF HeldOf
    <3>2. \A p \in Packages, n \in 1..Analyzers, a \in Actions :
            <<p, n, a>> \in answered' => <<p, n, a>> \in answered \/ HeldOf(p, n, a)'
      BY <1>4, <2>1 DEF HeldOf
    <3> QED
      BY <1>1, <3>1, <3>2 DEF AnalysisInv, AllDelivered
  <2>4. HeldIsAnswered'
    BY <1>3, <1>4, <2>1 DEF AnalysisInv, HeldIsAnswered
  <2>5. WaiterHolds'
    BY <1>1, <1>3, AskMoves, WaiterKept DEF AnalysisInv
  <2> QED
    BY <2>2, <2>3, <2>4, <2>5 DEF AnalysisInv
<1> QED
  BY <1>6, <1>7

LEMMA SendKeeps ==
  ASSUME TypeOK, AnalysisInv, NEW w \in Workers, Send(w)
  PROVE  AnalysisInv'
<1>1. /\ Asking(w) /\ worker[w].holds # "none" /\ Onward(w)
      /\ results' = Append(results, Result(worker[w].pkg, worker[w].holds))
      /\ UNCHANGED <<packages, queued, jobs, collected, waiter, answered>>
  BY DEF Send, Background
<1>2. worker[w] \in WorkerTypes
  BY DEF TypeOK, WorkerTypes
<1>3. worker[w].pkg \in Packages /\ worker[w] # Gone /\ worker[w].holds \in Actions
  BY <1>1, <1>2, Apart DEF Asking, WorkerTypes
<1>4. <<worker[w].pkg, worker[w].next, worker[w].holds>> \in answered
  BY <1>1 DEF AnalysisInv, HeldIsAnswered
<1>5. AllAsked'
  BY <1>1, <1>3, <1>4, AskedOnward DEF AnalysisInv
<1>6. AllDelivered'
  <2>1. results \in Seq(ResultsOf(Actions))
    BY DEF TypeOK
  <2>2. Result(worker[w].pkg, worker[w].holds) \in ResultsOf(Actions)
    BY <1>3 DEF Result, ResultsOf
  <2>3. /\ \A x : Among(results, x) => Among(results', x)
        /\ Among(results', Result(worker[w].pkg, worker[w].holds))
    BY <1>1, <2>1, <2>2, AddLast
  <2>4. \A p \in Packages, n \in 1..Analyzers, a \in Actions :
          HeldOf(p, n, a) => HeldOf(p, n, a)' \/ Among(results', Result(p, a))
    BY <1>1, <2>3, OnwardMoves DEF HeldOf
  <2> QED
    BY <1>1, <2>3, <2>4 DEF AnalysisInv, AllDelivered, Result
<1>7. HeldIsAnswered'
  BY <1>1, OnwardMoves DEF AnalysisInv, HeldIsAnswered
<1>8. WaiterHolds'
  <2>1. waiter \notin {"collector", "done"}
    BY <1>3, AtWork
  <2> QED
    BY <1>1, <1>3, <2>1, OnwardMoves DEF AnalysisInv, WaiterHolds
<1> QED
  BY <1>5, <1>6, <1>7, <1>8 DEF AnalysisInv

LEMMA CollectorKeeps ==
  ASSUME TypeOK, AnalysisInv, Collect \/ CloseResults \/ CloseWaiter
  PROVE  AnalysisInv'
<1>1. UNCHANGED <<packages, queued, jobs, worker, answered>>
  BY DEF Collect, CloseResults, CloseWaiter, Background
<1>2. AllAsked' /\ HeldIsAnswered'
  BY <1>1 DEF AnalysisInv, AllAsked, HeldIsAnswered, Waiting, InHand, Questioned
<1>3. CASE Collect
  <2>1. /\ results # <<>> /\ results' = Tail(results) /\ collected' = Append(collected, Head(results))
        /\ waiter' = waiter
    BY <1>3 DEF Collect
  <2>2. results \in Seq(ResultsOf(Actions)) /\ collected \in Seq(ResultsOf(Actions))
    BY DEF TypeOK
  <2>3. /\ Head(results) \in ResultsOf(Actions)
        /\ \A x : Among(results, x) => x = Head(results) \/ Among(results', x)
    BY <2>1, <2>2, TakeFirst
  <2>4. /\ \A x : Among(collected, x) => Among(collected', x)
        /\ Among(collected', Head(results))
    BY <2>1, <2>2, <2>3, AddLast
  <2>5. AllDelivered'
    BY <1>1, <2>3, <2>4 DEF AnalysisInv, AllDelivered, HeldOf, Result
  <2>6. WaiterHolds'
    BY <1>1, <2>1 DEF AnalysisInv, WaiterHolds
  <2> QED
    BY <1>2, <2>5, <2>6 DEF AnalysisInv
<1>4. CASE CloseResults \/ CloseWaiter
  <2>1. UNCHANGED <<results, collected>>
    BY <1>4 DEF CloseResults, CloseWaiter
  <2>2. AllDelivered'
    BY <1>1, <2>1 DEF AnalysisInv, AllDelivered, HeldOf
  <2>3. WaiterHolds'
    BY <1>1, <1>4, <2>1 DEF CloseResults, CloseWaiter, AnalysisInv, WaiterHolds
  <2> QED
    BY <1>2, <2>2, <2>3 DEF AnalysisInv
<1> QED
  BY <1>3, <1>4

LEMMA AnalysisStep ==
  ASSUME TypeOK, PhaseInv, AnalysisInv, [Next]_vars
  PROVE  AnalysisInv'
<1>1. CASE Judge \/ Timeout \/ Reply \/ Execute \/ PackageManagerEnds \/ End \/ UNCHANGED vars
  <2>1. UNCHANGED MainVars
    BY <1>1 DEF Judge, Proceed, JudgeBlock, JudgeSuspicion, JudgeClear, Timeout, Reply, SayNo, SayYes,
       PromptFails, Judging, Execute, PackageManagerEnds, End, Running, vars, analysisVars, MainVars
  <2> QED
    BY <2>1, AnalysisFrame
<1>2. ASSUME NEW w \in Workers, Work(w) PROVE AnalysisInv'
  BY <1>2, TakeKeeps, QuitKeeps, AskKeeps, SendKeeps DEF Work
<1> QED
  BY <1>1, <1>2, GatherKeeps, QueueKeeps, CollectorKeeps DEF Next

-----------------------------------------------------------------------------
(* Where the main goroutine is                                              *)

LEMMA PhaseInit == Init => PhaseInv
BY DEF Init, PhaseInv, Untouched

\* Before the workers are started and after the waiter is closed nothing goes on.
Resting == Untouched \/ waiter = "done"

LEMMA RestingStays ==
  ASSUME Resting, AnalysisInv
  PROVE  /\ \A w \in Workers : ~Work(w)
         /\ ~Collect /\ ~CloseResults /\ ~CloseWaiter
<1>1. results = <<>> /\ waiter \in {"notStarted", "done"} /\ \A w \in Workers : worker[w] = Gone
  BY DEF Resting, Untouched, AnalysisInv, WaiterHolds
<1>2. Collect => FALSE
  BY <1>1 DEF Collect
<1>3. CloseResults \/ CloseWaiter => FALSE
  BY <1>1 DEF CloseResults, CloseWaiter
<1>4. ASSUME NEW w \in Workers, Work(w) PROVE FALSE
  BY <1>1, <1>4, Apart DEF Work, Take, Quit, Ask, Send, Asking
<1> QED
  BY <1>2, <1>3, <1>4

LEMMA GatherPhase ==
  ASSUME TypeOK, PhaseInv, Gather
  PROVE  PhaseInv'
<1>1. UNCHANGED <<command, analysisVars, said, ran>>
  BY DEF Gather, SetupFails, StartUnguarded, StartTargets, StartManifest, Extract, Extracted,
     ResolveTarget, ResolveFails
<1>2. pc \in {"start", "extract", "resolve"}
  BY DEF Gather, SetupFails, StartUnguarded, StartTargets, StartManifest, Extract, Extracted,
     ResolveTarget, ResolveFails, Goto
<1>3. Untouched /\ ran = FALSE
  BY <1>2 DEF PhaseInv, TypeOK
<1>4. Untouched' /\ ran' = FALSE
  BY <1>1, <1>3 DEF Untouched, analysisVars
<1>5. Len(Targets) \in Nat /\ Len(packages) \in Nat /\ Targets \in Seq(Packages) /\ resolving \in Nat
  BY GuardFlowAssumption DEF TypeOK
<1>6. CASE SetupFails \/ ResolveFails
  <2>1. pc' \in {"ended", "report"}
    BY <1>6 DEF SetupFails, ResolveFails, Goto
  <2> QED
    BY <1>4, <2>1 DEF PhaseInv
<1>7. CASE StartUnguarded
  <2>1. pc' = "execute" /\ ~Guarded'
    BY <1>7 DEF StartUnguarded, Goto, Guarded
  <2> QED
    BY <1>4, <2>1 DEF PhaseInv
<1>8. CASE StartTargets
  <2>1. pc' = "resolve" /\ packages' = Targets /\ resolving' = Len(Targets)
    BY <1>8 DEF StartTargets, Goto
  <2> QED
    BY <1>4, <1>5, <2>1 DEF PhaseInv
<1>9. CASE StartManifest
  <2>1. pc = "start" /\ pc' = "extract" /\ packages' = packages /\ resolving' = Len(Targets)
    BY <1>9 DEF StartManifest, Goto
  <2>2. packages = <<>>
    BY <2>1 DEF PhaseInv
  <2> QED
    BY <1>4, <1>5, <2>1, <2>2 DEF PhaseInv
<1>10. CASE Extract
  <2>1. /\ pc = "extract" /\ pc' = "extract" /\ resolving' = resolving - 1
        /\ packages' \in {packages, Append(packages, Targets[Len(Targets) + 1 - resolving])}
    BY <1>10 DEF Extract, Goto
  <2>2. Len(packages) + resolving <= Len(Targets) /\ resolving \in 1..Len(Targets)
    BY <1>5, <1>10, <2>1 DEF PhaseInv, Extract, TypeOK
  <2>3. Len(Targets) + 1 - resolving \in 1..Len(Targets)
    BY <1>5, <2>2
  <2>4. Targets[Len(Targets) + 1 - resolving] \in Packages /\ packages \in Seq(Packages)
    BY <1>5, <2>3 DEF TypeOK
  <2>5. Len(packages') \in {Len(packages), Len(packages) + 1}
    BY <2>1, <2>4, AddLast
  <2>6. Len(packages') + resolving' <= Len(Targets)
    BY <1>5, <2>1, <2>2, <2>5
  <2> QED
    BY <1>4, <2>1, <2>6 DEF PhaseInv
<1>11. CASE Extracted
  <2>1. /\ packages' = packages
        /\ \/ pc' = "execute" /\ packages = <<>>
           \/ pc' = "resolve"
        /\ resolving' \in {Len(packages), 0}
    BY <1>11 DEF Extracted, Goto
  <2> QED
    BY <1>4, <1>5, <2>1 DEF PhaseInv, Cleared
<1>12. CASE ResolveTarget
  <2>1. pc = "resolve" /\ pc' = "resolve" /\ resolving' = resolving - 1 /\ resolving > 0
    BY <1>12 DEF ResolveTarget, Goto
  <2>2. resolving <= Len(packages)
    BY <2>1 DEF PhaseInv
  <2>3. packages[resolving] \in Packages
    BY <1>5, <2>1, <2>2 DEF TypeOK
  <2>4. PICK found \in SUBSET Dependencies[packages[resolving]] :
          packages' = packages \o SetToSeq(found)
    BY <1>12 DEF ResolveTarget
  <2>5. SetToSeq(found) \in Seq(Packages)
    <3>1. found \subseteq Packages /\ IsFiniteSet(found)
      BY <2>3, GuardFlowAssumption, FS_Subset
    <3> QED
      BY <3>1, Listed
  <2>6. Len(packages') = Len(packages) + Len(SetToSeq(found)) /\ Len(SetToSeq(found)) \in Nat
    BY <2>4, <2>5, ConcatProperties DEF TypeOK
  <2>7. resolving' <= Len(packages')
    BY <1>5, <2>1, <2>2, <2>6
  <2> QED
    BY <1>4, <2>1, <2>7 DEF PhaseInv
<1> QED
  BY <1>6, <1>7, <1>8, <1>9, <1>10, <1>11, <1>12 DEF Gather

LEMMA QueuePhase ==
  ASSUME TypeOK, PhaseInv, Queue
  PROVE  PhaseInv'
<1>1. ran = FALSE /\ ran' = FALSE
  BY DEF Queue, StartWorkers, QueuePackage, CloseJobs, Goto, PhaseInv, TypeOK
<1>2. CASE StartWorkers
  <2>1. pc' = "queue" /\ waiter' = "notStarted" /\ \A w \in Workers : worker'[w] # Gone
    BY <1>2, Apart DEF StartWorkers, Goto, PhaseInv, Untouched
  <2> QED
    BY <1>1, <2>1 DEF PhaseInv
<1>3. CASE QueuePackage
  BY <1>1, <1>3 DEF QueuePackage, Goto, PhaseInv
<1>4. CASE CloseJobs
  BY <1>1, <1>4 DEF CloseJobs, Goto, PhaseInv
<1> QED
  BY <1>2, <1>3, <1>4 DEF Queue

\* The other goroutines run while packages are queued or the result is awaited, or when
\* nobody waits for them any more.
LEMMA BackgroundPhase ==
  ASSUME TypeOK, AnalysisInv, PhaseInv,
         (\E w \in Workers : Work(w)) \/ Collect \/ CloseResults \/ CloseWaiter
  PROVE  PhaseInv'
<1>1. ~Untouched /\ waiter # "done"
  BY RestingStays DEF Resting
<1>2. UNCHANGED <<command, pc, resolving, packages, ran, said>>
  BY DEF Work, Take, Quit, Ask, Send, Collect, CloseResults, CloseWaiter, Background
<1>3. /\ pc \notin {"start", "extract", "resolve", "judge", "prompt"}
      /\ ~((pc \in {"execute", "running"} \/ ran) /\ Guarded)
  BY <1>1 DEF PhaseInv, Cleared
<1>4. ASSUME pc = "queue" PROVE waiter' = "notStarted" /\ \A v \in Workers : worker'[v] # Gone
  <2>1. waiter = "notStarted" /\ \A v \in Workers : worker[v] # Gone
    BY <1>4 DEF PhaseInv
  <2>2. CASE Collect \/ CloseResults \/ CloseWaiter
    BY <2>1, <2>2 DEF Collect, CloseResults, CloseWaiter
  <2>3. ASSUME NEW w \in Workers, Work(w) PROVE waiter' = "notStarted" /\ \A v \in Workers : worker'[v] # Gone
    <3>1. waiter' = "notStarted"
      BY <2>1, <2>3 DEF Work, Take, Quit, Ask, Send
    <3>2. CASE Take(w)
      BY <2>1, <3>1, <3>2, TakeMoves
    <3>3. CASE Ask(w)
      BY <2>1, <3>1, <3>3, AskMoves
    <3>4. CASE Send(w)
      BY <2>1, <3>1, <3>4, OnwardMoves DEF Send
    <3> QED
      BY <2>1, <2>3, <3>1, <3>2, <3>3, <3>4 DEF Work, Quit
  <2> QED
    BY <2>2, <2>3
<1> QED
  BY <1>2, <1>3, <1>4 DEF PhaseInv, Guarded

LEMMA VerdictPhase ==
  ASSUME TypeOK, PhaseInv, Judge \/ Timeout \/ Reply
  PROVE  PhaseInv'
<1>1. UNCHANGED <<command, resolving, packages, analysisVars, ran>>
  BY DEF Judge, Reply, Proceed, Timeout, JudgeBlock, JudgeSuspicion, JudgeClear, SayNo, SayYes,
     PromptFails, Judging
<1>2. ran' = FALSE
  BY <1>1 DEF Judge, Reply, Proceed, Timeout, JudgeBlock, JudgeSuspicion, JudgeClear, SayNo, SayYes,
     PromptFails, Goto, PhaseInv, TypeOK
<1>3. CASE Timeout \/ JudgeBlock \/ SayNo \/ PromptFails
  <2>1. pc' = "report"
    BY <1>3 DEF Timeout, JudgeBlock, SayNo, PromptFails, Goto
  <2> QED
    BY <1>2, <2>1 DEF PhaseInv
<1>4. CASE Proceed
  <2>1. pc' = "judge" /\ waiter' = "done"
    BY <1>1, <1>4 DEF Proceed, Goto, analysisVars
  <2> QED
    BY <1>2, <2>1 DEF PhaseInv
<1>5. collected' = collected /\ waiter' = waiter /\ collected \in Seq(ResultsOf(Actions))
  BY <1>1 DEF analysisVars, TypeOK
<1>6. CASE JudgeSuspicion
  <2>1. pc' = "prompt" /\ waiter = "done" /\ Counted({"block"}) = 0
    BY <1>6 DEF JudgeSuspicion, Goto, PhaseInv
  <2>2. \A i \in 1..Len(collected) : collected[i].action # "block"
    BY <1>5, <2>1, Counts
  <2> QED
    BY <1>2, <1>5, <2>1, <2>2 DEF PhaseInv
<1>7. CASE JudgeClear
  <2>1. pc' = "execute" /\ waiter = "done" /\ Counted({"block", "confirm"}) = 0
    BY <1>7 DEF JudgeClear, Goto, PhaseInv
  <2>2. \A i \in 1..Len(collected) : collected[i].action \notin {"block", "confirm"}
    BY <1>5, <2>1, Counts
  <2>3. Cleared'
    BY <1>5, <2>1, <2>2 DEF Cleared
  <2> QED
    BY <1>2, <2>1, <2>3 DEF PhaseInv
<1>8. CASE SayYes
  <2>1. pc' = "execute" /\ waiter = "done" /\ said' = "yes"
    BY <1>8 DEF SayYes, Goto, PhaseInv
  <2>2. \A i \in 1..Len(collected) : collected[i].action # "block"
    BY <1>8 DEF SayYes, Goto, PhaseInv
  <2>3. Cleared'
    BY <1>5, <2>1, <2>2 DEF Cleared
  <2> QED
    BY <1>2, <2>1, <2>3 DEF PhaseInv
<1> QED
  BY <1>3, <1>4, <1>6, <1>7, <1>8 DEF Judge, Reply

LEMMA EndPhase ==
  ASSUME TypeOK, PhaseInv, Execute \/ PackageManagerEnds \/ End
  PROVE  PhaseInv'
<1>1. UNCHANGED <<command, packages, analysisVars, said>>
  BY DEF Execute, PackageManagerEnds, End, Running
<1>2. /\ pc' \in {"report", "running", "ended"}
      /\ pc' = "running" \/ ran' => pc \in {"execute", "running"} \/ ran
      /\ ran' => pc' \in {"running", "report", "ended"}
  BY DEF Execute, PackageManagerEnds, End, Goto
<1>3. Cleared' <=> Cleared
  BY <1>1 DEF Cleared, Untouched, analysisVars
<1>4. (pc' = "running" \/ ran') /\ Guarded' => Cleared'
  BY <1>1, <1>2, <1>3 DEF PhaseInv, Guarded
<1> QED
  BY <1>2, <1>4 DEF PhaseInv

LEMMA PhaseFrame ==
  ASSUME PhaseInv, UNCHANGED vars
  PROVE  PhaseInv'
BY DEF vars, analysisVars, outcomeVars, PhaseInv, Untouched, Cleared, Guarded

LEMMA PhaseStep ==
  ASSUME TypeOK, AnalysisInv, PhaseInv, [Next]_vars
  PROVE  PhaseInv'
BY GatherPhase, QueuePhase, BackgroundPhase, VerdictPhase, EndPhase, PhaseFrame DEF Next

-----------------------------------------------------------------------------
(* The report and the audit session                                         *)

LEMMA BooksInit == Init => BooksInv
BY DEF Init, BooksInv, NoReport

\* Where nothing is written to either, and a place is not left behind.
LEMMA BooksFrame ==
  ASSUME BooksInv, audit' = audit,
         report'.blocked = report.blocked, report'.confirmed = report.confirmed,
         \/ pc' \in {"execute", "running", "report", "ended"}
         \/ pc \in {"start", "extract", "resolve", "queue", "select", "judge", "prompt"}
  PROVE  BooksInv'
BY DEF BooksInv

LEMMA BooksStep ==
  ASSUME TypeOK, BooksInv, [Next]_vars
  PROVE  BooksInv'
<1>1. report \in Reports /\ audit \in AuditTypes
  BY DEF TypeOK, AuditTypes
<1>2. CASE Gather
  <2>1. /\ audit' = audit /\ report'.blocked = report.blocked /\ report'.confirmed = report.confirmed
        /\ pc \in {"start", "extract", "resolve"}
    BY <1>1, <1>2 DEF Gather, SetupFails, StartUnguarded, StartTargets, StartManifest, Extract,
       Extracted, ResolveTarget, ResolveFails, Goto, outcomeVars, Reports
  <2> QED
    BY <2>1, BooksFrame
<1>3. CASE Queue
  <2>1. audit' = audit /\ report' = report /\ pc \in {"resolve", "queue"}
    BY <1>3 DEF Queue, StartWorkers, QueuePackage, CloseJobs, Goto, outcomeVars
  <2> QED
    BY <2>1, BooksFrame
<1>4. CASE (\E w \in Workers : Work(w)) \/ Collect \/ CloseResults \/ CloseWaiter \/ UNCHANGED vars
  <2>1. UNCHANGED <<pc, report, audit>>
    BY <1>4 DEF Work, Take, Quit, Ask, Send, Collect, CloseResults, CloseWaiter, Background, vars,
       outcomeVars
  <2> QED
    BY <2>1 DEF BooksInv
<1>5. CASE Proceed \/ Timeout \/ JudgeSuspicion \/ PromptFails
  <2>1. /\ audit' = audit /\ report'.blocked = report.blocked /\ report'.confirmed = report.confirmed
        /\ pc \in {"select", "judge", "prompt"}
    BY <1>1, <1>5 DEF Proceed, Analysed, Timeout, JudgeSuspicion, PromptFails, Goto, Reports
  <2> QED
    BY <2>1, BooksFrame
<1>6. CASE Execute \/ PackageManagerEnds \/ End
  <2>1. /\ audit' = audit /\ report'.blocked = report.blocked /\ report'.confirmed = report.confirmed
        /\ pc' \in {"running", "report", "ended"}
    BY <1>1, <1>6 DEF Execute, PackageManagerEnds, End, Running, Goto, Reports
  <2> QED
    BY <2>1, BooksFrame
<1>7. Counted({"confirm"}) \in Nat
  BY Counts DEF TypeOK
<1>8. CASE JudgeBlock
  <2>1. /\ audit.blocked = 0 /\ audit.confirmed = 0 /\ report.confirmed = 0 /\ pc' = "report"
    BY <1>8 DEF JudgeBlock, Goto, BooksInv
  <2>2. report'.blocked = 1 /\ report'.confirmed = report.confirmed
    BY <1>1, <1>8 DEF JudgeBlock, Reports
  <2>3. audit'.blocked = audit.blocked + 1 /\ audit'.confirmed = audit.confirmed
    BY <1>1, <1>8 DEF JudgeBlock, AuditTypes
  <2> QED
    BY <2>1, <2>2, <2>3 DEF BooksInv
<1>9. CASE SayNo
  <2>1. audit.blocked = 0 /\ audit.confirmed = 0 /\ report.confirmed = 0 /\ pc' = "report"
    BY <1>9 DEF SayNo, Goto, BooksInv
  <2>2. report'.blocked = Counted({"confirm"}) /\ report'.confirmed = report.confirmed
    BY <1>1, <1>9 DEF SayNo, Reports
  <2>3. audit'.blocked = audit.blocked + Counted({"confirm"}) /\ audit'.confirmed = audit.confirmed
    BY <1>1, <1>9 DEF SayNo, AuditTypes
  <2> QED
    BY <1>7, <2>1, <2>2, <2>3 DEF BooksInv
<1>10. \A record \in AuditTypes : /\ AllowInstall(record).blocked = record.blocked
                                  /\ AllowInstall(record).confirmed = record.confirmed
  BY DEF AllowInstall, AuditTypes
<1>11. CASE JudgeClear
  <2>1. /\ pc' = "execute" /\ audit'.blocked = audit.blocked /\ audit'.confirmed = audit.confirmed
    BY <1>1, <1>10, <1>11 DEF JudgeClear, Goto
  <2>2. report'.blocked = report.blocked /\ report'.confirmed = report.confirmed
    BY <1>1, <1>11 DEF JudgeClear, Reports
  <2> QED
    BY <2>1, <2>2 DEF BooksInv
<1>12. CASE SayYes
  <2> DEFINE confirmed == [audit EXCEPT !.confirmed = @ + Counted({"confirm"})]
  <2>1. audit.blocked = 0 /\ audit.confirmed = 0 /\ report.blocked = 0 /\ pc' = "execute"
    BY <1>12 DEF SayYes, Goto, BooksInv
  <2>2. report'.blocked = report.blocked /\ report'.confirmed = Counted({"confirm"})
    BY <1>1, <1>12 DEF SayYes, Reports
  <2>3. confirmed \in AuditTypes /\ confirmed.blocked = audit.blocked
        /\ confirmed.confirmed = audit.confirmed + Counted({"confirm"})
    BY <1>1, <1>7 DEF AuditTypes
  <2>4. audit'.blocked = audit.blocked /\ audit'.confirmed = audit.confirmed + Counted({"confirm"})
    BY <1>10, <1>12, <2>3 DEF SayYes
  <2> QED
    BY <1>7, <2>1, <2>2, <2>4 DEF BooksInv
<1> QED
  BY <1>2, <1>3, <1>4, <1>5, <1>6, <1>8, <1>9, <1>11, <1>12 DEF Next, Judge, Reply

-----------------------------------------------------------------------------
(* The theorems                                                             *)

THEOREM FlowInvariance == Spec => []FlowInv
<1>1. Init => FlowInv
  BY TypesInit, AnalysisInit, PhaseInit, BooksInit DEF FlowInv
<1>2. FlowInv /\ [Next]_vars => FlowInv'
  BY TypesStep, AnalysisStep, PhaseStep, BooksStep DEF FlowInv
<1> QED
  BY <1>1, <1>2, PTL DEF Spec

\* Every variable keeps its type.
THEOREM FlowTypes == Spec => []TypeOK
<1>1. FlowInv => TypeOK
  BY DEF FlowInv
<1> QED
  BY <1>1, FlowInvariance, PTL

\* What the verdict rests on is everything: no answer and no package is still on its way.
LEMMA AllIsIn ==
  ASSUME FlowInv, waiter = "done"
  PROVE  /\ \A entry \in answered : entry[3] \in Actions => Among(collected, Result(entry[1], entry[3]))
         /\ \A i \in 1..Len(packages), n \in 1..Analyzers :
              packages[i] \notin Trusted => Questioned(packages[i], n)
<1>1. /\ results = <<>> /\ queued = Len(packages) /\ \A w \in Workers : worker[w] = Gone
      /\ TypeOK /\ AllDelivered /\ AllAsked
  BY DEF FlowInv, AnalysisInv, WaiterHolds
<1>2. jobs = <<>>
  BY <1>1, GuardFlowAssumption DEF FlowInv, AnalysisInv, WaiterHolds
<1>3. \A x : ~Among(results, x) /\ ~Waiting(x)
  BY <1>1, <1>2 DEF Among, Waiting
<1>4. \A p \in Packages, n \in 1..Analyzers, a \in Actions : ~HeldOf(p, n, a) /\ ~InHand(p, n)
  BY <1>1, Apart DEF HeldOf, InHand
<1>5. ASSUME NEW entry \in answered, entry[3] \in Actions
      PROVE  Among(collected, Result(entry[1], entry[3]))
  <2>1. PICK p \in Packages, n \in 1..Analyzers, a \in Actions \cup {"error"} : entry = <<p, n, a>>
    BY <1>1 DEF TypeOK
  <2> QED
    BY <1>1, <1>3, <1>4, <1>5, <2>1 DEF AllDelivered
<1>6. ASSUME NEW i \in 1..Len(packages), NEW n \in 1..Analyzers, packages[i] \notin Trusted
      PROVE  Questioned(packages[i], n)
  <2>1. packages[i] \in Packages
    BY <1>1 DEF TypeOK
  <2>2. Waiting(packages[i]) \/ InHand(packages[i], n) \/ Questioned(packages[i], n)
    BY <1>1, <1>6 DEF AllAsked
  <2>3. ~InHand(packages[i], n)
    BY <1>1, <2>1, Apart DEF InHand
  <2> QED
    BY <1>3, <2>2, <2>3
<1> QED
  BY <1>5, <1>6

LEMMA ClearedIsClear ==
  ASSUME FlowInv
  PROVE  OnlyClearedRuns
<1>1. ASSUME ran, Guarded
      PROVE  /\ \A entry \in answered : entry[3] # "block" /\ (entry[3] = "confirm" => said = "yes")
             /\ \A p \in ToSet(packages) \ Trusted, n \in 1..Analyzers :
                  \E entry \in answered : entry[1] = p /\ entry[2] = n
  <2>1. Cleared
    BY <1>1 DEF FlowInv, PhaseInv
  <2>2. CASE Untouched /\ packages = <<>>
    <3>1. answered = {} /\ ToSet(packages) = {}
      BY <2>2 DEF Untouched, ToSet
    <3> QED
      BY <3>1
  <2>3. CASE ~(Untouched /\ packages = <<>>)
    <3>1. /\ waiter = "done"
          /\ \A i \in 1..Len(collected) : /\ collected[i].action # "block"
                                          /\ collected[i].action = "confirm" => said = "yes"
      BY <2>1, <2>3 DEF Cleared
    <3>2. ASSUME NEW entry \in answered, entry[3] \in Actions
          PROVE  entry[3] # "block" /\ (entry[3] = "confirm" => said = "yes")
      <4>1. Among(collected, Result(entry[1], entry[3]))
        BY <3>1, <3>2, AllIsIn
      <4> QED
        BY <3>1, <4>1 DEF Among, Result
    <3>3. ASSUME NEW p \in ToSet(packages) \ Trusted, NEW n \in 1..Analyzers
          PROVE  \E entry \in answered : entry[1] = p /\ entry[2] = n
      <4>1. PICK i \in 1..Len(packages) : packages[i] = p
        BY DEF ToSet, FlowInv, TypeOK
      <4>2. Questioned(p, n)
        BY <3>1, <4>1, AllIsIn
      <4> QED
        BY <4>2 DEF Questioned
    <3> QED
      BY <3>2, <3>3 DEF Actions
  <2> QED
    BY <2>2, <2>3
<1> QED
  BY <1>1 DEF OnlyClearedRuns, FlaggedNeverRuns, EverythingIsAsked

\* Guard.Run starts the package manager only when every package that is not trusted has
\* been put to every analyzer, none is to be blocked and the user has accepted what is
\* suspicious: no schedule of workers and collector loses a package or an answer.
THEOREM OnlyCleared == Spec => []OnlyClearedRuns
BY FlowInvariance, ClearedIsClear, PTL

\* The counters of the report and of the audit session agree when PMG ends.
THEOREM ReportTold == Spec => []ReportMatchesAudit
<1>1. FlowInv => ReportMatchesAudit
  BY DEF FlowInv, BooksInv, ReportMatchesAudit
<1> QED
  BY <1>1, FlowInvariance, PTL
=============================================================================
