-------------------------- MODULE DependencyResolver --------------------------
(***************************************************************************)
(* packagemanager/dependency_resolver.go: the packages the guard flow will   *)
(* analyse for one install target.  Every call of                            *)
(* resolvePackageDependenciesConcurrent asks the registry for the            *)
(* dependencies of one package, adds them to the result and starts a         *)
(* goroutine for each; a package is looked into by the first call that       *)
(* reaches it, however deep that call is.                                    *)
(*                                                                         *)
(* A call is named by its path: the packages from the root to its own.       *)
(***************************************************************************)
EXTENDS Integers, Sequences, FiniteSets

CONSTANTS
  Packages,        \* package versions, a name with the version its spec resolves to
  Root,            \* the install target
  Graphs,          \* the dependency lists the registry may hold
  MaxDepth,        \* TransitiveDepth, and 0 without IncludeTransitiveDependencies
  MaxConcurrency   \* goroutines of one call that run at a time

ASSUME ResolverAssumption ==
  /\ Root \in Packages
  /\ IsFiniteSet(Packages)
  /\ Graphs \subseteq [Packages -> SUBSET Packages]
  /\ MaxDepth \in Nat
  /\ MaxConcurrency \in Nat \ {0}

VARIABLES
  deps,            \* what the registry holds
  failFast,        \* config.FailFast
  at,              \* where each call is; its domain are the calls made
  visited,         \* visitedPackages
  result           \* the dependencies found: resultSet, and the list it mirrors

walkVars == <<deps, failFast, at, visited, result>>

Calls == DOMAIN at
Top   == <<Root>>

Package(c) == c[Len(c)]
Depth(c)   == Len(c) - 1

\* A call holds a slot of its parent's semaphore from "entered" to its return.
Running == {"entered", "fetching", "joining"}
Ended   == {"skipped", "resolved", "failed", "gaveUp"}
CallPhases  == {"waiting"} \cup Running \cup Ended

\* "gaveUp" is an error that was logged and not returned, "failed" one returned.
Giving(e) == IF e THEN "failed" ELSE "gaveUp"

Children(c) == {Append(c, p) : p \in deps[Package(c)]}

WalkTypeOK ==
  /\ deps \in Graphs
  /\ failFast \in BOOLEAN
  /\ Calls \subseteq Seq(Packages) \ {<<>>}
  /\ at \in [Calls -> CallPhases]
  /\ Top \in Calls
  /\ visited \subseteq Packages
  /\ result \subseteq Packages

WalkInit ==
  /\ deps \in Graphs
  /\ failFast \in BOOLEAN
  /\ at = [c \in {Top} |-> "entered"]
  /\ visited = {}
  /\ result = {}

Move(c, from, to) ==
  /\ c \in Calls
  /\ at[c] = from
  /\ at' = [at EXCEPT ![c] = to]

-----------------------------------------------------------------------------
(* The semaphore of a call is a channel of its own, so that a call that waits
   for its children does not keep theirs from running. *)

Siblings(c) == {d \in Calls : Len(d) = Len(c) /\ \A i \in 1..Len(c)-1 : d[i] = c[i]}

Busy(c) == Cardinality({d \in Siblings(c) : at[d] \in Running})

Acquire(c) ==
  /\ Busy(c) < MaxConcurrency
  /\ Move(c, "waiting", "entered")
  /\ UNCHANGED <<deps, failFast, visited, result>>

\* visitedPackages is tested and set under the mutex.
Visit(c) ==
  /\ Move(c, "entered", "fetching")
  /\ Package(c) \notin visited
  /\ visited' = visited \cup {Package(c)}
  /\ UNCHANGED <<deps, failFast, result>>

Skip(c) ==
  /\ Move(c, "entered", "skipped")
  /\ Package(c) \in visited
  /\ UNCHANGED <<deps, failFast, visited, result>>

\* The registry does not answer, or does not know the package version.
FetchFails(c) ==
  /\ Move(c, "fetching", Giving(failFast))
  /\ UNCHANGED <<deps, failFast, visited, result>>

Descends(c) == Depth(c) < MaxDepth /\ deps[Package(c)] # {}

\* The dependencies are added to the result under the mutex; a call that goes no
\* further returns.
Fetch(c) ==
  /\ ~Descends(c)
  /\ Move(c, "fetching", "resolved")
  /\ result' = result \cup deps[Package(c)]
  /\ UNCHANGED <<deps, failFast, visited>>

\* Fault: the mutex is not taken, and what others add meanwhile is lost.
SpawnUnlocked(c) ==
  /\ Descends(c)
  /\ c \in Calls /\ at[c] = "fetching"
  /\ at' = [d \in Calls \cup Children(c) |->
              IF d = c THEN "joining" ELSE IF d \in Calls THEN at[d] ELSE "waiting"]
  /\ \E kept \in SUBSET result : result' = kept \cup deps[Package(c)]
  /\ UNCHANGED <<deps, failFast, visited>>

\* A goroutine for each dependency; the check of the depth at the head of the
\* function never fails, for this one has been made before.
FetchAndSpawn(c) ==
  /\ Descends(c)
  /\ c \in Calls /\ at[c] = "fetching"
  /\ at' = [d \in Calls \cup Children(c) |->
              IF d = c THEN "joining" ELSE IF d \in Calls THEN at[d] ELSE "waiting"]
  /\ result' = result \cup deps[Package(c)]
  /\ UNCHANGED <<deps, failFast, visited>>

Joined(c) == at[c] = "joining" /\ \A d \in Children(c) : at[d] \in Ended

\* wg.Wait, and the first of the children's errors.
Join(c) ==
  /\ Joined(c)
  /\ \/ /\ \A d \in Children(c) : at[d] # "failed"
        /\ Move(c, "joining", "resolved")
     \/ /\ \E d \in Children(c) : at[d] = "failed"
        /\ Move(c, "joining", Giving(failFast))
  /\ UNCHANGED <<deps, failFast, visited, result>>

CallStep(c) == Visit(c) \/ Skip(c) \/ FetchFails(c) \/ Fetch(c) \/ FetchAndSpawn(c) \/ Join(c)

WalkNext == \E c \in Calls : Acquire(c) \/ CallStep(c)

WalkSpec == WalkInit /\ [][WalkNext]_walkVars

\* Some goroutine that can run does: a registry answers, or its connection breaks.
FairSteps == WF_walkVars(WalkNext)

FairWalk == WalkSpec /\ FairSteps

-----------------------------------------------------------------------------
Done == at[Top] \in Ended

\* No registry request was lost.
Lossless == \A c \in Calls : at[c] \notin {"failed", "gaveUp"}

\* However many goroutines reach a package, the registry is asked for it once.
VisitedOnce ==
  \A c, d \in Calls :
    (Package(c) = Package(d)
      /\ at[c] \in CallPhases \ {"waiting", "entered", "skipped"}
      /\ at[d] \in CallPhases \ {"waiting", "entered", "skipped"}) => c = d

\* Nothing is missed by interleaving alone: unless the depth limit bit, or a
\* request was lost, the result holds the dependencies of all that it holds.
CompleteUnlessCut ==
  (Done /\ Lossless /\ \A c \in Calls : Depth(c) = MaxDepth => at[c] = "skipped")
    => \A p \in result \cup {Root} : deps[p] \subseteq result

\* With FailFast, and only with it, a request that was lost fails the resolution.
FailFastFails ==
  Done => (at[Top] = "failed" <=> (failFast /\ ~Lossless))

\* What the goroutines found together is what one of them would have found: each
\* package looked into once, none missed, and an error lost only where FailFast is off.
ResolutionIsSound == VisitedOnce /\ CompleteUnlessCut /\ FailFastFails

\* Every resolution ends: no goroutine waits for a slot of those that wait for it.
ResolutionEnds == <>Done
=============================================================================
