----------------------------- MODULE RequestGate -----------------------------
(***************************************************************************)
(* What the registry interceptor promises of every package download that   *)
(* goes through the proxy, with nothing said of how it is done: no cache,   *)
(* no circuit breaker, no channel, no handler goroutine.                    *)
(*                                                                         *)
(* A download is judged at most once, the user may be asked about it only   *)
(* if the judgement was "confirm", and it is decided exactly once: served   *)
(* or refused.  ProxyGuard.tla implements this specification.               *)
(***************************************************************************)
CONSTANT Requests      \* the downloads the package manager asks for

VARIABLES
  standing,            \* what the proxy has learnt of the requested package
  consent,             \* the user's answer about this very request
  outcome              \* what the package manager got

gateVars == <<standing, consent, outcome>>

\* "unknown" is a download nothing was learnt of: the proxy fails open on it.
Standings == {"unknown", "allow", "confirm", "block"}

GateTypeOK ==
  /\ standing \in [Requests -> Standings]
  /\ consent  \in [Requests -> {"none", "yes", "no"}]
  /\ outcome  \in [Requests -> {"pending", "served", "refused"}]

GateInit ==
  /\ standing = [r \in Requests |-> "unknown"]
  /\ consent  = [r \in Requests |-> "none"]
  /\ outcome  = [r \in Requests |-> "pending"]

Judge(r) ==
  /\ outcome[r] = "pending"
  /\ standing[r] = "unknown"
  /\ \E s \in Standings \ {"unknown"} : standing' = [standing EXCEPT ![r] = s]
  /\ UNCHANGED <<consent, outcome>>

\* The answer may come after the request was given up: it then changes nothing.
Answer(r) ==
  /\ standing[r] = "confirm"
  /\ consent[r] = "none"
  /\ \E a \in {"yes", "no"} : consent' = [consent EXCEPT ![r] = a]
  /\ UNCHANGED <<standing, outcome>>

Serve(r) ==
  /\ outcome[r] = "pending"
  /\ \/ standing[r] \in {"unknown", "allow"}
     \/ standing[r] = "confirm" /\ consent[r] = "yes"
  /\ outcome' = [outcome EXCEPT ![r] = "served"]
  /\ UNCHANGED <<standing, consent>>

\* Only a flagged package is refused; a suspicious one also when nobody answers.
Refuse(r) ==
  /\ outcome[r] = "pending"
  /\ standing[r] \in {"confirm", "block"}
  /\ outcome' = [outcome EXCEPT ![r] = "refused"]
  /\ UNCHANGED <<standing, consent>>

GateNext == \E r \in Requests : Judge(r) \/ Answer(r) \/ Serve(r) \/ Refuse(r)

GateSpec == GateInit /\ [][GateNext]_gateVars
=============================================================================
