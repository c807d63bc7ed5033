---------------------------- MODULE SandboxedRun ----------------------------
(***************************************************************************)
(* ApplySandbox as a whole: the policy is looked up, changed by the          *)
(* overrides and translated (SandboxPolicy.tla), and what comes of it is      *)
(* what the Landlock driver runs the command with (LandlockSandbox.tla).      *)
(***************************************************************************)
EXTENDS LandlockSandbox, SandboxPolicy

Running == stage = "idle"
allVars == <<vars, policyVars>>

\* A run whose policy is worked out here, or one of which only the outcome is
\* given, for every way through ApplySandbox.
SandboxedInit == Init /\ (PolicyIdle \/ (PolicyInit /\ cfg = CHOOSE c \in Configs : TRUE))

\* What the executor goes on with: no policy, one for another package manager, or
\* one whose denials decide what the filter notifies, and whose paths the
\* namespace.
Follows(c) ==
  /\ ~DisabledByUser(c)
  /\ (stage = "confined") = (c.loads /\ c.applies)
  /\ stage = "confined" => /\ c.denies = (compiled.deny # {})
                           /\ c.pidNs = ~compiled.sharedPids

Handed == stage \in {"confined", "failed"} /\ asked.driver = "landlock" /\ ~asked.show

HandOver ==
  /\ Handed
  /\ cfg' \in {c \in Configs : Follows(c)}
  /\ stage' = "idle" /\ profiles' = <<>> /\ unresolved' = {}
  /\ asked' = [show |-> TRUE] /\ policy' = NoProfile /\ compiled' = NotCompiled /\ issues' = {}
  /\ UNCHANGED <<parent, files, helperVars, loop, taskVars, memVars, spent>>

\* The other drivers start a program of the system; a command that only shows
\* ends.
NotHere ==
  /\ stage \in {"confined", "failed", "linted"} /\ ~Handed
  /\ UNCHANGED allVars

SandboxedNext ==
  \/ PolicyNext /\ UNCHANGED vars
  \/ HandOver \/ NotHere
  \/ Running /\ Next /\ UNCHANGED policyVars

SandboxedSpec ==
  /\ SandboxedInit /\ [][SandboxedNext]_allVars
  /\ WF_allVars(Running /\ Parent /\ UNCHANGED policyVars)
  /\ WF_allVars(Running /\ Helper /\ UNCHANGED policyVars)
  /\ WF_allVars(Running /\ Loop /\ UNCHANGED policyVars)
  /\ WF_allVars(Running /\ Shim /\ UNCHANGED policyVars)
  /\ WF_allVars(Running /\ HelperOrphaned /\ UNCHANGED policyVars)
  /\ \A t \in Tasks : WF_allVars(Running /\ Unanswerable(t) /\ UNCHANGED policyVars)
=============================================================================
