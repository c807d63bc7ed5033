----------------------------- MODULE MCGuardFlow -----------------------------
(* Instances of GuardFlow for TLC.                                         *)
EXTENDS GuardFlow

CONSTANTS app, shady, evil, own      \* package versions

MCTargets == <<app>>

\* app depends on the others
MCDependencies == [p \in Packages |-> IF p = app THEN Packages \ {app} ELSE {}]

\* The first analyzer knows shady to be inferred and evil to be verified malware,
\* and may be unreachable; the second has nothing against any package.
MCAnswers ==
  [entry \in Packages \X (1..Analyzers) |->
     CASE entry[2] = 2         -> {"allow"}
       [] entry[1] = shady     -> {"confirm", "error"}
       [] entry[1] = evil      -> {"block", "error"}
       [] OTHER                -> {"allow"}]
=============================================================================
