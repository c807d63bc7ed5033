--------------------------- MODULE MCProxySession ---------------------------
(* Instances of ProxySession for TLC.                                      *)
EXTENDS ProxySession, TLC

CONSTANTS shady, evil, own      \* package versions

\* shady is inferred to be malware and evil verified; own is trusted, whatever the
\* service would say.  The service can fail for evil.
MCAnswers ==
  [p \in Packages |->
     CASE p = shady -> {"confirm"} [] p = evil -> {"block", "error"} [] OTHER -> {"block"}]
=============================================================================
