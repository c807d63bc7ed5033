---------------------------- MODULE MCProxyGuard ----------------------------
(* An instance of ProxyGuard for TLC.                                      *)
EXTENDS ProxyGuard

CONSTANTS shady, evil, own      \* package versions

\* evil is verified malware, shady inferred to be or not known yet; the service can
\* fail for each.  own is trusted, whatever the service would say.
MCAnswers ==
  [p \in Packages |->
     CASE p = evil -> {"block", "error"}
       [] p = shady -> {"confirm", "notFound", "error"}
       [] OTHER -> {"block"}]
=============================================================================
