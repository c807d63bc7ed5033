---------------------------- MODULE MCProxyServer ----------------------------
(* An instance of ProxyServer for TLC: the three interceptors pmg registers, *)
(* and three hosts, a registry, one that is known and not analysed, and a    *)
(* stranger.                                                 *)
EXTENDS ProxyServer

CONSTANTS npm, pypi, logger, c1, c2

MCConns == {c1, c2}
MCRequests == [c \in MCConns |-> IF c = c1 THEN 2 ELSE 1]
MCHosts == {"registry.npmjs.org", "test.pypi.org", "example.org"}
MCInterceptors == {npm, pypi, logger}
MCIntercepts ==
  [i \in MCInterceptors |->
     IF i = npm THEN {"registry.npmjs.org"}
     ELSE IF i = pypi THEN {"test.pypi.org"} ELSE MCHosts]
MCDecrypts ==
  [i \in MCInterceptors |-> IF i = npm THEN {"registry.npmjs.org"} ELSE {}]
MCAnswers ==
  [i \in MCInterceptors |->
     IF i = npm THEN {"allow", "block", "modifyResponse"} ELSE {"allow"}]
Bundle(opens, gone, size) == [opens |-> opens, gone |-> gone, size |-> size]
MCBundles ==
  { <<Bundle(FALSE, FALSE, 0)>>, <<Bundle(TRUE, FALSE, 2), Bundle(TRUE, FALSE, 3)>>,
    <<Bundle(FALSE, FALSE, 0), Bundle(TRUE, FALSE, 3)>>, <<Bundle(TRUE, TRUE, 0)>> }
=============================================================================
