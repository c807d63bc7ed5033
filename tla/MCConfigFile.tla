----------------------------- MODULE MCConfigFile -----------------------------
(* An instance of ConfigFile for TLC.                                       *)
EXTENDS ConfigFile

\* The template trusts a package, and DefaultConfig none.
MCTemplate == [paranoid |-> FALSE, proxy |-> TRUE, trusted |-> TRUE, cloud |-> FALSE,
               autoSync |-> TRUE, syncTimes |-> "template's", relay |-> FALSE]
MCDefaults == [MCTemplate EXCEPT !.trusted = FALSE]
MCGoverned == {"paranoid", "proxy"}

MCManagedFiles ==
  {File("yaml", l, k) :
     l \in {"true", "word"}, k \in {[paranoid |-> TRUE], [proxy_mode |-> FALSE], [proxy |-> FALSE, proxy_mode |-> TRUE, cloud |-> TRUE]}}
MCUserFiles ==
  {Yaml([proxy_mode |-> FALSE, autoSync |-> FALSE]),
   Yaml([paranoid |-> TRUE, proxy |-> FALSE, trusted |-> FALSE, syncTimes |-> "user's"]), Torn}

Command(do, env, flags) == [do |-> do, env |-> env, flags |-> flags]
Envs  == {<<>>, [insecure |-> TRUE, proxy |-> TRUE, proxy_mode |-> FALSE, cloud |-> FALSE],
          [proxy_mode |-> TRUE, autoSync |-> FALSE]}
Flags == {<<>>, [paranoid |-> FALSE], [dryRun |-> TRUE]}
MCCommands ==
  {Command("run", e, f) : e \in Envs, f \in Flags}
  \cup {Command(d, <<>>, <<>>) : d \in {"install", "edit", "enroll", "remove"}}
  \cup {[do |-> "set", env |-> <<>>, flags |-> <<>>, key |-> k, value |-> v] :
          k \in {"paranoid", "proxy", "proxy_mode", "autoSync"}, v \in BOOLEAN}
=============================================================================
