----------------------------- MODULE MCHomeFiles -----------------------------
(***************************************************************************)
(* What PMG keeps in the user's home: the shims, lines and schedule of setup,   *)
(* and the configuration file.  The two share no file, so a behaviour takes    *)
(* one of them, and the other stays idle.                                   *)
(***************************************************************************)
EXTENDS MCSetup, MCConfigFile

\* An empty home on which nobody runs a command.
SetupIdle ==
  /\ system = [os |-> "linux", shell |-> "zsh", enrolled |-> FALSE, jobs |-> <<>>]
  /\ rc = <<>> /\ own = <<>> /\ crontab = <<>>
  /\ aliasFile = FALSE /\ shims = {}
  /\ timer = [service |-> FALSE, timer |-> FALSE, enabled |-> FALSE]
  /\ systemd = FALSE
  /\ step = "idle" /\ clean = TRUE /\ last = "none" /\ misread = FALSE
  /\ budget = [commands |-> 0, faults |-> 0, edits |-> 0]

ConfigIdle ==
  /\ managed = NoFile /\ user = NoFile
  /\ cmd = Idle /\ at = "idle"
  /\ isManaged = FALSE /\ locked = FALSE /\ legacy = <<>>
  /\ effective = Defaults
  /\ editions = {} /\ wanted = <<>> /\ damaged = FALSE
  /\ left = [starts |-> 0, changes |-> 0, crashes |-> 0]

HomeInit == (SetupInit /\ ConfigIdle) \/ (SetupIdle /\ ConfigInit)

HomeNext ==
  \/ SetupNext /\ UNCHANGED configVars
  \/ ConfigNext /\ UNCHANGED setupVars

HomeSpec == HomeInit /\ [][HomeNext]_<<setupVars, configVars>>
=============================================================================
