------------------------------- MODULE MCSetup -------------------------------
(* An instance of Setup for TLC.                                            *)
EXTENDS Setup

MCPackageManagers == <<"npm", "pip">>
MCSystems ==
  {[os |-> "linux", shell |-> "bash"], [os |-> "linux", shell |-> "zsh"],
   [os |-> "darwin", shell |-> "bash"]}

Home(files, jobs) == [rc |-> files, crontab |-> jobs]
Lines(f, lines) == f :> lines

\* Nothing at all; a .bashrc alone; a distribution's pair, the login file sourcing
\* .bashrc; a login file that sources a .bashrc that is not there, with one behind
\* it; and a shell of its own with the user's line on .pmg.rc.
MCHomes ==
  {Home(<<>>, <<>>),
   Home(Lines(".bashrc", <<"user">>), <<"job">>),
   Home(Lines(".bashrc", <<"user">>) @@ Lines(".profile", <<"sources .bashrc", "user">>), <<"job">>),
   Home(Lines(".bash_profile", <<"sources .bashrc">>) @@ Lines(".profile", <<"user">>), <<"job">>),
   Home(Lines(".zshrc", <<"names .pmg.rc", "user">>) @@ Lines("config.fish", <<"user">>), <<>>)}
=============================================================================
