-------------------------------- MODULE Setup --------------------------------
(***************************************************************************)
(* pmg setup install and pmg setup remove (cmd/setup/setup.go): the shims in   *)
(* ~/.pmg/bin and the lines that put them on the PATH (internal/shim), the     *)
(* alias file ~/.pmg.rc and the lines that source it (internal/alias), and the *)
(* scheduled heartbeat (internal/heartbeat), on a Unix system.                *)
(*                                                                         *)
(* Either command may fail or be killed between any two of its steps, and be  *)
(* run again; the user edits the startup files meanwhile.  A startup file is a *)
(* sequence of lines, told apart by what PMG and the shells see in them.      *)
(***************************************************************************)
EXTENDS Integers, Sequences, SequencesExt

CONSTANTS
  PackageManagers,   \* a sequence: the managers a shim is written for
  Systems,           \* records os, shell: the system, and the user's main shell
  Homes,             \* records rc, crontab: what the user may have at first
  MaxCommands, MaxFaults, MaxEdits    \* bounds of the environment

VARIABLES
  system,            \* of Systems, with enrolled: cloud.enabled and an API key, and
                     \* jobs: the user's own cron jobs
  rc,                \* the startup files that exist, each with its lines
  aliasFile,         \* ~/.pmg.rc exists
  shims,             \* the managers with a script in ~/.pmg/bin
  crontab,           \* the lines of the user's crontab
  timer,             \* the systemd units: service, timer, enabled
  systemd,           \* the user's systemd session answers
  step,              \* of the command that runs, or "idle"
  clean,             \* nothing disturbed the command so far
  last,              \* what the last command achieved, if nothing changed since
  own,               \* the lines the user wrote, by file
  misread,           \* a crontab that could not be read was taken for an empty one
  budget             \* of commands, faults and edits

diskVars == <<rc, aliasFile, shims, crontab, timer>>
setupVars == <<system, diskVars, systemd, step, clean, last, own, misread, budget>>

\* A text but for the lines of a set.
Without(lines, dropped) ==
  LET kept[i \in 0..Len(lines)] ==
        IF i = 0 THEN <<>>
        ELSE IF lines[i] \in dropped THEN kept[i - 1] ELSE Append(kept[i - 1], lines[i])
  IN kept[Len(lines)]

-----------------------------------------------------------------------------
(* The shells                                                               *)

LoginFiles == <<".bash_profile", ".bash_login", ".profile">>
Shells     == {"fish", "zsh", "bash"}
Single     == [fish |-> "config.fish", zsh |-> ".zshrc"]

CandidateRcFiles(shell) ==
  IF shell = "bash" THEN {".bashrc"} \cup ToSet(LoginFiles) ELSE {Single[shell]}

Exists(f) == f \in DOMAIN rc

\* The login file bash reads: the first there is.
FirstLogin ==
  LET found == {i \in DOMAIN LoginFiles : Exists(LoginFiles[i])}
  IN IF found = {} THEN "" ELSE LoginFiles[Min(found)]

ReferencesBashrc(f) == Exists(f) /\ "sources .bashrc" \in ToSet(rc[f])

IsPrimary(shell) == system.shell = shell

\* Fault: a login shell is taken to read .bashrc as well.
BashrcOrLogin ==
  LET login == IF FirstLogin = "" /\ IsPrimary("bash") /\ system.os = "darwin"
               THEN ".bash_profile" ELSE FirstLogin
  IN IF Exists(".bashrc") THEN {".bashrc"}
     ELSE IF login # "" THEN {login}
     ELSE IF IsPrimary("bash") THEN {".bashrc"} ELSE {}

\* Where bash is to load PMG; on macOS a login file is made if there is none.
BashInstallRcFiles ==
  LET login == IF FirstLogin = "" /\ IsPrimary("bash") /\ system.os = "darwin"
               THEN ".bash_profile" ELSE FirstLogin
      files == {f \in {".bashrc"} : Exists(f)}
               \cup {f \in {login} \ {""} : ~Exists(".bashrc") \/ ~ReferencesBashrc(f)}
  IN IF files # {} THEN files
     ELSE IF IsPrimary("bash") THEN {".bashrc"} ELSE {}

InstallRcFiles(shell) ==
  IF shell = "bash" THEN BashInstallRcFiles
  ELSE {f \in {Single[shell]} : Exists(f) \/ IsPrimary(shell)}

-----------------------------------------------------------------------------
(* The lines                                                                *)

\* What PMG appends, what it takes for a sign that it has, and what it drops. The
\* comment above the PATH line has the words "PMG shims" too, and the user's own
\* lines may name .pmg.rc.
Block == [alias |-> <<"alias comment", "alias">>, shim |-> <<"shim comment", "path">>]
Marks == [alias |-> {"alias", "names .pmg.rc"}, shim |-> {"shim comment", "path"}]
Drops == [alias |-> Marks["alias"] \cup {"alias comment"}, shim |-> Marks["shim"]]
PmgLines == ToSet(Block["alias"]) \cup ToSet(Block["shim"])

OwnLines == {"user", "sources .bashrc", "names .pmg.rc"}

\* Startup files have names, and at first only the user's lines; and so has the crontab.
ASSUME SetupAssumption ==
  /\ PackageManagers \in Seq(ToSet(PackageManagers))
  /\ \A s \in Systems : s.shell \in Shells
  /\ \A h \in Homes :
       /\ "" \notin DOMAIN h.rc
       /\ \A f \in DOMAIN h.rc : h.rc[f] \in Seq(OwnLines)
       /\ h.crontab \in Seq({"job"})

HasLine(f, lines) == Exists(f) /\ ToSet(rc[f]) \cap lines # {}

AddLines(kind, f) ==
  IF ~Exists(f) THEN Block[kind]
  ELSE IF HasLine(f, Marks[kind]) THEN rc[f] ELSE rc[f] \o Block[kind]

-----------------------------------------------------------------------------
(* The steps of the two commands                                            *)

SetupInit ==
  /\ \E s \in Systems, h \in Homes, e \in BOOLEAN :
       /\ system = [os |-> s.os, shell |-> s.shell, enrolled |-> e, jobs |-> h.crontab]
       /\ rc = h.rc /\ own = h.rc /\ crontab = h.crontab
  /\ aliasFile = FALSE
  /\ shims = {}
  /\ timer = [service |-> FALSE, timer |-> FALSE, enabled |-> FALSE]
  /\ systemd \in BOOLEAN
  /\ step = "idle"
  /\ clean = TRUE
  /\ last = "none"
  /\ misread = FALSE
  /\ budget = [commands |-> MaxCommands, faults |-> MaxFaults, edits |-> MaxEdits]

At(from) == step = from
Spend(what) == budget[what] > 0 /\ budget' = [budget EXCEPT ![what] = @ - 1]

\* Whether a step went as it should.
Either(fine) ==
  \/ fine /\ UNCHANGED <<clean, budget>>
  \/ ~fine /\ clean' = FALSE /\ Spend("faults")

Environment == <<system, systemd, own>>

Onward(to) == step' = to /\ UNCHANGED last
End(achieved) == step' = "idle" /\ last' = IF clean' THEN achieved ELSE "none"

Start(first) ==
  /\ At("idle")
  /\ Spend("commands")
  /\ step' = first
  /\ clean' = TRUE
  /\ last' = "none"
  /\ UNCHANGED <<Environment, diskVars, misread>>

StartInstall == Start("config")

\* A config file that --config-file cannot remove ends the command before this.
StartRemove == Start("unschedule")

\* The config is merged first, and a failure ends the command.
WriteConfig ==
  /\ At("config")
  /\ \/ Either(TRUE) /\ Onward("shims")
     \/ Either(FALSE) /\ End("none")
  /\ UNCHANGED <<Environment, diskVars, misread>>

\* One script after the other, up to the first that cannot be written.
WriteShims ==
  /\ At("shims")
  /\ \E k \in 0..Len(PackageManagers) :
       /\ shims' = shims \cup {PackageManagers[i] : i \in 1..k}
       /\ Either(k = Len(PackageManagers))
       /\ IF k = Len(PackageManagers) THEN Onward("paths") ELSE End("none")
  /\ UNCHANGED <<Environment, rc, aliasFile, crontab, timer, misread>>

\* A file in failed cannot be read, written or made; one that is made may still
\* refuse the line.  PMG warns and goes on, with the next shell after a file that
\* cannot be made, else with the next file.
WriteLines(kind) ==
  LET targets == UNION {InstallRcFiles(s) : s \in Shells}
  IN \E failed \in SUBSET targets : \E made \in SUBSET (failed \ DOMAIN rc) :
       /\ \A s \in Shells : InstallRcFiles(s) \cap failed \subseteq DOMAIN rc \cup made
                             \/ InstallRcFiles(s) \subseteq failed
       /\ rc' = [f \in DOMAIN rc \cup (targets \ failed) \cup made |->
                   IF f \in targets \ failed THEN AddLines(kind, f)
                   ELSE IF f \in made THEN <<>> ELSE rc[f]]
       /\ Either(failed = {})

AddPathToShells ==
  /\ At("paths")
  /\ WriteLines("shim")
  /\ Onward(IF system.enrolled THEN "schedule" ELSE "aliases")
  /\ UNCHANGED <<Environment, aliasFile, shims, crontab, timer, misread>>

CreateAliasFile ==
  /\ At("aliases")
  /\ \/ aliasFile' = TRUE /\ Either(TRUE) /\ Onward("sources")
     \/ aliasFile' \in {aliasFile, TRUE} /\ Either(FALSE) /\ End("none")
  /\ UNCHANGED <<Environment, rc, shims, crontab, timer, misread>>

SourceRcFile ==
  /\ At("sources")
  /\ WriteLines("alias")
  /\ End("installed")
  /\ UNCHANGED <<Environment, aliasFile, shims, crontab, timer, misread>>

RemoveAliasFile ==
  /\ At("unalias")
  /\ \E gone \in BOOLEAN : aliasFile' = (aliasFile /\ ~gone) /\ Either(gone)
  /\ Onward("unsource")
  /\ UNCHANGED <<Environment, rc, shims, crontab, timer, misread>>

Keeps(kind, lines) == Without(lines, Drops[kind])

\* Fault: a file is truncated and written in place.
DropLinesInPlace(kind) ==
  LET targets == (UNION {CandidateRcFiles(s) : s \in Shells}) \cap DOMAIN rc
  IN \E failed \in SUBSET targets :
       /\ rc' = [f \in DOMAIN rc |-> IF f \in failed THEN <<>> ELSE Keeps(kind, rc[f])]
       /\ Either(failed = {})

\* RewriteFileDroppingLines renames a temporary file over the startup file: it is
\* rewritten as a whole or, for those in failed, not at all.
DropLines(kind) ==
  LET targets == (UNION {CandidateRcFiles(s) : s \in Shells}) \cap DOMAIN rc
  IN \E failed \in SUBSET targets :
       /\ rc' = [f \in DOMAIN rc |->
                   IF f \in targets \ failed THEN Keeps(kind, rc[f]) ELSE rc[f]]
       /\ Either(failed = {})

RemoveSourceLines ==
  /\ At("unsource")
  /\ DropLines("alias")
  /\ Onward("unshim")
  /\ UNCHANGED <<Environment, aliasFile, shims, crontab, timer, misread>>

RemoveShims ==
  /\ At("unshim")
  /\ \E kept \in SUBSET shims : shims' = kept /\ Either(kept = {})
  /\ Onward("unpath")
  /\ UNCHANGED <<Environment, rc, aliasFile, crontab, timer, misread>>

RemovePathFromShells ==
  /\ At("unpath")
  /\ DropLines("shim")
  /\ End("removed")
  /\ UNCHANGED <<Environment, aliasFile, shims, crontab, timer, misread>>

-----------------------------------------------------------------------------
(* The heartbeat's schedule, whose failures are logged and ignored           *)

StripPMGLines(lines) == Without(lines, {"pmg"})

\* crontab -l that fails and prints nothing stands for an empty crontab, one that
\* fails half way is an error.
RewriteCrontab(added) ==
  \E read \in {"whole", "nothing", "part"}, written \in BOOLEAN :
    /\ read = "part" => ~written
    /\ crontab' = IF ~written THEN crontab
                  ELSE StripPMGLines(IF read = "whole" THEN crontab ELSE <<>>) \o added
    /\ misread' = (misread \/ (read = "nothing" /\ written))
    /\ Either(read = "whole" /\ written)
    /\ UNCHANGED timer

\* Two unit files, daemon-reload, enable --now: up to the first that fails.
InstallTimer ==
  \E done \in 0..4 :
    /\ timer' = [service |-> timer.service \/ done >= 1, timer |-> timer.timer \/ done >= 2,
                 enabled |-> timer.enabled \/ done = 4]
    /\ Either(done = 4)
    /\ UNCHANGED <<crontab, misread>>

\* The result of disable is ignored; the first file that stays ends the removal.
RemoveTimer ==
  \E disabled \in BOOLEAN, gone \in 0..2 :
    /\ timer' = [service |-> timer.service /\ gone < 1, timer |-> timer.timer /\ gone < 2,
                 enabled |-> timer.enabled /\ ~disabled]
    /\ Either(disabled /\ gone = 2)
    /\ UNCHANGED <<crontab, misread>>

\* Which scheduler there is, is asked anew by every command.
InstallHeartbeat ==
  /\ At("schedule")
  /\ IF systemd THEN InstallTimer ELSE RewriteCrontab(<<"pmg">>)
  /\ Onward("aliases")
  /\ UNCHANGED <<Environment, rc, aliasFile, shims>>

RemoveHeartbeat ==
  /\ At("unschedule")
  /\ IF systemd THEN RemoveTimer ELSE RewriteCrontab(<<>>)
  /\ Onward("unalias")
  /\ UNCHANGED <<Environment, rc, aliasFile, shims>>

-----------------------------------------------------------------------------
(* The world around                                                         *)

Killed ==
  /\ step # "idle"
  /\ Either(FALSE)
  /\ End("none")
  /\ UNCHANGED <<Environment, diskVars, misread>>

\* An edit may fall into a command, which then promises nothing.
UserEdits ==
  /\ Spend("edits")
  /\ clean' = FALSE
  /\ last' = "none"
  /\ UNCHANGED <<system, aliasFile, shims, crontab, timer, step, misread>>

UserWrites(f, line) ==
  /\ ~Exists(f)
  /\ rc' = [g \in DOMAIN rc \cup {f} |-> IF g = f THEN <<line>> ELSE rc[g]]
  /\ own' = [g \in DOMAIN own \cup {f} |-> IF g = f THEN <<line>> ELSE own[g]]
  /\ UNCHANGED systemd
  /\ UserEdits

\* "... or deleting the line", says the comment that PMG writes above it.
UserDeletes(f, line) ==
  /\ HasLine(f, {line})
  /\ rc' = [rc EXCEPT ![f] = Without(rc[f], {line})]
  /\ UNCHANGED <<own, systemd>>
  /\ UserEdits

\* The user's systemd session starts or ends.
SessionChanges ==
  /\ systemd' = ~systemd
  /\ UNCHANGED <<rc, own>>
  /\ UserEdits

SetupNext ==
  \/ StartInstall \/ WriteConfig \/ WriteShims \/ AddPathToShells \/ InstallHeartbeat
  \/ CreateAliasFile \/ SourceRcFile
  \/ StartRemove \/ RemoveHeartbeat \/ RemoveAliasFile \/ RemoveSourceLines
  \/ RemoveShims \/ RemovePathFromShells
  \/ Killed \/ SessionChanges
  \/ \E f \in ToSet(LoginFiles) \cup {".bashrc"}, l \in {"user", "sources .bashrc"} : UserWrites(f, l)
  \/ \E f \in DOMAIN rc, l \in {"path", "alias"} : UserDeletes(f, l)

SetupSpec == SetupInit /\ [][SetupNext]_setupVars

-----------------------------------------------------------------------------
(* What the user gets                                                       *)

Starts == {"fish", "zsh", "bash", "bash login"}

\* The startup file of a shell; a login shell's may source .bashrc.
StartupFile(start) ==
  CASE start = "bash" -> ".bashrc" [] start = "bash login" -> FirstLogin [] OTHER -> Single[start]
Sources(start) == start = "bash login" /\ ReferencesBashrc(FirstLogin)

FilesRead(start) ==
  {f \in {StartupFile(start)} \cup {g \in {".bashrc"} : Sources(start)} : Exists(f)}

\* The PATH after them, each line of PMG's putting the shims before the rest, and what is
\* left of it when PMG looks for the manager.
Prepend(f, path) ==
  IF Exists(f) THEN Without(rc[f], ToSet(rc[f]) \ {"path"}) \o path ELSE path
Path(start) ==
  LET path == Prepend(StartupFile(start), <<"system">>)
  IN IF Sources(start) THEN Prepend(".bashrc", path) ELSE path
FilterPMGFromPath(path) == Without(path, {"path"})

\* A line the user deleted under the comment that stays counts as written.
Deleted(start) ==
  \E f \in FilesRead(start) : HasLine(f, {"shim comment"}) /\ ~HasLine(f, {"path"})

\* An install that nothing disturbed, whatever befell those before it, leaves the
\* main shell with a startup file, and every shell that reads one with the aliases
\* and with shims that come first and lead to the manager behind them; however
\* often it ran, no file has a line twice.
SetupConverges ==
  /\ last = "installed" =>
       /\ aliasFile /\ shims = ToSet(PackageManagers)
       /\ \E s \in Starts : FilesRead(s) # {} /\ s \in {system.shell, "bash login"}
       /\ \A s \in Starts :
            FilesRead(s) # {} =>
              /\ \E f \in FilesRead(s) : HasLine(f, Marks["alias"])
              /\ Head(Path(s)) = "path" \/ Deleted(s)
              /\ Head(FilterPMGFromPath(Path(s))) = "system"
  /\ \A f \in DOMAIN rc, l \in {"path", "alias"} :
       \A i, j \in DOMAIN rc[f] : rc[f][i] = l /\ rc[f][j] = l => i = j

\* A removal that nothing disturbed leaves no line, script or schedule of PMG's,
\* wherever earlier installs put them.
RemovalIsComplete ==
  last = "removed" =>
    /\ ~aliasFile /\ shims = {}
    /\ \A f \in DOMAIN rc : ~HasLine(f, PmgLines)
    /\ IF systemd THEN timer = [service |-> FALSE, timer |-> FALSE, enabled |-> FALSE]
       ELSE "pmg" \notin ToSet(crontab)

\* setup install and setup remove reach what they promise from whatever an earlier,
\* interrupted one has left.
SetupIsReversible == SetupConverges /\ RemovalIsComplete

\* Whatever fails and whenever PMG is killed, the user's own lines stay, in their
\* order, but for those that name .pmg.rc; and so do the jobs of the crontab,
\* unless crontab -l failed.
UsersFilesSurvive ==
  LET Mine(lines) == Without(lines, PmgLines \cup {"names .pmg.rc"})
  IN /\ \A f \in DOMAIN own : Exists(f) /\ Mine(rc[f]) = Mine(own[f])
     /\ misread \/ Without(crontab, {"pmg"}) = system.jobs
=============================================================================
