------------------------------ MODULE ConfigFile ------------------------------
(***************************************************************************)
(* The configuration (config/): which file a start of pmg takes it from, what *)
(* the environment and the command line may override, and the commands that   *)
(* write the user's file: config set, config edit, cloud enroll, setup install *)
(* and setup remove --config-file.                                          *)
(*                                                                         *)
(* An administrator may put a managed file beside the user's, change it and    *)
(* take it away while a start reads it.  The user's file is truncated before   *)
(* it is written, and a crash may come between.                              *)
(***************************************************************************)
EXTENDS Integers, Functions

CONSTANTS
  Template,        \* the keys of config.template.yml, and what it gives for each
  Defaults,        \* DefaultConfig, which does not give the same for each
  Governed,        \* the keys a managed flag sets: configFlagSpecs
  ManagedFiles,    \* what the administrator may put in place
  UserFiles,       \* what the user may have written
  Commands,        \* records do, env, flags, and for config set key and value
  MaxStarts, MaxChanges, MaxCrashes    \* bounds of the environment

VARIABLES
  managed, user,   \* the two files
  cmd,             \* the command that runs
  at,              \* where it is
  isManaged,       \* the active file is the managed one
  locked,          \* globalConfig.configLocked
  legacy,          \* proxy_mode as viper has it
  effective,       \* globalConfig, once it is loaded
  editions,        \* the managed file since the command started, in all its states
  wanted,          \* the user's settings: what the last writers of a key wrote
  damaged,         \* a crash met the writing of the user's file
  left             \* of the bounds

startVars  == <<isManaged, locked, legacy, effective>>
ghostVars  == <<wanted, damaged>>
configVars == <<managed, user, cmd, at, startVars, editions, ghostVars, left>>

-----------------------------------------------------------------------------
(* Files                                                                    *)

File(form, lockdown, keys) == [form |-> form, lockdown |-> lockdown, keys |-> keys]
NoFile     == File("none", "unset", <<>>)
Torn       == File("torn", "unset", <<>>)      \* it does not parse
Yaml(keys) == File("yaml", "unset", keys)

\* cloud.auto_sync: its switch, and its times.
AutoSync == {"autoSync", "syncTimes"}

\* The template has today's name of proxy and not the old one, no insecure switch, and
\* auto_sync on.  Every flag that sets one of its keys, or the switch, is managed: only
\* --dry-run is not.
ASSUME ConfigAssumption ==
  /\ "proxy" \in DOMAIN Template /\ DOMAIN Defaults = DOMAIN Template
  /\ "autoSync" \in DOMAIN Template /\ Template["autoSync"] = TRUE
  /\ {"proxy_mode", "insecure"} \cap DOMAIN Template = {}
  /\ \A f \in ManagedFiles : f.form = "yaml"
  /\ \A f \in UserFiles : f = Torn \/ f = Yaml(f.keys)
  /\ \A c \in Commands : DOMAIN c.flags \cap (DOMAIN Template \cup {"insecure"}) \subseteq Governed

Override(base, over) ==
  [k \in DOMAIN base \cup DOMAIN over |-> IF k \in DOMAIN over THEN over[k] ELSE base[k]]

\* MergeYAML adds the keys of the template that the file lacks, the whole proxy
\* section among them.
MergeYAML(keys) == Override(Template, keys)

\* What a file, or the environment, says of the keys there are today; proxy_mode is the
\* old name of proxy.
Says(keys) ==
  IF "proxy_mode" \in DOMAIN keys /\ "proxy" \notin DOMAIN keys
  THEN Override(Restrict(keys, DOMAIN Template \cap DOMAIN keys), [proxy |-> keys["proxy_mode"]])
  ELSE Restrict(keys, DOMAIN Template \cap DOMAIN keys)

-----------------------------------------------------------------------------
(* A start of pmg: initConfig, and the flags                                 *)

Idle == [do |-> "none", env |-> <<>>, flags |-> <<>>]

ConfigInit ==
  /\ managed \in ManagedFiles \cup {NoFile}
  /\ user \in UserFiles \cup {NoFile}
  /\ cmd = Idle
  /\ at = "idle"
  /\ isManaged = FALSE /\ locked = FALSE /\ legacy = <<>>
  /\ effective = Defaults
  /\ editions = {}
  /\ wanted = Says(user.keys)
  /\ damaged = (user = Torn)
  /\ left = [starts |-> MaxStarts, changes |-> MaxChanges, crashes |-> MaxCrashes]

Take(what) == left[what] > 0 /\ left' = [left EXCEPT ![what] = @ - 1]
Goto(from, to) == at = from /\ at' = to

StartCommand(c) ==
  /\ Goto("idle", "resolve")
  /\ cmd' = c
  /\ editions' = {managed}
  /\ Take("starts")
  /\ UNCHANGED <<managed, user, startVars, ghostVars>>

ResolveConfigFile ==
  /\ Goto("resolve", "lockdown")
  /\ isManaged' = (managed # NoFile)
  /\ UNCHANGED <<managed, user, cmd, locked, legacy, effective, editions, ghostVars, left>>

\* Fault: a managed file that cannot be read does not lock.
LockdownIfReadable == managed.lockdown = "true"

\* A file that is gone or does not parse is taken for a locked one; a value that is
\* no boolean ("word") unlocks.
EnablesLockdown == managed.form # "yaml" \/ managed.lockdown = "true"

DecideLockdown ==
  /\ Goto("lockdown", "load")
  /\ locked' = (isManaged /\ EnablesLockdown)
  /\ UNCHANGED <<managed, user, cmd, isManaged, legacy, effective, editions, ghostVars, left>>

Active == IF isManaged THEN managed ELSE user

\* The environment reaches the keys of the template, the old name, and the insecure
\* switch, which no file has.
Env      == IF locked THEN <<>> ELSE cmd.env
Insecure == [insecure |-> "insecure" \in DOMAIN Env /\ Env["insecure"]]

Known(keys)   == Restrict(keys, DOMAIN Template \cap DOMAIN keys)
OldName(keys) == Restrict(keys, {"proxy_mode"} \cap DOMAIN keys)

\* Viper: template, file, environment.  A file that does not parse leaves what
\* DefaultConfig has, without the template and the environment.
LoadViperConfig ==
  /\ at = "load"
  /\ IF Active.form = "torn"
     THEN at' = "flags" /\ legacy' = <<>> /\ effective' = Override(Defaults, Insecure)
     ELSE /\ at' = "legacy"
          /\ legacy' = Override(OldName(Active.keys), OldName(Env))
          /\ effective' = Override(Override(Override(Template, Known(Active.keys)), Known(Env)), Insecure)
  /\ UNCHANGED <<managed, user, cmd, isManaged, locked, editions, ghostVars, left>>

\* The file is read once more: a proxy section, or its variable, hides proxy_mode, be it
\* of the file or PMG_PROXY_MODE.
ApplyProxyLegacyFallback ==
  /\ Goto("legacy", "flags")
  /\ effective' = IF "proxy" \notin DOMAIN Active.keys \cup DOMAIN Env /\ "proxy_mode" \in DOMAIN legacy
                  THEN [effective EXCEPT !["proxy"] = legacy["proxy_mode"]] ELSE effective
  /\ UNCHANGED <<managed, user, cmd, isManaged, locked, legacy, editions, ghostVars, left>>

RejectManagedFlagOverrides ==
  /\ Goto("flags", "idle")
  /\ locked /\ DOMAIN cmd.flags \cap Governed # {}
  /\ UNCHANGED <<managed, user, cmd, startVars, editions, ghostVars, left>>

\* The flags are bound to the fields of the loaded configuration.
ApplyFlags ==
  /\ Goto("flags", "ready")
  /\ ~locked \/ DOMAIN cmd.flags \cap Governed = {}
  /\ effective' = Override(effective, cmd.flags)
  /\ UNCHANGED <<managed, user, cmd, isManaged, locked, legacy, editions, ghostVars, left>>

-----------------------------------------------------------------------------
(* The writers of the user's file                                            *)

\* os.WriteFile truncates, then writes.  A crash leaves the file as it was, what an
\* earlier write of the same command left, nothing, or its beginning.
Save(keys, earlier, to) ==
  \/ /\ user' = Yaml(keys)
     /\ Goto("ready", to)
     /\ UNCHANGED <<damaged, left>>
  \/ /\ user' \in {user, earlier, Torn, Yaml(<<>>)}
     /\ Goto("ready", "idle")
     /\ damaged' = TRUE
     /\ Take("crashes")

Refuse == Goto("ready", "idle") /\ UNCHANGED <<user, ghostVars, left>>
Doing(what) == at = "ready" /\ cmd.do = what
Fixed == <<managed, cmd, startVars, editions>>

\* Every other command only uses the configuration.
Run ==
  /\ Doing("run")
  /\ Refuse
  /\ UNCHANGED Fixed

\* The old name counts only where there is no section of today's.
Wish(keys, k, value) ==
  IF k # "proxy_mode" THEN [x \in {k} |-> value]
  ELSE IF "proxy" \in DOMAIN keys THEN <<>> ELSE [proxy |-> value]

\* config set: the file is made from the template if there is none, and the key has
\* to be in it.
SetConfigValue ==
  /\ Doing("set")
  /\ LET keys == IF user = NoFile THEN Template ELSE user.keys
     IN IF isManaged \/ user = Torn \/ cmd.key \notin DOMAIN keys
        THEN Refuse
        ELSE /\ Save(Override(keys, [x \in {cmd.key} |-> cmd.value]), Yaml(keys), "idle")
             /\ wanted' = Override(wanted, Wish(keys, cmd.key, cmd.value))
  /\ UNCHANGED Fixed

\* What setup install and enroll do first: no file, or one that parses.
Mergeable == isManaged \/ user # Torn
Merged(keys) == IF isManaged THEN keys ELSE MergeYAML(keys)

\* A proxy_mode of old ends with the section the merge adds.
MergedWishes ==
  IF "proxy_mode" \in DOMAIN user.keys /\ "proxy" \notin DOMAIN user.keys
  THEN Restrict(wanted, DOMAIN wanted \ {"proxy"}) ELSE wanted

WriteTemplateConfig ==
  /\ Doing("install")
  /\ IF isManaged \/ user = Torn THEN Refuse
     ELSE Save(MergeYAML(user.keys), user, "idle") /\ wanted' = MergedWishes
  /\ UNCHANGED Fixed

\* The file is made from the template if there is none, and the editor's work
\* replaces it, unless there is no editor.
Edit ==
  /\ Doing("edit")
  /\ \/ isManaged /\ Refuse
     \/ ~isManaged /\ user # NoFile /\ Refuse
     \/ ~isManaged /\ user = NoFile /\ Save(Template, user, "idle") /\ wanted' = Template
     \/ \E f \in UserFiles :
          /\ ~isManaged
          /\ Goto("ready", "idle")
          /\ user' = f
          /\ wanted' = Says(f.keys)
          /\ damaged' = (f = Torn)
          /\ UNCHANGED left
  /\ UNCHANGED Fixed

\* The cloud's keys are set in their section, and in the place of its auto_sync there is
\* a new one, with the switch alone.
Enrolled(keys) ==
  Override(Restrict(keys, DOMAIN keys \ AutoSync), [cloud |-> TRUE, autoSync |-> TRUE])

\* What the user had set of auto_sync is not wanted any more.
EnrolledWishes(wishes) ==
  Override(Restrict(wishes, DOMAIN wishes \ AutoSync), [cloud |-> TRUE])

\* cloud enroll, once the server has answered: the template is merged, unless the
\* configuration is managed, and the cloud section is written into the user's file
\* all the same.
PatchCloudConfig ==
  /\ Doing("enroll")
  /\ \/ Refuse
     \/ LET keys == Merged(user.keys)
        IN /\ Mergeable /\ (isManaged => user \notin {NoFile, Torn})
           /\ Save(Enrolled(keys), Yaml(keys), "relay")
           /\ wanted' = EnrolledWishes(IF isManaged THEN wanted ELSE MergedWishes)
  /\ UNCHANGED Fixed

\* The second write of enroll, of a file that is read anew.
PatchRelayConfig ==
  /\ at = "relay"
  /\ at' = "idle"
  /\ \/ /\ user' = Yaml(Override(user.keys, [relay |-> TRUE]))
        /\ wanted' = Override(wanted, [relay |-> TRUE])
        /\ UNCHANGED <<damaged, left>>
     \/ /\ user' \in {user, Torn, Yaml(<<>>)}
        /\ damaged' = TRUE
        /\ Take("crashes")
        /\ UNCHANGED wanted
  /\ UNCHANGED Fixed

RemoveUserConfigFile ==
  /\ Doing("remove")
  /\ Goto("ready", "idle")
  /\ user' = NoFile
  /\ wanted' = <<>>
  /\ damaged' = FALSE
  /\ UNCHANGED <<Fixed, left>>

Administer(f) ==
  /\ f # managed
  /\ managed' = f
  /\ editions' = editions \cup {f}
  /\ Take("changes")
  /\ UNCHANGED <<user, cmd, at, startVars, ghostVars>>

ConfigNext ==
  \/ \E c \in Commands : StartCommand(c)
  \/ ResolveConfigFile \/ DecideLockdown \/ LoadViperConfig \/ ApplyProxyLegacyFallback
  \/ RejectManagedFlagOverrides \/ ApplyFlags
  \/ Run \/ SetConfigValue \/ WriteTemplateConfig \/ Edit \/ PatchCloudConfig
  \/ PatchRelayConfig \/ RemoveUserConfigFile
  \/ \E f \in ManagedFiles \cup {NoFile, Torn} : Administer(f)

ConfigSpec == ConfigInit /\ [][ConfigNext]_configVars

-----------------------------------------------------------------------------
(* What the configuration promises                                          *)

\* What a start has for a key where it reads nothing but this file; of one that does not
\* parse it has what DefaultConfig gives.
Read(f, k) == IF f = Torn THEN Defaults[k] ELSE Override(Template, Says(f.keys))[k]

\* A start that finds a locked managed file, or one it cannot read, and only such
\* files however often the administrator replaces them meanwhile, runs with what
\* these files say: no variable, no flag and no setting of the user's has an effect.
\* If the file is replaced between the two readings, proxy may be what the template has,
\* or what the old name says that the new one was beside.
LockdownHolds ==
  (at = "ready" /\ \A e \in editions : e = Torn \/ e.lockdown = "true") =>
    /\ ~effective["insecure"]
    /\ \A k \in DOMAIN Template :
         \/ \E e \in editions : effective[k] = Read(e, k)
         \/ /\ editions # {managed} /\ k = "proxy"
            /\ \/ effective[k] = Template[k]
               \/ \E e \in editions : /\ {"proxy", "proxy_mode"} \subseteq DOMAIN e.keys
                                      /\ effective[k] = e.keys["proxy_mode"]

\* What the variables say; the old name of one is heard where the user's file has no
\* section of today's (docs/config.md:56).
Variables == IF "proxy" \in DOMAIN user.keys THEN Known(cmd.env) ELSE Says(cmd.env)

\* Without a managed file a setting is what the flag says, else the variable, else
\* what the user last set, be it by an editor, config set or enroll, else what the
\* template has; whatever other commands wrote, and unless a crash met a write.  What
\* the user had set of cloud.auto_sync before an enroll is lost with it: the switch is
\* on again, and the times are the template's (EnrolledWishes).
SettingsHold ==
  (at = "ready" /\ editions = {NoFile} /\ ~damaged) =>
    \A k \in DOMAIN Template :
      effective[k] = Override(Override(Override(Template, wanted), Variables), cmd.flags)[k]

\* A start runs with what those who may decide have decided: the administrator where
\* there is a managed file, the user everywhere else.
ConfigurationHolds == LockdownHolds /\ SettingsHold
=============================================================================
