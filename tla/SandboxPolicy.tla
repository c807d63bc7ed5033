--------------------------- MODULE SandboxPolicy ---------------------------
(***************************************************************************)
(* From the profiles to what confines a command: the registry with its       *)
(* inheritance (sandbox/policy.go, registry.go), the overrides of             *)
(* --sandbox-allow (config/sandbox_allow.go, sandbox/executor/apply.go), the  *)
(* translation for the platform (SandboxDrivers.tla), and what `pmg sandbox   *)
(* profile` shows of it (resolve.go, lint.go).                               *)
(***************************************************************************)
EXTENDS SandboxDrivers

CONSTANTS
  Builtins,      \* the embedded profiles, by name
  UserFiles,     \* each what may be in the profile directory: [name, ext] -> content
  Wanted,        \* each a name or path that may be asked for: [bare, name, ext]
  RawOverrides,  \* sequences of values of --sandbox-allow
  Disks,
  Drivers,
  Managers,      \* package managers that may be run
  NoProfile

Flags == {"git_config", "pty", "network_bind"}
Unreadable == [name |-> ""]      \* a file that is no YAML, or not there any more

PathLists == Lists \ {"allow_outbound", "deny_outbound", "allow_bind"}   \* others are of hosts
NoParent == ""                   \* what a profile inherits that inherits nothing

IsProfile(p) ==
  /\ DOMAIN p = {"name", "inherits", "managers", "rules", "flags"}
  /\ DOMAIN p.rules = Lists
  /\ \A l \in PathLists : \A r \in p.rules[l] : IsRule(r)

\* A profile has a name, or Validate refuses it: none is what a profile inherits that
\* inherits nothing.
ASSUME PolicyAssumption ==
  /\ NoParent \notin DOMAIN Builtins /\ \A n \in DOMAIN Builtins : IsProfile(Builtins[n])
  /\ \A files \in UserFiles : \A f \in DOMAIN files :
       files[f] = Unreadable \/ IsProfile(files[f])
  /\ \A raws \in RawOverrides :
       /\ Len(raws) \in Nat
       /\ \A k \in 1..Len(raws) : raws[k].type \in {"read", "write", "exec"} => IsRule(raws[k].value)
  /\ \A disk \in Disks : \A f \in disk : IsPath(f)
  /\ Drivers \subseteq {"landlock", "bubblewrap", "seatbelt"}

VARIABLES
  stage,        \* where ApplySandbox, or the command, is
  asked,        \* [wanted, manager, overrides, driver, disk, files, show], fixed
  profiles,     \* of the registry: by name or path
  unresolved,   \* builtins the second pass has still to come to
  policy,       \* the one to be applied
  compiled,
  issues        \* of the linter

policyVars == <<stage, asked, profiles, unresolved, policy, compiled, issues>>

NotCompiled == [driver |-> "none"]

PolicyInit ==
  /\ stage = "load" /\ profiles = Builtins /\ unresolved = DOMAIN Builtins
  /\ asked \in [wanted : Wanted, manager : Managers, overrides : RawOverrides,
                driver : Drivers, disk : Disks, files : UserFiles, show : {FALSE}]
               \cup [wanted : Wanted, manager : {CHOOSE m \in Managers : TRUE}, overrides : {<<>>},
                     driver : Drivers, disk : Disks, files : UserFiles, show : {TRUE}]
  /\ policy = NoProfile /\ compiled = NotCompiled /\ issues = {}

PolicyIdle ==
  /\ stage = "idle" /\ profiles = <<>> /\ unresolved = {}
  /\ asked = [show |-> TRUE] /\ policy = NoProfile /\ compiled = NotCompiled /\ issues = {}

Fail == stage' = "failed" /\ UNCHANGED <<profiles, policy, compiled, issues>>

-----------------------------------------------------------------------------
(* policy.go                                                                *)

Valid(p) == p.name # "" /\ p.managers # {}

\* ValidateResolved: allow_bind is no access rule.
ValidResolved(p) == Valid(p) /\ \E l \in Lists \ {"allow_bind"} : p.rules[l] # {}

\* Fault: as most formats have it, a list of the child stands for the parent's.
MergeReplacing(child, parent) ==
  [child EXCEPT
     !.inherits = NoParent,
     !.rules = [l \in Lists |-> IF child.rules[l] = {} THEN parent.rules[l] ELSE child.rules[l]],
     !.flags = [f \in Flags |-> IF child.flags[f] # "unset" THEN child.flags[f]
                                ELSE IF parent.flags[f] = "true" THEN "true" ELSE "false"]]

MergeWithParent(child, parent) ==
  [child EXCEPT
     !.inherits = NoParent,
     !.rules = [l \in Lists |-> parent.rules[l] \cup child.rules[l]],
     !.flags = [f \in Flags |-> IF child.flags[f] # "unset" THEN child.flags[f]
                                ELSE IF parent.flags[f] = "true" THEN "true" ELSE "false"]]

-----------------------------------------------------------------------------
(* registry.go                                                              *)

\* The parent must be known and must not inherit, now.
Inheritable(p) == p.inherits \in DOMAIN profiles /\ profiles[p.inherits].inherits = NoParent

\* The second pass of loadBuiltinProfiles, in the order of a map.
ResolveInheritance ==
  /\ stage = "load"
  /\ \E name \in unresolved :
       LET p == profiles[name]
           merged == MergeWithParent(p, profiles[p.inherits])
       IN /\ unresolved' = unresolved \ {name}
          /\ IF p.inherits = NoParent
             THEN UNCHANGED <<stage, profiles, policy, compiled, issues>>
             ELSE IF Inheritable(p) /\ ValidResolved(merged)
             THEN /\ profiles' = [profiles EXCEPT ![name] = merged]
                  /\ UNCHANGED <<stage, policy, compiled, issues>>
             ELSE Fail
  /\ UNCHANGED asked

\* userProfileFiles: .yml goes before .yaml.
UserProfileFile(files, name) ==
  LET found == {f \in DOMAIN files : f[1] = name}
  IN IF <<name, "yml">> \in found THEN {<<name, "yml">>} ELSE found

\* GetProfile: builtin, user profile, path; findUserProfileByName takes bare names.
Found(wanted, files) ==
  IF wanted.bare THEN UserProfileFile(files, wanted.name)
  ELSE {<<wanted.name, wanted.ext>>} \cap DOMAIN files

\* Of GetProfile, and of resolveProfileForLint; the mutual exclusion of
\* LoadCustomProfile protects the registry of one process only.
GetBuiltin ==
  /\ stage = "load" /\ unresolved = {}
  /\ asked.wanted.bare /\ asked.wanted.name \in DOMAIN Builtins
  /\ policy' = profiles[asked.wanted.name] /\ stage' = "loaded"
  /\ UNCHANGED <<asked, profiles, unresolved, compiled, issues>>

LoadCustomProfile ==
  /\ stage = "load" /\ unresolved = {}
  /\ ~(asked.wanted.bare /\ asked.wanted.name \in DOMAIN Builtins)
  /\ IF Found(asked.wanted, asked.files) = {} THEN Fail
     ELSE LET path == CHOOSE f \in Found(asked.wanted, asked.files) : TRUE
              p == asked.files[path]
              whole == IF p.inherits = NoParent THEN p ELSE MergeWithParent(p, profiles[p.inherits])
          IN IF /\ p # Unreadable /\ Valid(p)
                /\ p.inherits = NoParent \/ Inheritable(p)
                /\ ValidResolved(whole)
             THEN /\ profiles' = (path[1] \o "." \o path[2] :> whole) @@ profiles
                  /\ policy' = whole /\ stage' = "loaded"
                  /\ UNCHANGED <<compiled, issues>>
             ELSE Fail
  /\ UNCHANGED <<asked, unresolved>>

-----------------------------------------------------------------------------
(* Overrides.                                                               *)

\* parseSingleOverride: [type, form, value], form being "/" for an absolute
\* path, "" for a relative one, "~", or for addresses which part is a wildcard.
ParsedOverride(raw) ==
  CASE raw.type \in {"read", "write"} -> raw.form \in {"/", ""}
    [] raw.type = "exec" -> raw.form \in {"/", ""} /\ ~IsGlob(raw.value)
    [] raw.type = "net_connect" -> raw.form = "exact"
    [] raw.type = "net_bind" -> raw.form \in {"exact", "any port"}
    [] OTHER -> FALSE

\* resolveToAbsolute
ResolvedValue(raw) ==
  IF raw.form = "" THEN [raw.value EXCEPT !.var = "/", !.base = Cwd \o @] ELSE raw.value

\* The types of overrides, each with the list it adds to, and those that take
\* something from the denials.
AllowListOf == [read |-> "allow_read", write |-> "allow_write", exec |-> "allow_exec",
                net_connect |-> "allow_outbound", net_bind |-> "allow_bind"]
DenyListOf == [read |-> "deny_read", write |-> "deny_write", exec |-> "deny_exec"]
Adds(raw, l) == raw.type \in DOMAIN AllowListOf /\ l = AllowListOf[raw.type]
Takes(raw, l) == raw.type \in DOMAIN DenyListOf /\ l = DenyListOf[raw.type]

\* removeExactMatch: the texts are compared before the variables are expanded, and
\* those of globs like any other.
ApplyOverride(p, raw) ==
  LET value == ResolvedValue(raw)
  IN [p EXCEPT
        !.rules = [l \in Lists |-> IF Adds(raw, l) THEN p.rules[l] \cup {value}
                                  ELSE IF Takes(raw, l) THEN p.rules[l] \ {value}
                                  ELSE p.rules[l]],
        !.flags = IF raw.type = "net_bind" THEN [@ EXCEPT !["network_bind"] = "true"] ELSE @]

\* applyRuntimeOverrides: one after the other.
Overridden(p, raws) ==
  LET after[k \in 0..Len(raws)] ==
        IF k = 0 THEN p ELSE ApplyOverride(after[k - 1], raws[k])
  IN after[Len(raws)]

\* parseSandboxAllowOverrides comes first of all in the code; one value that
\* is wrong stops pmg.
ApplyRuntimeOverrides ==
  /\ stage = "loaded" /\ ~asked.show
  /\ IF \E k \in DOMAIN asked.overrides : ~ParsedOverride(asked.overrides[k])
     THEN Fail
     ELSE LET p == Overridden(policy, asked.overrides)
          IN IF asked.manager \notin p.managers THEN Fail
             ELSE policy' = p /\ stage' = "ready" /\ UNCHANGED <<profiles, compiled, issues>>
  /\ UNCHANGED <<asked, unresolved>>

Execute ==
  /\ stage = "ready" /\ stage' = "confined"
  /\ compiled' = Translate(asked.driver, policy, asked.disk)
  /\ UNCHANGED <<asked, profiles, unresolved, policy, issues>>

-----------------------------------------------------------------------------
(* pmg sandbox profile                                                      *)

\* expandPolicyPaths: a copy, of which the registry's policy keeps nothing.
ExpandPolicyPaths(p) ==
  [p EXCEPT !.rules = [l \in Lists |->
     IF l \in {"allow_outbound", "deny_outbound", "allow_bind"} THEN p.rules[l]
     ELSE ExpandSlice(p.rules[l])]]

\* ResolveProfile and Render, of show and diff.
Show ==
  /\ stage = "loaded" /\ asked.show /\ stage' = "shown"
  /\ compiled' = Translate(asked.driver, ExpandPolicyPaths(policy), asked.disk)
  /\ UNCHANGED <<asked, profiles, unresolved, policy, issues>>

Issue(code, list, rule) == [code |-> code, list |-> list, rule |-> rule]
AllowLists == {"allow_read", "allow_write", "allow_exec"}
ConflictPairs ==
  [allow_read |-> "deny_read", allow_write |-> "deny_write", allow_exec |-> "deny_exec",
   allow_outbound |-> "deny_outbound"]

\* broadCheck
Broad == {Below("/", <<>>), Below("HOME", <<>>), Below("", <<>>)}

\* Fault: a rule with "**" shadows what is beneath, whatever comes behind it.
ShadowedByGlob(r, other) ==
  other.deep /\ other.var = r.var /\ IsStrictPrefix(other.base, r.base)

\* Beneath a rule that ends in "/**", without it or with it; the root is left out.
Shadowed(r, other) ==
  /\ other.deep /\ other.tail = <<>> /\ other.var = r.var /\ other \notin Broad \ {Below("HOME", <<>>)}
  /\ IsStrictPrefix(other.base, r.base) \/ (r.base = other.base /\ r.tail # <<>>)

\* LintProfile, without the order and the schema, which LoadCustomProfile has
\* checked.  Lists have no order here, and a rule is reported that stands before the
\* other.
LintProfile(p) ==
  (UNION {{Issue("unresolved", l, r) :
             r \in {s \in p.rules[l] : s.var \notin SupportedVariables \cup {"/", ""}}} :
            l \in Lists})
  \cup (UNION {{Issue("broad", l, r) : r \in p.rules[l] \cap Broad} : l \in AllowLists})
  \cup (UNION {{Issue("conflict", l, r) : r \in p.rules[l] \cap p.rules[ConflictPairs[l]]} :
                 l \in DOMAIN ConflictPairs})
  \cup (UNION {{Issue("shadowed", l, r) :
                  r \in {s \in p.rules[l] : \E o \in p.rules[l] : Shadowed(s, o)}} : l \in AllowLists})

Lint ==
  /\ stage = "shown" /\ stage' = "linted"
  /\ issues' = LintProfile(policy)
  /\ UNCHANGED <<asked, profiles, unresolved, policy, compiled>>

PolicyNext ==
  \/ ResolveInheritance \/ GetBuiltin \/ LoadCustomProfile
  \/ ApplyRuntimeOverrides \/ Execute \/ Show \/ Lint
-----------------------------------------------------------------------------
(* Properties.                                                              *)

\* What was written down in the profile that was asked for.
Written ==
  IF asked.wanted.bare /\ asked.wanted.name \in DOMAIN Builtins
  THEN Builtins[asked.wanted.name]
  ELSE asked.files[CHOOSE f \in Found(asked.wanted, asked.files) : TRUE]

\* The profiles it inherits from, near and far: those no set is without that has its
\* parent and, with a profile, the parent of that.
Closed(S) == \A n \in S : Builtins[n].inherits \in DOMAIN Builtins => Builtins[n].inherits \in S
Ancestors(p) ==
  {n \in DOMAIN Builtins :
     \A S \in SUBSET DOMAIN Builtins :
       Closed(S) /\ (p.inherits \in DOMAIN Builtins => p.inherits \in S) => n \in S}
Said(p, l) == p.rules[l] \cup UNION {Builtins[n].rules[l] : n \in Ancestors(p)}

\* What the overrides put into a list, and the denials they take out: those of a
\* path, and globs spelled like the override's own, though the comments on
\* applyRuntimeOverrides and removeExactMatch have globs never matched.
Granted(l) ==
  {ResolvedValue(asked.overrides[k]) : k \in {j \in 1..Len(asked.overrides) : Adds(asked.overrides[j], l)}}
Named(l) ==
  {ResolvedValue(asked.overrides[k]) : k \in {j \in 1..Len(asked.overrides) : Takes(asked.overrides[j], l)}}
Excused(l)      == {r \in Named(l) : ~IsGlob(r)}
ExcusedGlobs(l) == {r \in Named(l) : IsGlob(r)}

\* A command is confined by all its profile says and inherits, whichever of the
\* builtin profiles was resolved first: an override adds what it names and takes
\* away nothing but the denial of exactly that path, or, against what the comments
\* of apply.go say, of exactly that glob (MergeWithParent, loadBuiltinProfiles,
\* applyRuntimeOverrides).  A name of a builtin profile is that profile, whatever
\* the profile directory holds (GetProfile).
PolicyIsKept ==
  stage = "confined" =>
    \A l \in Lists :
      policy.rules[l] = (Said(Written, l) \cup Granted(l)) \ (Excused(l) \cup ExcusedGlobs(l))

Denials(op) ==
  Rules(policy, DenyListOf[op])
    \cup IF op = "exec" THEN {} ELSE Mandatory(policy, AllowListOf[op])

Beneath(path, dir) == IsPrefix(dir, path)

\* What the platforms do not deny: Landlock and bubblewrap look for globs on disk,
\* to a depth, with wildcards behind "**" as they stand, and not from the root.
NotSought(r, path, depth) ==
  /\ r.deep
  /\ \/ r.base = <<>> \/ Len(Rest(r.base, path)) > depth
     \/ \E k \in DOMAIN r.tail : r.tail[k] \in DOMAIN Wild

\* Many matches in the root have the working directory for their parent.
Misplaced(r, path, depth) ==
  /\ r.base = <<>> /\ ~Beneath(path, Cwd)
  /\ Cardinality(GlobMatches(asked.disk, r, depth)) > Threshold

Terminal(path) == On(policy, "pty") /\ \E t \in Terminals : Beneath(path, t)

\* What Landlock lets a command write without a rule whose text says where.
WritableAnyway(path) ==
  \/ Beneath(path, Tmp) \/ Terminal(path) \/ \E d \in Devices : Beneath(path, d)
  \/ \E a \in Rules(policy, "allow_write") : a.var # "/" /\ Beneath(path, Absolute(a))

\* Landlock leaves /proc out, and denials of writing where no rule allows it.
LandlockOmits(op, r, path) ==
  \/ NotSought(r, path, GlobDepth)
  \/ op # "exec" /\ IsProc(r)
  \/ op = "write" /\ WritableAnyway(path) /\ ~WithinWritable(policy, r)

\* A denial of writing mounts what it is about read-only, over what a denial of
\* reading has hidden; only what is denied both ways is hidden after that.
Reexposed(path) ==
  /\ \E m \in UNION {DenyWriteRule(asked.disk, w) \cup DenyRule(asked.disk, w) : w \in Denials("write")} :
       m.kind = "ro" /\ Beneath(path, m.at)
  /\ ~\E m \in HiddenDirs(asked.disk, MandatoryBoth(policy)) : Beneath(path, m.at)

\* A denial of writing is left out that every policy has, and that names what a
\* rule allows to be read: the mount of that is read-only, unless a writable one
\* comes over it.
LeftToReadRule(r, path) ==
  /\ r \in Rules(policy, "allow_read") \ Rules(policy, "deny_write")
  /\ \/ \E d \in Devices : Beneath(path, d)
     \/ \E a \in Rules(policy, "allow_write") :
          \E m \in WriteRule(asked.disk, a) : Beneath(path, m.at)

\* Bubblewrap binds the temporary directory last of all; it has no mount that
\* denies reads alone or the programs in a directory.
BubblewrapOmits(op, r, path) ==
  \/ Beneath(path, Tmp) \/ Terminal(path)
  \/ op # "exec" /\ (NotSought(r, path, ScanDepth) \/ Misplaced(r, path, ScanDepth))
  \/ op = "read" /\ \/ Reexposed(path)
                    \/ /\ r \notin Rules(policy, "deny_read")
                       /\ r \notin MandatoryWrite(policy) \ Rules(policy, "allow_read")
  \/ op = "write" /\ LeftToReadRule(r, path)
  \/ op = "exec" /\ path \notin asked.disk \cap (IF IsGlob(r) THEN Glob(asked.disk, r) ELSE {r.base})

\* Terminals come last on macOS too, and programs are named one by one.
SeatbeltOmits(op, r, path) ==
  \/ Terminal(path)
  \/ op = "exec" /\ ~IsGlob(r) /\ path # r.base

Omits(op, r, path) ==
  CASE compiled.driver = "landlock" -> LandlockOmits(op, r, path)
    [] compiled.driver = "bubblewrap" -> BubblewrapOmits(op, r, path)
    [] compiled.driver = "seatbelt" -> SeatbeltOmits(op, r, path)

\* A denial wins over whatever allows the same, on every platform, but for what
\* the platform cannot deny (docs/sandbox.md: "Deny rules win over allow rules
\* when both match"; the translators).
DenialsWin ==
  stage = "confined" =>
    \A path \in Existing(asked.disk), op \in {"read", "write", "exec"} :
      \A r \in Denials(op) :
        Matches(r, path) => Omits(op, r, path) \/ ~Permits(compiled, op, path)

\* What may stand against an allowance: the denials, of which those that every
\* policy has of a dangerous file give way to a rule that names the same file.
OptedOut(r) ==
  (Suppressible(FALSE) \cap {r})
    \cup {Anywhere(f) : f \in {g \in DangerousFiles : r \in {In(Cwd, g), In(Home, g)}}}
Opposed(op, r, path) ==
  \E d \in Rules(policy, DenyListOf[op]) \cup GitHooks \cup (Denials(op) \ OptedOut(r)) : Matches(d, path)

\* Denials take more with them than they name: what is beneath a path they find,
\* on bubblewrap the whole directory of "**" or of many matches, and with one
\* direction the other.
TakesIn(d, path) ==
  \/ Matches(d, path) \/ (IsGlob(d) /\ Beneath(path, Absolute(d)))
  \/ d.var # "/" /\ Beneath(path, d.base)
Collateral(op, path) ==
  LET under(paths) == \E q \in paths : Beneath(path, q)
  IN CASE compiled.driver = "landlock" ->
            \E d \in Denials(op) : IsGlob(d) /\ under(LandlockDenied(asked.disk, d))
       [] compiled.driver = "bubblewrap" ->
            \/ \E d \in Rules(policy, "deny_read") \cup Rules(policy, "deny_exec")
                         \cup IF op = "write" THEN Rules(policy, "deny_write") ELSE {} :
                 TakesIn(d, path)
            \/ \E d \in MandatoryWrite(policy) \ Rules(policy, "allow_read") :
                 IsGlob(d) /\ under(BwrapExpand(asked.disk, d, ScanDepth))
            \/ \E d \in MandatoryBoth(policy) : IsGlob(d) /\ under(Glob(asked.disk, d))
       [] compiled.driver = "seatbelt" -> FALSE

\* What a profile or an override allows, and nothing denies, a command can do,
\* however the platform has to spell it (the translators; docs/sandbox.md on
\* opting out of the mandatory denials).
AllowancesHold ==
  stage = "confined" =>
    /\ \A path \in Existing(asked.disk), op \in {"read", "write"} :
         \A r \in Rules(policy, AllowListOf[op]) :
           /\ Matches(r, path) /\ ~Opposed(op, r, path) /\ ~Collateral(op, path)
           /\ ~(compiled.driver # "seatbelt" /\ (NotSought(r, path, GlobDepth) \/ Misplaced(r, path, GlobDepth)))
           => Permits(compiled, op, path)
    /\ policy.rules["allow_outbound"] # {} /\ compiled.driver # "landlock" => compiled.network

\* The driver enforces the policy, neither more nor less than it can.
PolicyHolds == DenialsWin /\ AllowancesHold

\* The rules the linter calls dead, and the policy without them.  A rule counts for
\* more than the paths it is about if it opts out of what is always denied, or if
\* bubblewrap mounts what is relative, which it does in the root.
Dead(l) == {s.rule : s \in {t \in issues : t.code = "shadowed" /\ t.list = l}}
CountsAnyway(r) ==
  \/ r \in Suppressible(FALSE) \cup GitHooks
  \/ asked.driver = "bubblewrap" /\ r.var # "/" /\ ~IsGlob(r)
WithoutDead ==
  [policy EXCEPT !.rules =
     [l \in Lists |-> {r \in policy.rules[l] : r \notin Dead(l) \/ CountsAnyway(Expand(r))}]]

\* On Linux nothing is looked for from the root, not even if it has another name.
RootIsNamed == asked.driver # "seatbelt" /\ <<>> \in {Home, Cwd, Tmp}

\* No platform tells one host from another: a single outbound rule opens the network,
\* and Landlock leaves it open (docs/sandbox.md: "Network filtering").
NetworkOpen == compiled.driver = "landlock" \/ compiled.network

\* The rules the linter calls dead may go: without them a command can do the same
\* on every platform, unless the rule does more than to allow what it is about.
\* Of a path that is allowed and denied the denial wins, as it says (LintProfile:
\* "Dead rules", "deny takes precedence").  Of a host that is allowed and denied it
\* says so too, and there it never does: the network is open.  What `profile show`
\* renders is what a run would be confined to.
LintIsTrue ==
  stage = "linted" =>
    /\ compiled = Translate(asked.driver, policy, asked.disk)
    /\ \A path \in Existing(asked.disk), op \in {"read", "write", "exec"} :
         /\ \/ RootIsNamed
            \/ Permits(compiled, op, path) <=> Permits(Translate(asked.driver, WithoutDead, asked.disk), op, path)
         /\ \A s \in {t \in issues : t.code = "conflict" /\ t.list = AllowListOf[op]} :
              Matches(Expand(s.rule), path) => Omits(op, Expand(s.rule), path) \/ ~Permits(compiled, op, path)
    /\ \A s \in issues : s.code = "conflict" /\ s.list = "allow_outbound" => NetworkOpen
=============================================================================
