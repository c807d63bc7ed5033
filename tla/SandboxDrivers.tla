--------------------------- MODULE SandboxDrivers ---------------------------
(***************************************************************************)
(* The translators (sandbox/platform): what a policy becomes for Landlock,    *)
(* Bubblewrap and Seatbelt, and what each lets a command do with a path.      *)
(*                                                                         *)
(* Landlock has rules that allow what is beneath a path, and lists of         *)
(* denials.  Bubblewrap has layers of mounts, of which a later one hides an   *)
(* earlier one.  Seatbelt has rules in order, of which the last that matches  *)
(* decides.  Lists are sets where their order makes no difference; a mount    *)
(* that is left out because its parent is mounted alike is not left out.      *)
(***************************************************************************)
EXTENDS SandboxRules

CONSTANTS
  SystemPaths,     \* getEssentialSystemPaths
  ExecDirs,        \* Landlock: the system's directories of programs
  Devices,
  Terminals,       \* /dev/pts and /dev/ptmx
  TmpParents       \* GetTmpdirParent

ProgramDirs == {"bin", "sbin", "lib", "lib64"}

ASSUME DriversAssumption ==
  /\ \A p \in Devices \cup Terminals : IsPath(p)
  /\ \A d \in ProgramDirs : {<<d>>, <<"usr", d>>} \subseteq ExecDirs

Lists == {"allow_read", "allow_write", "deny_read", "deny_write", "allow_exec", "deny_exec",
          "allow_outbound", "deny_outbound", "allow_bind"}
On(policy, flag) == policy.flags[flag] = "true"
Rules(policy, list) == ExpandSlice(policy.rules[list])

Mandatory(policy, allowList) == MandatoryDeny(Rules(policy, allowList), On(policy, "git_config"))
MandatoryRead(policy)  == Mandatory(policy, "allow_read")
MandatoryWrite(policy) == Mandatory(policy, "allow_write")
MandatoryBoth(policy)  == MandatoryRead(policy) \cap MandatoryWrite(policy)

-----------------------------------------------------------------------------
(* Landlock.                                                                *)

IsProc(r) == r.var = "/" /\ IsPrefix(<<"proc">>, r.base)

\* landlockExpandPattern; a pattern that finds nothing allows nothing.
LandlockExpand(disk, r) ==
  LET found == GlobMatches(disk, r, GlobDepth)
  IN IF ~IsGlob(r) THEN {Absolute(r)}
     ELSE IF Cardinality(found) > Threshold THEN {GlobParent(r)} ELSE found

\* What is relative is compared with absolute paths, and denies nothing.
LandlockDenied(disk, r) ==
  IF r.var # "/" THEN {} ELSE IF IsGlob(r) THEN GlobMatches(disk, r, GlobDepth) ELSE {r.base}

\* landlockIsWithinWritableArea, by components, of what comes before a wildcard.
BeginsWith(r, s) ==
  IF s.base = <<>> THEN s.var # "/" \/ r.var = "/" ELSE s.var = r.var /\ IsPrefix(s.base, r.base)
WithinWritable(policy, r) ==
  \E a \in Rules(policy, "allow_write") : BeginsWith(r, a) \/ BeginsWith(a, r)

\* Both names of a directory whose /usr is merged.
UsrAlternate(path) ==
  CASE Len(path) > 1 /\ path[1] \in ProgramDirs -> {<<"usr">> \o path}
    [] Len(path) > 2 /\ path[1] = "usr" /\ path[2] \in ProgramDirs -> {Tail(path)}
    [] OTHER -> {}

ReadAccess  == {"read", "exec"}
WriteAccess == {"write"}
Allow(access, paths) == {[path |-> p, access |-> access] : p \in paths}

\* The system's programs, devices, terminals and the temporary directory.
LandlockSystemRules(policy) ==
  Allow(ReadAccess, ExecDirs \cup {<<"proc">>})
  \cup Allow(ReadAccess \cup WriteAccess,
             Devices \cup (IF On(policy, "pty") THEN Terminals ELSE {}))
  \cup Allow(WriteAccess, {Tmp})

LandlockRules(policy, disk) ==
  LET paths(list) == UNION {LandlockExpand(disk, r) : r \in Rules(policy, list)}
      execs == paths("allow_exec")
  IN Allow(ReadAccess, paths("allow_read") \cup execs \cup UNION {UsrAlternate(p) : p \in execs})
     \cup Allow(ReadAccess \cup WriteAccess, paths("allow_write"))
     \cup LandlockSystemRules(policy)

\* DenyPaths: what the policy denies, and what is always denied.
LandlockDenials(policy, disk) ==
  LET deny(mode, rules) ==
        {[path |-> p, mode |-> mode] : p \in UNION {LandlockDenied(disk, r) : r \in rules}}
  IN deny({"read"}, {r \in Rules(policy, "deny_read") : ~IsProc(r)})
     \cup deny({"write"}, {r \in Rules(policy, "deny_write") : ~IsProc(r) /\ WithinWritable(policy, r)})
     \cup deny({"read", "write"}, MandatoryBoth(policy))
     \cup deny({"read"}, MandatoryRead(policy) \ MandatoryBoth(policy))
     \cup deny({"write"}, MandatoryWrite(policy) \ MandatoryBoth(policy))

\* landlockPolicyExplicitlyAllowsProc
SkipPIDNamespace(policy) ==
  \E r \in Rules(policy, "allow_read") \cup Rules(policy, "allow_write") :
    IsProc(r) /\ ~IsPrefix(<<"proc", "self">>, r.base)

LandlockPolicy(policy, disk) ==
  [driver |-> "landlock",
   allow  |-> LandlockRules(policy, disk),
   deny   |-> LandlockDenials(policy, disk),
   noExec |-> UNION {LandlockDenied(disk, r) : r \in Rules(policy, "deny_exec")},
   sharedPids |-> SkipPIDNamespace(policy)]

\* isPathDenied, isExecDenied, and what Landlock does with its rules.
LandlockPermits(lp, op, path) ==
  /\ \E r \in lp.allow : IsPrefix(r.path, path) /\ op \in r.access
  /\ ~\E d \in lp.deny : IsPrefix(d.path, path) /\ op \in d.mode
  /\ op = "exec" => ~\E p \in lp.noExec : IsPrefix(p, path)

-----------------------------------------------------------------------------
(* Bubblewrap.                                                              *)

Mounts(kind, paths) == {[at |-> p, kind |-> kind] : p \in paths}

\* expandGlobPattern
BwrapExpand(disk, r, depth) ==
  LET found == GlobMatches(disk, r, depth)
  IN IF Cardinality(found) > Threshold THEN {GlobParent(r)} ELSE found

\* processReadRule
ReadRule(disk, r) == Mounts("ro", IF IsGlob(r) THEN BwrapExpand(disk, r, GlobDepth) ELSE {r.base})

\* processWriteRule: for what does not exist yet its parent becomes writable.
WriteRule(disk, r) ==
  LET creatable(p) == IF Exists(disk, p) \/ Len(p) <= 1 THEN p ELSE Front(p)
  IN Mounts("rw", IF IsGlob(r) THEN {creatable(p) : p \in BwrapExpand(disk, r, GlobDepth)}
                  ELSE {r.base})

Hide(disk, paths) ==
  Mounts("tmpfs", {p \in paths : IsDir(disk, p)}) \cup Mounts("null", paths \cap disk)

\* processDenyReadRule: of a rule with "**" the parent is hidden.
DenyReadRule(disk, r) ==
  CASE r.deep /\ r.base = <<>> -> {}
    [] r.deep /\ r.base # <<>> -> Hide(disk, {r.base})
    [] ~r.deep /\ IsGlob(r) -> Hide(disk, BwrapExpand(disk, r, ScanDepth))
    [] OTHER -> Hide(disk, {r.base})

\* processDenyWriteRule
DenyWriteRule(disk, r) ==
  Mounts("ro", {p \in IF IsGlob(r) THEN BwrapExpand(disk, r, ScanDepth) ELSE {r.base} :
                  Exists(disk, p)})

\* processDenyRule, of the mandatory denials: files are masked.
DenyRule(disk, r) ==
  LET paths == IF IsGlob(r) THEN BwrapExpand(disk, r, ScanDepth) ELSE {r.base}
  IN Mounts("ro", {p \in paths : IsDir(disk, p)}) \cup Mounts("null", paths \cap disk)

\* Credential directories that are denied both ways.
HiddenDirs(disk, rules) ==
  Mounts("tmpfs", {p \in UNION {IF IsGlob(r) THEN Glob(disk, r) ELSE {r.base} : r \in rules} :
                     IsDir(disk, p)})

DenyExecRule(disk, r) == Mounts("null", (IF IsGlob(r) THEN Glob(disk, r) ELSE {r.base}) \cap disk)

\* Fault: the writable mounts come after those of the denials.
BwrapFilesystemWritableLast(policy, disk) ==
  LET each(rule(_, _), rules) == UNION {rule(disk, r) : r \in rules}
  IN << each(ReadRule, Rules(policy, "allow_read")),
        each(DenyReadRule, Rules(policy, "deny_read")),
        each(DenyWriteRule, Rules(policy, "deny_write")),
        each(DenyRule, MandatoryWrite(policy) \ Rules(policy, "allow_read")),
        HiddenDirs(disk, MandatoryBoth(policy)),
        each(DenyExecRule, Rules(policy, "deny_exec")),
        each(WriteRule, Rules(policy, "allow_write")) >>

\* translateFilesystem; allow_read protects what it names from writes already.
BwrapFilesystem(policy, disk) ==
  LET each(rule(_, _), rules) == UNION {rule(disk, r) : r \in rules}
  IN << each(ReadRule, Rules(policy, "allow_read")),
        each(WriteRule, Rules(policy, "allow_write")),
        each(DenyReadRule, Rules(policy, "deny_read")),
        each(DenyWriteRule, Rules(policy, "deny_write")),
        each(DenyRule, MandatoryWrite(policy) \ Rules(policy, "allow_read")),
        HiddenDirs(disk, MandatoryBoth(policy)),
        each(DenyExecRule, Rules(policy, "deny_exec")) >>

\* shouldUnshareNetwork, with its default.
UnshareNetwork(policy) == policy.rules["allow_outbound"] = {}

BwrapEssential ==
  Mounts("ro", SystemPaths) \cup Mounts("dev", Devices) \cup Mounts("proc", {<<"proc">>})

\* addPTYSupport and addTmpdirSupport, which come last.
BwrapTerminals(policy) == IF On(policy, "pty") THEN << Mounts("dev", Terminals) >> ELSE <<>>
BwrapTmpdir == << Mounts("rw", {Tmp}) >>

BwrapPolicy(policy, disk) ==
  [driver  |-> "bubblewrap",
   layers  |-> << BwrapEssential >> \o BwrapFilesystem(policy, disk)
               \o BwrapTerminals(policy) \o BwrapTmpdir,
   network |-> ~UnshareNetwork(policy)]

\* What the mount that a path ends up on allows; without one it is not there.
Grants ==
  [kind \in {"ro", "rw", "null", "tmpfs", "dev", "proc"} |->
     CASE kind = "ro" -> {"read", "exec"} [] kind = "rw" -> {"read", "write", "exec"}
       [] kind = "dev" -> {"read", "write"} [] kind = "proc" -> {"read"} [] OTHER -> {}]

BwrapPermits(bp, op, path) ==
  LET over(n) == {m \in bp.layers[n] : IsPrefix(m.at, path)}
      covering == {n \in DOMAIN bp.layers : over(n) # {}}
      n == CHOOSE k \in covering : \A l \in covering : l <= k
  IN covering # {} /\ \A m \in over(n) : op \in Grants[m.kind]

-----------------------------------------------------------------------------
(* Seatbelt.                                                                *)

Verdict(allow, op, kind, rules) == [allow |-> allow, op |-> op, kind |-> kind, rules |-> rules]

SeatbeltSystem ==
  << Verdict(TRUE, "exec", "subpath", {Literal("/", <<>>)}),
     Verdict(TRUE, "read", "subpath", {Literal("/", <<"dev">>), Literal("/", <<"etc">>)}) >>

\* Of a rule with "/**" the parent is allowed besides.
SeatbeltAllowances(policy) ==
  << Verdict(TRUE, "read", "below", Rules(policy, "allow_read")),
     Verdict(TRUE, "write", "subpath",
             IF policy.rules["allow_write"] = {} THEN {} ELSE {Literal("/", p) : p \in TmpParents}),
     Verdict(TRUE, "write", "below", Rules(policy, "allow_write")) >>

SeatbeltDenials(policy) ==
  << Verdict(FALSE, "read", "subpath", Rules(policy, "deny_read")),
     Verdict(FALSE, "write", "subpath", Rules(policy, "deny_write")),
     Verdict(FALSE, "write", "subpath", MandatoryWrite(policy)),
     Verdict(FALSE, "read", "subpath", MandatoryRead(policy)) >>

\* translateProcess: programs are named exactly.
SeatbeltPrograms(policy) ==
  << Verdict(TRUE, "exec", "literal", Rules(policy, "allow_exec")),
     Verdict(FALSE, "exec", "literal", Rules(policy, "deny_exec")) >>

SeatbeltTerminals(policy) ==
  IF On(policy, "pty")
  THEN << Verdict(TRUE, "read", "subpath", {Literal("/", p) : p \in Terminals}),
          Verdict(TRUE, "write", "subpath", {Literal("/", p) : p \in Terminals}) >>
  ELSE <<>>

\* translateNetwork: there is no filter by host.
SeatbeltOutbound(policy) == policy.rules["allow_outbound"] # {}
SeatbeltBind(policy) == On(policy, "network_bind") \/ policy.rules["allow_bind"] # {}

SeatbeltPolicy(policy) ==
  [driver  |-> "seatbelt",
   rules   |-> SeatbeltSystem \o SeatbeltAllowances(policy) \o SeatbeltDenials(policy)
               \o SeatbeltPrograms(policy) \o SeatbeltTerminals(policy),
   network |-> SeatbeltOutbound(policy), bind |-> SeatbeltBind(policy)]

Concerns(verdict, path) ==
  \E r \in verdict.rules :
    CASE verdict.kind = "literal" -> Matches(r, path) /\ (IsGlob(r) \/ path = r.base)
      [] verdict.kind = "below" ->
           Matches(r, path) \/ (r.var = "/" /\ r.deep /\ r.tail = <<>> /\ path = r.base)
      [] OTHER -> Matches(r, path)

SeatbeltPermits(sp, op, path) ==
  LET about == {n \in DOMAIN sp.rules : sp.rules[n].op = op /\ Concerns(sp.rules[n], path)}
      n == CHOOSE k \in about : \A l \in about : l <= k
  IN about # {} /\ sp.rules[n].allow

-----------------------------------------------------------------------------

Translate(driver, policy, disk) ==
  CASE driver = "landlock" -> LandlockPolicy(policy, disk)
    [] driver = "bubblewrap" -> BwrapPolicy(policy, disk)
    [] driver = "seatbelt" -> SeatbeltPolicy(policy)

Permits(compiled, op, path) ==
  CASE compiled.driver = "landlock" -> LandlockPermits(compiled, op, path)
    [] compiled.driver = "bubblewrap" -> BwrapPermits(compiled, op, path)
    [] compiled.driver = "seatbelt" -> SeatbeltPermits(compiled, op, path)
=============================================================================
