---------------------------- MODULE SandboxRules ----------------------------
(***************************************************************************)
(* The rules of a sandbox policy: what their text expands to, which paths    *)
(* they are about, and what globs find on disk (sandbox/util, sandbox/        *)
(* platform/glob_linux.go), with the denials every policy has                *)
(* (sandbox/util/dangerous.go).                                             *)
(*                                                                         *)
(* A path is the sequence of its components.  The text of a rule is the      *)
(* variable it begins with, "/" or nothing, the components up to the first    *)
(* wildcard, whether "**" comes next, and the components behind.             *)
(***************************************************************************)
EXTENDS Naturals, Sequences, FiniteSets, SequencesExt

CONSTANTS
  Home, Cwd, Tmp,   \* the paths of the variables HOME, CWD and TMPDIR
  Wild,             \* for each component with a wildcard, the names it fits
  DangerousFiles,   \* of those in the home directory or the project: <<base, tail>>
  GlobDepth,        \* how far "**" is followed for what is allowed
  ScanDepth,        \* and by bubblewrap for what is denied
  Threshold         \* the number of matches above which the parent stands for them

\* Paths, rules and the files of a disk as they are given.
IsPath(s) == Len(s) \in Nat /\ s = [i \in 1..Len(s) |-> s[i]]
IsRule(r) ==
  /\ r = [var |-> r.var, base |-> r.base, deep |-> r.deep, tail |-> r.tail]
  /\ IsPath(r.base) /\ r.deep \in BOOLEAN /\ IsPath(r.tail)

ASSUME RulesAssumption ==
  /\ IsPath(Home) /\ IsPath(Cwd) /\ IsPath(Tmp)
  /\ \A f \in DangerousFiles : IsPath(f.base) /\ IsPath(f.tail)
  /\ GlobDepth \in Nat /\ ScanDepth \in Nat /\ Threshold \in Nat

RuleText(var, base, deep, tail) == [var |-> var, base |-> base, deep |-> deep, tail |-> tail]
Literal(var, base) == RuleText(var, base, FALSE, <<>>)
Below(var, base)   == RuleText(var, base, TRUE, <<>>)
IsGlob(r) == r.deep \/ r.tail # <<>>
Absolute(r) == IF r.var = "/" THEN r.base ELSE Cwd \o r.base

SupportedVariables == {"HOME", "CWD", "TMPDIR"}

\* ExpandVariablesWith: another variable stays in the text, which is relative then.
Expand(text) ==
  CASE text.var = "HOME" -> [text EXCEPT !.var = "/", !.base = Home \o @]
    [] text.var = "CWD" -> [text EXCEPT !.var = "/", !.base = Cwd \o @]
    [] text.var = "TMPDIR" -> [text EXCEPT !.var = "/", !.base = Tmp \o @]
    [] text.var \in {"/", ""} -> text
    [] OTHER -> [text EXCEPT !.var = "", !.base = <<text.var>> \o @]

ExpandSlice(texts) == {Expand(t) : t \in texts}

-----------------------------------------------------------------------------
(* What a rule is about.                                                    *)

Fits(pattern, names) ==
  /\ Len(pattern) = Len(names)
  /\ \A k \in 1..Len(pattern) :
       pattern[k] = names[k] \/ (pattern[k] \in DOMAIN Wild /\ names[k] \in Wild[pattern[k]])

Rest(base, path) == SubSeq(path, Len(base) + 1, Len(path))
LastOf(path, n)  == SubSeq(path, Len(path) - n + 1, Len(path))

\* GlobToRegex; a rule without wildcards is about all that is beneath it, one that
\* is relative about nothing, unless it begins with "**".
Matches(r, path) ==
  /\ r.var = "/" \/ (r.deep /\ r.base = <<>>)
  /\ IsPrefix(r.base, path)
  /\ LET rest == Rest(r.base, path)  n == Len(r.tail)
     IN CASE ~IsGlob(r) -> TRUE
          [] ~r.deep /\ r.tail # <<>> -> Fits(r.tail, rest)
          [] r.deep /\ r.tail = <<>> -> rest # <<>>
          [] OTHER -> Len(rest) >= n /\ Fits(r.tail, LastOf(rest, n))

-----------------------------------------------------------------------------
(* The disk, as the set of its files.                                       *)

Existing(disk) == UNION {{SubSeq(f, 1, n) : n \in 0..Len(f)} : f \in disk}
Exists(disk, path) == \E f \in disk : IsPrefix(path, f)
IsDir(disk, path)  == \E f \in disk : IsStrictPrefix(path, f)

\* walkGlobWithDepthLimit: wildcards behind "**" are taken literally.
WalkGlob(disk, r, depth) ==
  {p \in Existing(disk) :
     /\ IsPrefix(Absolute(r), p) /\ Len(p) - Len(Absolute(r)) <= depth
     /\ IsSuffix(r.tail, p)}

\* expandGlobstarPattern: what does not exist yet is found itself, and nothing
\* is looked for from the root.
ExpandGlobstar(disk, r, depth) ==
  IF r.base = <<>> THEN {}
  ELSE IF ~Exists(disk, Absolute(r)) THEN {Absolute(r)}
  ELSE WalkGlob(disk, r, depth)

\* filepath.Glob, to which "**" is any one component.
Glob(disk, r) ==
  LET base == Absolute(r)
      n    == Len(r.tail)
      fits(rest) == IF r.deep THEN Len(rest) = n + 1 /\ Fits(r.tail, LastOf(rest, n))
                    ELSE Fits(r.tail, rest)
  IN {p \in Existing(disk) : IsPrefix(base, p) /\ fits(Rest(base, p))}

GlobMatches(disk, r, depth) ==
  IF r.deep THEN ExpandGlobstar(disk, r, depth) ELSE Glob(disk, r)

\* extractGlobParentDir: the root becomes ".".
GlobParent(r) == IF r.base = <<>> THEN Cwd ELSE Absolute(r)

-----------------------------------------------------------------------------
(* GetMandatoryDenyPatterns.                                                *)

In(dir, f)   == RuleText("/", dir \o f.base, FALSE, f.tail)
Anywhere(f)  == RuleText("", <<>>, TRUE, f.base \o f.tail)
GitConfig    == {Literal("/", d \o <<".git", "config">>) : d \in {Cwd, Home}}

Suppressible(allowGitConfig) ==
  (IF allowGitConfig THEN {} ELSE GitConfig)
    \cup UNION {{In(Cwd, f), Anywhere(f), In(Home, f)} : f \in DangerousFiles}

\* Of one direction: those named, and "**/<file>" of a file that is named.
Suppressed(allowed, allowGitConfig) ==
  Suppressible(allowGitConfig)
    \cap (allowed \cup {Anywhere(f) : f \in {g \in DangerousFiles :
                                              In(Cwd, g) \in allowed \/ In(Home, g) \in allowed}})

GitHooks ==
  UNION {{Literal("/", d \o <<".git", "hooks">>), Below("/", d \o <<".git", "hooks">>)} :
           d \in {Cwd, Home}}

MandatoryDeny(allowed, allowGitConfig) ==
  (Suppressible(allowGitConfig) \ Suppressed(allowed, allowGitConfig)) \cup GitHooks
=============================================================================
