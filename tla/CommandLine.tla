----------------------------- MODULE CommandLine -----------------------------
(***************************************************************************)
(* From the words a user types after "pmg" to the flow that runs them        *)
(* (cmd/npm, cmd/pypi, cmd/executors; packagemanager/npm.go, npm_executor.go, *)
(* pypi.go, packagemanager.go): the packages are found among the arguments   *)
(* of the package manager, those of PyPI get the version the registry has    *)
(* for them, and the command is handed to the flow that is configured.       *)
(*                                                                         *)
(* An argument is a flag with or without a value attached, or a word; a text *)
(* is that of PackageSpecs.                                                  *)
(***************************************************************************)
EXTENDS PackageSpecs

CONSTANTS
  CommandLines,  \* [manager, args, asked], asked being what the package manager is asked
  Releases,      \* the versions PyPI has of every package
  Requires,      \* what a package of PyPI requires: [name, extra]
  Settings       \* [proxy, installOnly, skip, sandbox, always]

VARIABLES
  cpc,       \* where the command is
  line,
  setting,
  parsed,    \* the ParsedCommand
  bounds,    \* of each target: what its version has to meet yet
  needs,     \* of each target: the dependencies the resolver learns of
  handed     \* the flow, and whether the sandbox is on

commandVars == <<cpc, line, setting, parsed, bounds, needs, handed>>

NoFlag == ""

Typed(text)          == [flag |-> NoFlag, text |-> text]
Flag(flag)           == [flag |-> flag, text |-> <<>>]
Assigned(flag, text) == [flag |-> flag, text |-> text]

-----------------------------------------------------------------------------
(* The package managers.                                                    *)

Manager(own, install, harmless, valued) ==
  [own |-> own, install |-> install, harmless |-> harmless, valued |-> valued]

NpmConfig == Manager({"npm"}, {"install", "i", "add"},
  {"uninstall", "remove", "rm", "r", "un", "unlink", "rebuild", "prune", "link", "cache", "pack",
   "ls", "list", "outdated", "view", "info", "show", "search", "config", "ping", "whoami",
   "version", "help"}, {"--save-dev", "-D"})
PnpmConfig == Manager({"pnpm"}, {"install", "i", "add"},
  {"remove", "rm", "uninstall", "un", "prune", "link", "unlink", "ls", "list", "outdated", "info",
   "view", "config", "why"}, {"--save-dev", "-D"})
BunConfig == Manager({"bun"}, {"install", "i", "add", "ci"}, {"remove", "rm"}, {"--dev", "-d"})
YarnConfig == Manager({"yarn"}, {"install", "add", ""},
  {"remove", "unlink", "ls", "list", "outdated", "info", "config", "why"}, {"--dev", "-D"})
NpxConfig  == Manager({"npx", "pnpx"}, {}, {}, {"--package", "-p"})
PnpxConfig == Manager({"npx", "pnpx"}, {}, {}, {"--package"})
PipConfig  == Manager({"pip", "pip3"}, {"install"},
  {"uninstall", "list", "show", "check", "freeze", "config"}, {"--requirement", "-r"})
UvConfig     == Manager({"uv"}, {"add", "install"}, {}, {"--requirement", "-r"})
PoetryConfig == Manager({"poetry"}, {"add"}, {"remove", "show", "config", "check"}, {})

Config(manager) ==
  CASE manager = "npm" -> NpmConfig   [] manager = "pnpm" -> PnpmConfig
    [] manager = "bun" -> BunConfig   [] manager = "yarn" -> YarnConfig
    [] manager = "npx" -> NpxConfig   [] manager = "pnpx" -> PnpxConfig
    [] manager \in {"pip", "pip3"} -> PipConfig
    [] manager = "uv" -> UvConfig     [] manager = "poetry" -> PoetryConfig

Npms      == {"npm", "pnpm", "bun", "yarn"}
Executors == {"npx", "pnpx"}
Pypis     == {"pip", "pip3", "uv", "poetry"}

Is(arg, words) == arg.flag = NoFlag /\ arg.text \in {<<w>> : w \in words}

\* The first argument may be the package manager itself.
OwnArgs(config, args) ==
  IF args # <<>> /\ Is(args[1], config.own) THEN Tail(args) ELSE args

\* The install command is looked for in every argument.
InstallAt(config, args) == SelectInSeq(args, LAMBDA a : Is(a, config.install))

\* Fault: every argument is compared with the list.
AnyWordInList(args, words) == \E i \in DOMAIN args : Is(args[i], words)

\* IsFirstNonFlagArgInList
FirstWordInList(args, words) ==
  LET i == SelectInSeq(args, LAMBDA a : a.flag = NoFlag) IN i # 0 /\ Is(args[i], words)

-----------------------------------------------------------------------------
(* github.com/spf13/pflag, with unknown flags allowed: one takes the word that  *)
(* follows for its value.                                                   *)

Fresh == [wants |-> FALSE, skip |-> FALSE, plain |-> FALSE, failed |-> FALSE,
          words |-> <<>>, values |-> <<>>]

Helps == {"--help", "-h"}

\* The text of an argument that is taken for a value.
TextOf(arg) == IF arg.flag = NoFlag THEN arg.text ELSE <<arg.flag>>

ScanFlag(s, arg, valued, switches) ==
  IF arg.flag = "--" THEN [s EXCEPT !.plain = TRUE]
  ELSE IF arg.flag \in Helps THEN [s EXCEPT !.failed = TRUE]
  ELSE IF arg.flag \in valued
  THEN IF arg.text = <<>> THEN [s EXCEPT !.wants = TRUE] ELSE [s EXCEPT !.values = Append(@, arg.text)]
  ELSE IF arg.flag \in switches THEN s ELSE [s EXCEPT !.skip = arg.text = <<>>]

Scan(s, arg, valued, switches) ==
  IF s.failed THEN s
  ELSE IF s.plain THEN [s EXCEPT !.words = Append(@, TextOf(arg))]
  ELSE IF s.wants THEN [s EXCEPT !.wants = FALSE, !.values = Append(@, TextOf(arg))]
  ELSE IF arg.flag # NoFlag THEN ScanFlag([s EXCEPT !.skip = FALSE], arg, valued, switches)
  ELSE IF s.skip THEN [s EXCEPT !.skip = FALSE]
  ELSE [s EXCEPT !.words = Append(@, arg.text)]

\* FlagSet.Parse: a flag that still wants its value fails it.
ParseFlags(args, valued, switches) ==
  LET s[i \in 0..Len(args)] ==
        IF i = 0 THEN Fresh ELSE Scan(s[i - 1], args[i], valued, switches)
      end == s[Len(args)]
  IN [end EXCEPT !.failed = @ \/ end.wants]

-----------------------------------------------------------------------------
(* ParseCommand.                                                            *)

PlainCommand == [failed |-> FALSE, targets |-> <<>>, manifest |-> FALSE, files |-> {},
                 harmless |-> FALSE]
Refused == [PlainCommand EXCEPT !.failed = TRUE]

NpmTarget(spec) ==
  [name |-> spec.name, extras |-> {}, explicit |-> spec.version # Blank,
   version |-> IF spec.version = Blank THEN <<>> ELSE <<NpmCleanVersion(spec.version)>>]

\* The targets of some texts; one that cannot be read refuses the command.
NpmTargets(texts, manifest) ==
  LET specs == [i \in DOMAIN texts |-> NpmParsePackageInfo(texts[i])]
  IN IF \E i \in DOMAIN specs : ~specs[i].ok THEN Refused
     ELSE [PlainCommand EXCEPT !.manifest = manifest,
                               !.targets = [i \in DOMAIN specs |-> NpmTarget(specs[i])]]

ParseNpmCommand(manager, typed) ==
  LET config == Config(manager)
      args   == OwnArgs(config, typed)
      at     == InstallAt(config, args)
      flags  == ParseFlags(SubSeq(args, at + 1, Len(args)), config.valued, {"--global", "-g"})
  IN CASE args = <<>> -> [PlainCommand EXCEPT !.manifest = manager = "yarn"]
       [] args # <<>> /\ at = 0 ->
            [PlainCommand EXCEPT !.harmless = FirstWordInList(args, config.harmless)]
       [] at # 0 /\ flags.failed -> PlainCommand
       [] at # 0 /\ ~flags.failed /\ manager = "yarn" /\ Is(args[at], {"install"})
              /\ flags.words # <<>> -> PlainCommand
       [] OTHER -> NpmTargets(flags.words \o flags.values, flags.words = <<>>)

\* Fault: the first word is not taken for a package beside any other.
ParseExecutorFirstOnly(manager, typed) ==
  LET config == Config(manager)
      flags  == ParseFlags(OwnArgs(config, typed), config.valued, {})
  IN IF flags.failed THEN PlainCommand ELSE NpmTargets(flags.values, FALSE)

IsScoped(text) == text[1] = Blank /\ Len(text) > 1

\* The packages the flags name, and after them the scoped words.
WithScoped(values, words) ==
  LET packages[i \in 0..Len(words)] ==
        IF i = 0 THEN values
        ELSE IF IsScoped(words[i]) /\ words[i] \notin ToSet(packages[i - 1])
             THEN Append(packages[i - 1], words[i]) ELSE packages[i - 1]
  IN packages[Len(words)]

\* npmPackageExecutor: every scoped word is a package, and the first word if there
\* is no other.
ParseExecutorCommand(manager, typed) ==
  LET config == Config(manager)
      flags  == ParseFlags(OwnArgs(config, typed), config.valued, {})
      packages == WithScoped(flags.values, flags.words)
  IN IF flags.failed THEN PlainCommand
     ELSE NpmTargets(IF packages = <<>> /\ flags.words # <<>> THEN <<flags.words[1]>>
                     ELSE packages, FALSE)

\* A target of PyPI has its version from ResolveVersion.
PypiTarget(spec, more) ==
  [name |-> spec.name, extras |-> spec.extras, version |-> <<>>,
   explicit |-> spec.constraint # <<>> \/ more # {}]

PypiSpecs(manager, texts) ==
  [i \in DOMAIN texts |->
     IF manager = "poetry" THEN PoetrySpec(texts[i])
     ELSE [spec |-> PypiParsePackageInfo(texts[i]), bounds |-> {}]]

Lockfile(name) == [PlainCommand EXCEPT !.manifest = TRUE, !.files = {<<name>>}]

\* uvCommandParser and poetryCommandParser: what installs from a lockfile.
FromLockfile(manager, args) ==
  CASE manager = "uv" /\ args # <<>> /\ Is(args[1], {"sync"}) -> Lockfile("uv.lock")
    [] manager = "uv" /\ Len(args) >= 3 /\ Is(args[1], {"pip"}) /\ Is(args[2], {"sync"}) ->
         [PlainCommand EXCEPT !.manifest = TRUE, !.files = {TextOf(args[3])}]
    [] manager = "poetry" /\ args # <<>> /\ Is(args[1], {"install"}) -> Lockfile("poetry.lock")
    [] OTHER -> PlainCommand

PypiTexts(manager, typed) ==
  LET config == Config(manager)
      args   == OwnArgs(config, typed)
      at     == InstallAt(config, args)
  IN [args |-> args, at |-> at,
      flags |-> ParseFlags(SubSeq(args, at + 1, Len(args)), config.valued, {})]

ParsePypiCommand(manager, typed) ==
  LET t     == PypiTexts(manager, typed)
      lock  == FromLockfile(manager, t.args)
      specs == PypiSpecs(manager, t.flags.words)
  IN CASE lock.manifest -> lock
       [] ~lock.manifest /\ t.at = 0 ->
            [PlainCommand EXCEPT !.harmless = FirstWordInList(t.args, Config(manager).harmless)]
       [] ~lock.manifest /\ t.at # 0 /\ t.flags.failed -> PlainCommand
       [] OTHER ->
            IF \E i \in DOMAIN specs : ~specs[i].spec.ok THEN Refused
            ELSE [PlainCommand EXCEPT
                    !.targets = [i \in DOMAIN specs |-> PypiTarget(specs[i].spec, specs[i].bounds)],
                    !.manifest = t.flags.values # <<>>,
                    !.files = ToSet(t.flags.values)]

-----------------------------------------------------------------------------
(* What a command line asks: [downloads, packages, manifest, parts], a package  *)
(* being [name, extras, version, ranges] with ranges [op, version], and parts    *)
(* what the package manager takes each argument behind its command for.         *)

Agree(k, v, w) == \A i \in 1..k : At(v, i) = At(w, i)
FirstNonZero(v) ==
  LET at == {i \in DOMAIN v : v[i] # 0}
  IN IF at = {} THEN Len(v) ELSE CHOOSE i \in at : \A j \in at : i <= j

Allows(range, v) ==
  LET w == range.version
  IN CASE range.op = "^"  -> ~Before(v, w) /\ Agree(FirstNonZero(w), v, w)
       [] range.op = "~"  -> ~Before(v, w) /\ Agree(IF Len(w) > 1 THEN 2 ELSE 1, v, w)
       [] range.op = "~=" -> ~Before(v, w) /\ Agree(Len(w) - 1, v, w)
       [] range.op = "*"  -> Agree(Len(w), v, w)
       [] range.op = "==" -> Same(v, w)
       [] OTHER -> Meets(v, range)

Texts     == Seq(STRING) \ {<<>>}
Arguments == [flag : STRING \ {NoFlag}, text : Seq(STRING)] \cup [flag : {NoFlag}, text : Texts]

\* npm: a name, which may have a scope, and a version behind an "@".
NamedByNpm(text, p) ==
  /\ p.extras = {} /\ p.name \in Texts
  /\ \/ Len(p.name) = 1 /\ p.name[1] # Blank
     \/ Len(p.name) = 2 /\ p.name[1] = Blank
  /\ \/ text = p.name /\ p.version = <<>>
     \/ /\ Len(text) = Len(p.name) + 1 /\ Last(text) # Blank
        /\ text = Append(p.name, Last(text)) /\ p.version = <<NpmCleanVersion(Last(text))>>

Brackets == {LeftBracket, RightBracket}

\* pip: a name, extras in brackets, and ranges; "==" and "~=" stand alone.
NamedByPip(text, name, extras, ranges) ==
  \E a, b \in DOMAIN text :
    /\ name = SubSeq(text, 1, a) /\ \A i \in 1..a : text[i] \notin Operators \cup Brackets
    /\ \/ a = b /\ extras = {}
       \/ /\ a + 1 < b /\ text[a + 1] = LeftBracket /\ text[b] = RightBracket
          /\ \A i \in a + 2..b - 1 : text[i] \notin Brackets
          /\ extras = {text[i] : i \in a + 2..b - 1} \ {Comma}
    /\ b < Len(text) => text[b + 1] \in Operators
    /\ \A i \in b + 1..Len(text) :
         /\ text[i] \notin Brackets
         /\ text[i] \in Operators =>
              /\ i < Len(text) /\ text[i + 1] \in DOMAIN Numbers
              /\ text[i] \in {"==", "~="} => i = b + 1 /\ Len(text) = b + 2
              /\ text[i] = "==" => Numbers[text[i + 1]] # <<>>
              /\ text[i] = "~=" => Len(Numbers[text[i + 1]]) \in 2..4
    /\ ranges = {[op |-> text[i], version |-> Numbers[text[i + 1]]] :
                   i \in {j \in b + 1..Len(text) : text[j] \in Operators}}

PoetryOperators == {"^", "~", "*"}

\* Poetry: also one range of its own, with or without an "@"; not "^0" and "^0.0".
NamedByPoetry(text, p) ==
  \/ /\ \A i \in DOMAIN text : text[i] \notin PoetryOperators
     /\ NamedByPip(text, p.name, p.extras, p.ranges)
  \/ \E at \in 2..Len(text) :
       /\ at + 1 = Len(text) /\ text[at] \in PoetryOperators /\ text[at + 1] \in DOMAIN Numbers
       /\ \A i \in 1..at - 1 : text[i] \notin PoetryOperators
       /\ NamedByPip(SubSeq(text, 1, IF text[at - 1] = "@" THEN at - 2 ELSE at - 1),
                     p.name, p.extras, {})
       /\ p.ranges = {[op |-> text[at], version |-> Numbers[text[at + 1]]]}
       /\ LET w == Numbers[text[at + 1]]
          IN /\ text[at] = "^" => Len(w) > 0 /\ (w[1] = 0 => Len(w) = 3 \/ (Len(w) = 2 /\ w[2] # 0))
             /\ text[at] = "~" => Len(w) > 0
             /\ text[at] = "*" => Len(w) < 3

NamedBy(manager, text, p) ==
  CASE manager \in Npms \cup Executors -> NamedByNpm(text, p)
    [] manager = "poetry" -> NamedByPoetry(text, p)
    [] manager \in {"pip", "pip3", "uv"} -> NamedByPip(text, p.name, p.extras, p.ranges)

Refuses(manager, text) ==
  CASE manager \in Npms \cup Executors -> ~NpmParsePackageInfo(text).ok
    [] manager = "poetry" -> ~PoetrySpec(text).spec.ok
    [] manager \in {"pip", "pip3", "uv"} -> ~PypiParsePackageInfo(text).ok

\* Texts and packages name each other; of texts that PMG refuses nothing is said.
AllNamed(manager, texts, packages) ==
  \/ \E t \in texts : Refuses(manager, t)
  \/ /\ \A t \in texts : \E p \in packages : NamedBy(manager, t, p)
     /\ \A p \in packages : \E t \in texts : NamedBy(manager, t, p)

Parts == {"word", "takes", "value", "holds", "switch", "end", "help"}

\* An argument is a word, a flag, with or without its value, or the value of the one
\* before it.  No flag that PMG does not know has a word behind it, for which PMG takes
\* it for the flag's value.
TakenFor(args, parts, valued, switches) ==
  /\ parts \in [DOMAIN args -> Parts]
  /\ \A i \in DOMAIN args :
       LET arg == args[i]  before == {parts[j] : j \in 1..i - 1}
       IN \/ "help" \in before
          \/ i > 1 /\ parts[i - 1] = "takes" /\ parts[i] = "value"
          \/ /\ i = 1 \/ parts[i - 1] # "takes"
             /\ parts[i] = "word" /\ (arg.flag = NoFlag \/ "end" \in before)
          \/ /\ i = 1 \/ parts[i - 1] # "takes"
             /\ "end" \notin before
             /\ \/ parts[i] = "end" /\ arg.flag = "--"
                \/ parts[i] = "help" /\ arg.flag \in Helps
                \/ parts[i] = "takes" /\ arg.flag \in valued /\ arg.text = <<>>
                \/ parts[i] = "holds" /\ arg.flag \in valued /\ arg.text # <<>>
                \/ /\ parts[i] = "switch" /\ arg.flag \notin valued \cup Helps \cup {NoFlag, "--"}
                   /\ \/ arg.flag \in switches \/ arg.text # <<>>
                      \/ i = Len(args) \/ args[i + 1].flag # NoFlag

NoPackages(parts) == "help" \in ToSet(parts) \/ (parts # <<>> /\ Last(parts) = "takes")

WordsIn(args, parts)  == {TextOf(args[i]) : i \in {j \in DOMAIN args : parts[j] = "word"}}
ValuesIn(args, parts) == {TextOf(args[i]) : i \in {j \in DOMAIN args : parts[j] = "value"}}
                         \cup {args[i].text : i \in {j \in DOMAIN args : parts[j] = "holds"}}

AsksNothing(asked) == asked.packages = {} /\ ~asked.manifest

\* The package manager's command is its first word.
Runs(args, words) ==
  \E i \in DOMAIN args : Is(args[i], words) /\ \A j \in 1..i - 1 : args[j].flag # NoFlag

\* No install command: what is harmless downloads nothing.
AsksOther(config, args, asked) ==
  /\ \A i \in DOMAIN args : ~Is(args[i], config.install)
  /\ AsksNothing(asked) /\ (asked.downloads => ~Runs(args, config.harmless))

InstallsAt(config, args, at) ==
  Is(args[at], config.install) /\ \A i \in 1..at - 1 : ~Is(args[i], config.install)

\* yarn has no install with packages.
AsksNpm(manager, config, args, asked) ==
  \/ args = <<>> /\ asked.packages = {} /\ asked.manifest = (manager = "yarn")
  \/ args # <<>> /\ AsksOther(config, args, asked)
  \/ \E at \in DOMAIN args :
       LET behind == SubSeq(args, at + 1, Len(args))
           words  == WordsIn(behind, asked.parts)
           texts  == words \cup ValuesIn(behind, asked.parts)
       IN /\ InstallsAt(config, args, at)
          /\ TakenFor(behind, asked.parts, config.valued, {"--global", "-g"})
          /\ IF \/ NoPackages(asked.parts)
                \/ manager = "yarn" /\ Is(args[at], {"install"}) /\ words # {}
             THEN AsksNothing(asked)
             ELSE AllNamed(manager, texts, asked.packages) /\ asked.manifest = (texts = {})

\* The first word is what is run, and a package unless flags name those; with a scope
\* it is one anyhow.  What is run has no words with a scope behind it.
AsksExecutor(manager, config, args, asked) ==
  LET words   == WordsIn(args, asked.parts)
      values  == ValuesIn(args, asked.parts)
      run     == {TextOf(args[i]) : i \in {j \in DOMAIN args :
                    asked.parts[j] = "word" /\ \A k \in 1..j - 1 : asked.parts[k] # "word"}}
  IN /\ TakenFor(args, asked.parts, config.valued, {}) /\ ~asked.manifest
     /\ IF NoPackages(asked.parts) THEN asked.packages = {}
        ELSE /\ \A t \in words \ run : ~IsScoped(t)
             /\ AllNamed(manager, values \cup {t \in run : IsScoped(t) \/ values = {}},
                         asked.packages)

IsLocked(manager, args) ==
  /\ args # <<>>
  /\ \/ manager = "uv" /\ Is(args[1], {"sync"})
     \/ manager = "uv" /\ Len(args) > 2 /\ Is(args[1], {"pip"}) /\ Is(args[2], {"sync"})
     \/ manager = "poetry" /\ Is(args[1], {"install"})

AsksPypi(manager, config, args, asked) ==
  \/ IsLocked(manager, args) /\ asked.packages = {} /\ asked.manifest
  \/ ~IsLocked(manager, args) /\ AsksOther(config, args, asked)
  \/ /\ ~IsLocked(manager, args)
     /\ \E at \in DOMAIN args :
          LET behind == SubSeq(args, at + 1, Len(args))
          IN /\ InstallsAt(config, args, at) /\ TakenFor(behind, asked.parts, config.valued, {})
             /\ IF NoPackages(asked.parts) THEN AsksNothing(asked)
                ELSE /\ AllNamed(manager, WordsIn(behind, asked.parts), asked.packages)
                     /\ asked.manifest = (ValuesIn(behind, asked.parts) # {})

LineAsks(manager, args, asked) ==
  LET config == Config(manager)  behind == OwnArgs(config, args)
  IN CASE manager \in Npms -> AsksNpm(manager, config, behind, asked)
       [] manager \in Executors -> AsksExecutor(manager, config, behind, asked)
       [] manager \in Pypis -> AsksPypi(manager, config, behind, asked)

\* Each line is one that its package manager understands as asked.
ASSUME LinesAssumption ==
  /\ Releases \subseteq Seq(Nat)
  /\ \A w \in DOMAIN Numbers : Numbers[w] \in Seq(Nat)
  /\ \A l \in CommandLines :
       /\ l.manager \in Npms \cup Executors \cup Pypis /\ l.args \in Seq(Arguments)
       /\ LineAsks(l.manager, l.args, l.asked)

-----------------------------------------------------------------------------
(* One command.                                                             *)

NotHanded == [flow |-> "none", sandboxed |-> FALSE]

CommandInit ==
  /\ cpc = "typed" /\ line \in CommandLines /\ setting \in Settings
  /\ parsed = PlainCommand /\ bounds = <<>> /\ needs = <<>> /\ handed = NotHanded

CommandIdle ==
  /\ cpc = "gone" /\ line = (CHOOSE l \in CommandLines : TRUE)
  /\ setting = (CHOOSE s \in Settings : TRUE)
  /\ parsed = PlainCommand /\ bounds = <<>> /\ needs = <<>> /\ handed = NotHanded

ParseNpmLine ==
  /\ cpc = "typed" /\ line.manager \in Npms \cup Executors
  /\ parsed' = IF line.manager \in Executors THEN ParseExecutorCommand(line.manager, line.args)
               ELSE ParseNpmCommand(line.manager, line.args)
  /\ cpc' = IF parsed'.failed THEN "refused" ELSE "parsed"
  /\ UNCHANGED <<line, setting, bounds, needs, handed>>

\* What a target's version has to meet: the exact version, or bounds; neither is
\* the latest version.
Wanted(spec, more) ==
  CASE spec.constraint # <<>> /\ spec.constraint[1] = "==" ->
         [exact |-> Numbers[spec.constraint[2]], bounds |-> {}, latest |-> FALSE]
    [] spec.constraint # <<>> /\ spec.constraint[1] # "==" ->
         [exact |-> <<>>, bounds |-> BoundsOf(spec.constraint),
          latest |-> BoundsOf(spec.constraint) = {}]
    [] OTHER -> [exact |-> <<>>, bounds |-> more, latest |-> more = {}]

ParsePypiLine ==
  /\ cpc = "typed" /\ line.manager \in Pypis
  /\ parsed' = ParsePypiCommand(line.manager, line.args)
  /\ LET specs == PypiSpecs(line.manager, PypiTexts(line.manager, line.args).flags.words)
     IN bounds' = [i \in DOMAIN parsed'.targets |-> Wanted(specs[i].spec, specs[i].bounds)]
  /\ cpc' = IF parsed'.failed THEN "refused" ELSE "resolving"
  /\ UNCHANGED <<line, setting, needs, handed>>

\* The versions a target may get: PyPI names the latest of them itself.
Matching(wanted) ==
  CASE wanted.exact # <<>> -> {wanted.exact}
    [] wanted.exact = <<>> /\ wanted.latest -> BestMatching(Releases, {})
    [] OTHER -> BestMatching(Releases, wanted.bounds)

\* pypiGetMatchingVersion for the targets in their order; PyPI may not answer, and
\* no version may match.
ResolveVersion ==
  /\ cpc = "resolving"
  /\ LET i == SelectInSeq(parsed.targets, LAMBDA t : t.version = <<>>)
     IN \/ /\ i = 0 /\ cpc' = "parsed" /\ UNCHANGED parsed
        \/ /\ i # 0
           /\ \E v \in Matching(bounds[i]) : parsed' = [parsed EXCEPT !.targets[i].version = v]
           /\ UNCHANGED cpc
        \/ /\ i # 0 /\ bounds[i].exact = <<>> /\ cpc' = "refused" /\ UNCHANGED parsed
  /\ UNCHANGED <<line, setting, bounds, needs, handed>>

MayDownload == ~parsed.harmless
Installs    == parsed.targets # <<>> \/ parsed.manifest

\* proxyFlow.Run, up to the setup of the proxy.
ProxyFlow ==
  IF setting.installOnly /\ (~MayDownload
       \/ FirstWordInList(OwnArgs(Config(line.manager), line.args), setting.skip))
  THEN "bare" ELSE "proxy"

\* packageManagerGuard.Run: what is to be analysed.
GuardFlow ==
  IF parsed.targets # <<>> THEN "targets" ELSE IF parsed.manifest THEN "manifest" ELSE "bare"

\* Run of cmd/npm, cmd/pypi and cmd/executors, with ConfigureSandbox.
HandOver ==
  /\ cpc = "parsed" /\ cpc' = "handed"
  /\ handed' = [flow |-> IF setting.proxy THEN ProxyFlow ELSE GuardFlow,
                sandboxed |-> setting.sandbox /\ (setting.always \/ Installs \/ MayDownload)]
  /\ UNCHANGED <<line, setting, parsed, bounds, needs>>

\* The guard's resolver asks PyPI what each target requires.
LearnDependencies ==
  /\ cpc = "handed" /\ cpc' = "learnt"
  /\ line.manager \in Pypis /\ handed.flow = "targets"
  /\ needs' = [i \in DOMAIN parsed.targets |->
                 Required(Requires, RequestedExtras(parsed.targets, parsed.targets[i].name))]
  /\ UNCHANGED <<line, setting, parsed, bounds, handed>>

CommandNext ==
  ParseNpmLine \/ ParsePypiLine \/ ResolveVersion \/ HandOver \/ LearnDependencies

CommandSpec == CommandInit /\ [][CommandNext]_commandVars

-----------------------------------------------------------------------------
(* Properties.                                                              *)

AllowedFor(package) == {v \in Releases : \A r \in package.ranges : Allows(r, v)}

Asked == line.asked.packages

\* The targets are the packages the command names, no more and no less, with their
\* extras and, for npm, their versions; wherever flags stand among them, whatever
\* installs them as well, and whatever a scope looks like.  A command that names
\* none installs from the manifest, and only such a one.  npm.go, npm_executor.go,
\* pypi.go.
TargetsAreNamed ==
  cpc \in {"resolving", "parsed"} =>
    /\ {[name |-> t.name, extras |-> t.extras] : t \in ToSet(parsed.targets)}
         = {[name |-> p.name, extras |-> p.extras] : p \in Asked}
    /\ line.manager \notin Pypis =>
         \A t \in ToSet(parsed.targets) : \E p \in Asked :
           p.name = t.name /\ p.version = t.version /\ t.explicit = (p.version # <<>>)
    /\ (parsed.manifest /\ parsed.targets = <<>>) = (line.asked.manifest /\ Asked = {})

\* A target of PyPI gets the latest release its package manager would accept, by
\* the package manager's own meaning of a range.  pypi.go, pypi_resolver.go.
RangeIsHonoured ==
  cpc = "parsed" /\ line.manager \in Pypis =>
    \A t \in ToSet(parsed.targets) : \E p \in Asked :
      /\ p.name = t.name /\ t.explicit = (p.ranges # {})
      /\ \A r \in p.ranges : Allows(r, t.version)
      /\ t.version \notin Releases \/ \A v \in AllowedFor(p) : ~Before(t.version, v)

\* The command line means to PMG what it means to the package manager: which
\* packages, and which release of each.
CommandIsUnderstood == TargetsAreNamed /\ RangeIsHonoured

\* A command that may download packages never goes around the proxy unless the user
\* has listed it, never goes around the guard if it names packages, and is never
\* outside a sandbox that is on; a word that is in the list of harmless commands
\* changes this only where it is the command.  packagemanager.go, proxy_flow.go,
\* guard.go, config.go.
DownloadsAreWatched ==
  handed.flow # "none" /\ line.asked.downloads =>
    /\ handed.flow = "bare" /\ setting.proxy =>
         setting.installOnly /\ FirstWordInList(OwnArgs(Config(line.manager), line.args), setting.skip)
    /\ ~setting.proxy /\ Asked # {} => handed.flow = "targets"
    /\ ~setting.proxy /\ line.asked.manifest => handed.flow \in {"targets", "manifest"}
    /\ setting.sandbox => handed.sandboxed
=============================================================================
