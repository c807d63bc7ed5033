--------------------------- MODULE RegistryRequest ---------------------------
(***************************************************************************)
(* One request to a package registry, as HandleRequest of the interceptors   *)
(* takes it (npm_registry.go, pypi_registry.go): the host and the path are   *)
(* read, a download goes to the analysis (ProxyGuard.tla), and a metadata    *)
(* request is made to bring all dates, so that its response can be stripped  *)
(* of the versions in the cooldown window and the loss be reported.         *)
(*                                                                         *)
(* The day may change between the stripping and the report, which read the   *)
(* clock separately.                                                        *)
(***************************************************************************)
EXTENDS RegistryUrls, Cooldown

CONSTANTS
  RegistryRequests,  \* [eco, host, path, asked], asked being what the registry means by it
  Registries,        \* by ecosystem: its registries
  Analysed,          \* those with SupportedForAnalysis
  Packuments,        \* what the npm registry may answer
  SimplePages,       \* what the Simple API may answer
  Pins,              \* what the command line may pin: a version, or NoVersion
  Feed,              \* the versions the local feed knows as malware
  CooldownDays,
  Today              \* the day of the request

\* A date is a day, and an answer has an end.
ASSUME RegistryAssumption ==
  /\ Today \in Nat /\ CooldownDays \in Nat
  /\ \A meta \in Packuments :
       IsFiniteSet(DOMAIN meta.time) /\ \A v \in DOMAIN meta.time : meta.time[v] \in Nat
  /\ \A files \in SimplePages :
       IsFiniteSet({f.version : f \in files}) /\ \A f \in files : f.date \in Nat

-----------------------------------------------------------------------------
(* What a request asks.  Its asked says which package, and the request is as   *)
(* the registry publishes it; the conditions are what keeps the parts of a      *)
(* name apart that all share the hyphen.                                     *)

Phrases  == Seq(Seq(STRING)) \ {<<>>}         \* words between hyphens
Segments == [words : Phrases, ext : STRING]

\* A host belongs to a registry: it is the registry, or below it and no longer one.
Serves(registry, eco, host) ==
  /\ registry \in Registries[eco] /\ IsSuffix(registry, host)
  /\ \A other \in Registries[eco] : IsSuffix(other, host) => Len(other) <= Len(registry)

\* A name without a scope is no scope, and no version begins with the word of a scope.
NpmDownload(path, asked) ==
  /\ asked.name \in Phrases /\ asked.version \in Phrases
  /\ \/ /\ asked.scope = NoScope /\ ~IsScope(Plain(asked.name))
        /\ path = NpmTarball(NoScope, asked.name, asked.version)
     \/ /\ asked.scope \in DOMAIN Scopes
        /\ asked.version[1] # <<Scopes[asked.scope]>>
        /\ path \in {NpmTarball(asked.scope, asked.name, asked.version),
                     NpmLongTarball(asked.scope, asked.name, asked.version)}

NpmPage(path, asked) ==
  /\ asked.name \in Phrases
  /\ \/ asked.scope = NoScope /\ ~IsScope(Plain(asked.name)) /\ path = <<Plain(asked.name)>>
     \/ asked.scope \in DOMAIN Scopes /\ path = <<Word(asked.scope), Plain(asked.name)>>

\* Neither a package's page nor its tarball.
NpmOther(path) ==
  \/ path = <<>> \/ \E s \in DOMAIN Scopes : path = <<Word(s)>>
  \/ /\ Len(path) = 3 /\ ~IsScope(path[1])
     /\ path[2] # Hyphen \/ path[3].ext # ".tgz" \/ ~Names(path[1].words, path[3].words)
  \/ Len(path) > 3 /\ ~IsScope(path[1])
  \/ Len(path) > 4

\* A version has no later part that is a version itself.
IsSdist(file, asked) ==
  /\ file.ext \in Archives /\ asked.version \in Versions
  /\ \E k \in 2..Len(file.words) :
       /\ asked.name = Denormalize(SubSeq(file.words, 1, k - 1))
       /\ asked.version = SubSeq(file.words, k, Len(file.words))
       /\ \A l \in k + 1..Len(file.words) :
            /\ SubSeq(file.words, l, Len(file.words)) \notin Versions
            /\ <<file.words[l]>> \notin Versions

\* As PEP 427 has them, or with the hyphens of the name and without a build tag.
IsWheel(file, asked) ==
  LET words == file.words  n == Len(words)
  IN /\ file.ext = ".whl"
     /\ \/ /\ n = 5 \/ (n = 6 /\ words[3] \in BuildTags)
           /\ asked.name = words[1] /\ asked.version = <<words[2]>>
        \/ /\ n > 5 /\ asked.name = Denormalize(SubSeq(words, 1, n - 4))
           /\ asked.version = <<words[n - 3]>>
           /\ IF n = 6 THEN words[3] \notin BuildTags ELSE asked.version \in Versions

PypiOrg == <<"pypi", "org">>

PypiDownload(registry, path, asked) ==
  /\ asked.scope = NoScope /\ asked.name # <<>> /\ asked.version # <<>>
  /\ IF registry = PypiOrg THEN Len(path) = 3 /\ path[1] = Word("simple")
                           ELSE Len(path) >= 2 /\ path[1] = Word("packages")
  /\ IsSdist(Last(path), asked) \/ IsWheel(Last(path), asked)

PypiPage(registry, path, asked) ==
  /\ registry = PypiOrg /\ Len(path) = 2 /\ path[1] = Word("simple")
  /\ asked.scope = NoScope /\ asked.name = Denormalize(path[2].words)

PypiOther(registry, path) ==
  IF registry = PypiOrg THEN Len(path) < 2 \/ path[1] # Word("simple") \/ Len(path) > 3
  ELSE Len(path) < 2 \/ path[1] # Word("packages") \/ Last(path).ext \notin Archives \cup {".whl"}

\* Of a registry that is analysed.
Asks(registry, r) ==
  IF r.eco = "npm"
  THEN \/ r.asked.kind = "download" /\ NpmDownload(r.path, r.asked)
       \/ r.asked.kind = "page" /\ NpmPage(r.path, r.asked)
       \/ r.asked.kind = "other" /\ NpmOther(r.path)
  ELSE \/ r.asked.kind = "download" /\ PypiDownload(registry, r.path, r.asked)
       \/ r.asked.kind = "page" /\ PypiPage(registry, r.path, r.asked)
       \/ r.asked.kind = "other" /\ PypiOther(registry, r.path)

\* Each request is one that its registry, if it is analysed, understands as asked.
ASSUME RequestsAssumption ==
  /\ <<>> \notin Analysed /\ NoScope \notin DOMAIN Scopes
  /\ \A s \in DOMAIN Scopes : Scopes[s] \in STRING
  /\ \A eco \in DOMAIN Registries : Registries[eco] \subseteq Seq(STRING)
  /\ \A r \in RegistryRequests :
       /\ r.eco \in DOMAIN Registries /\ r.host \in Seq(STRING) /\ r.path \in Seq(Segments)
       /\ \/ \E registry \in Registries[r.eco] :
               /\ Serves(registry, r.eco, r.host)
               /\ IF registry \in Analysed THEN Asks(registry, r) ELSE r.asked.kind = "other"
          \/ /\ \A registry \in Registries[r.eco] : ~IsSuffix(registry, r.host)
             /\ r.asked.kind = "other"

VARIABLES
  rpc,        \* where HandleRequest or its modifier is
  request,
  route,      \* what becomes of the request
  package,    \* what the URL was read as
  headers,    \* what the request asks upstream for
  pinned,
  today,
  original,   \* the body upstream has sent
  served,     \* the body the client gets
  report

registryVars == <<rpc, request, route, package, headers, pinned, today, original, served, report>>

Body(data) == [kind |-> "body", data |-> data]
Reply(kind) == [kind |-> kind]
NoBody == Reply("none")
\* Answers without dates: each is what one header of the client can bring about.
Useless == {Reply("abbreviated"), Reply("compressed"), Reply("not modified")}
NoReport == Report({}, {})

RegistryInit ==
  /\ rpc = "arrived" /\ request \in RegistryRequests
  /\ route = "none" /\ package = NoInfo
  /\ headers = Useless           \* the client asks for all three
  /\ pinned \in Pins /\ today = Today
  /\ original = NoBody /\ served = NoBody /\ report = NoReport

RegistryIdle ==
  /\ rpc = "done" /\ request = (CHOOSE r \in RegistryRequests : TRUE)
  /\ route = "none" /\ package = NoInfo /\ headers = {} /\ pinned = NoVersion
  /\ today = Today /\ original = NoBody /\ served = NoBody /\ report = NoReport

Parse(eco, registry, path) ==
  CASE eco = "npm" -> ParseNpm(path)
    [] eco # "npm" /\ registry = PypiOrg -> ParsePypiOrg(path)
    [] OTHER -> ParsePypiFiles(path)

\* Only npm's packuments and the Simple API are stripped.
HasCooldown(eco, path) == eco = "npm" \/ path[1] = Word("simple")

RouteOf(eco, host, path) ==
  LET registry == ConfigFor(Registries[eco], host)
      info     == Parse(eco, registry, path)
  IN CASE registry \notin Analysed -> [route |-> "pass", package |-> NoInfo]
       [] registry \in Analysed /\ ~info.ok -> [route |-> "pass", package |-> NoInfo]
       [] registry \in Analysed /\ info.ok /\ info.download ->
            [route |-> IF info.name = <<>> \/ info.version = <<>> THEN "pass" ELSE "analyse",
             package |-> info]
       [] OTHER -> [route |-> IF CooldownDays > 0 /\ HasCooldown(eco, path)
                              THEN "cooldown" ELSE "pass",
                    package |-> info]

RouteRequest ==
  /\ rpc = "arrived"
  /\ LET r == RouteOf(request.eco, request.host, request.path)
     IN /\ route' = r.route /\ package' = r.package
        /\ rpc' = IF r.route = "cooldown" THEN "metadata" ELSE "done"
  /\ UNCHANGED <<request, headers, pinned, today, original, served, report>>

\* Fault: the conditional headers of the client are forwarded.
HandleMetadataConditionally ==
  /\ rpc = "metadata" /\ rpc' = "asked"
  /\ headers' = {Reply("not modified")}
  /\ UNCHANGED <<request, route, package, pinned, today, original, served, report>>

\* Accept, Accept-Encoding, and the headers of a conditional request.
HandleMetadataRequest ==
  /\ rpc = "metadata" /\ rpc' = "asked"
  /\ headers' = {}
  /\ UNCHANGED <<request, route, package, pinned, today, original, served, report>>

DatesOf(eco, data) == IF eco = "npm" THEN NpmDates(data) ELSE PypiDates(data)

Upstream ==
  /\ rpc = "asked" /\ rpc' = "body"
  /\ original' \in headers \cup {Body(b) : b \in IF request.eco = "npm" THEN Packuments ELSE SimplePages}
  /\ UNCHANGED <<request, route, package, headers, pinned, today, served, report>>

\* The modifier, up to the statistics: a body without dates is served as it is.
Strip ==
  /\ rpc = "body"
  /\ IF original \in Useless
     THEN served' = original /\ rpc' = "done"
     ELSE LET npm    == request.eco = "npm"
              tooNew == TooNew(DatesOf(request.eco, original.data), today, CooldownDays)
          IN /\ rpc' = IF tooNew = {} THEN "done" ELSE "stripped"
             /\ IF tooNew = {} THEN served' = original
                ELSE IF npm
                THEN \E meta \in StripNpm(original.data, tooNew) : served' = Body(meta)
                ELSE served' = Body(StripPypi(original.data, tooNew))
  /\ UNCHANGED <<request, route, package, headers, pinned, today, original, report>>

Midnight ==
  /\ rpc = "stripped" /\ today = Today /\ today' = today + 1
  /\ UNCHANGED <<rpc, request, route, package, headers, pinned, original, served, report>>

Dates == DatesOf(request.eco, original.data)
Stripped == TooNew(Dates, Today, CooldownDays)

RecordStats ==
  /\ rpc = "stripped" /\ rpc' = "done"
  /\ report' \in Reports(Feed, pinned, Dates, Cardinality(DOMAIN Dates \ Stripped), today,
                         CooldownDays)
  /\ UNCHANGED <<request, route, package, headers, pinned, today, original, served>>

RegistryNext ==
  \/ RouteRequest \/ HandleMetadataRequest \/ Upstream \/ Strip \/ Midnight \/ RecordStats

RegistrySpec == RegistryInit /\ [][RegistryNext]_registryVars

-----------------------------------------------------------------------------
(* Properties.                                                              *)

\* The package whose analysis decides a download is the package the registry
\* serves under the URL, and every download of a registry that is analysed is
\* decided: names with hyphens, numbers and scopes do not change where the
\* version begins.  npm_url_parser.go, pypi_url_parser.go, registry_config.go.
PackageIsNamed ==
  rpc # "arrived" /\ route # "none" =>
    /\ request.asked.kind = "download" =>
         /\ route = "analyse"
         /\ package.scope = request.asked.scope
         /\ package.name = request.asked.name
         /\ package.version = request.asked.version
    /\ request.asked.kind = "page" =>
         /\ CooldownDays > 0 => route = "cooldown"
         /\ package.scope = request.asked.scope
         /\ package.name = request.asked.name
    /\ request.asked.kind = "other" => route = "pass"

\* A served packument or page lacks exactly the versions in the window, whatever
\* the client asked the registry for, and each tag that was moved names the
\* latest version that stays; a tag goes only if nothing dated stays.
\* npm_cooldown.go, pypi_cooldown.go.
CooldownHolds ==
  served # NoBody =>
    /\ served \notin Useless
    /\ request.eco = "npm" =>
         LET new == served.data  old == original.data  stay == DOMAIN Dates \ Stripped
         IN /\ new.versions = old.versions \ Stripped
            /\ DOMAIN new.time = DOMAIN old.time \ Stripped
            /\ \A t \in DOMAIN new.tags :
                 IF old.tags[t] \in Stripped
                 THEN new.tags[t] \in stay /\ \A v \in stay : Dates[v] <= Dates[new.tags[t]]
                 ELSE new.tags[t] = old.tags[t]
            /\ DOMAIN new.tags # DOMAIN old.tags => stay = {}
    /\ request.eco = "pypi" =>
         \A f \in original.data : f \in served.data <=> f.version \notin Stripped

\* What is reported was stripped, and a block is reported of at most one
\* version: one with no other dated version beside it, or the pinned one.  On
\* the day of the stripping, a version the feed knows as malware is reported as
\* malware and never as a block of the cooldown, and a stripped pin is reported.
\* cooldown.go, recordCooldownStats.
ReportIsTrue ==
  rpc = "done" /\ report # NoReport =>
    /\ report.malware \subseteq Feed \cap Stripped
    /\ \A b \in report.blocks :
         /\ report.blocks = {b} /\ b.version \in Stripped
         /\ DOMAIN Dates = Stripped \/ b.version = pinned
    /\ today = Today =>
         /\ report.malware = Feed \cap Stripped
         /\ \A b \in report.blocks : b.version \notin Feed /\ b.left > 0
         /\ pinned \in Stripped =>
              pinned \in Feed \/ DOMAIN Dates = Stripped
              \/ \E b \in report.blocks : b.version = pinned

\* What the cooldown takes from the answer of a registry, and what it then tells the
\* user of it, agree with the dates the registry gives.
CooldownIsKept == CooldownHolds /\ ReportIsTrue
=============================================================================
