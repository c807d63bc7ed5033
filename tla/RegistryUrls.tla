---------------------------- MODULE RegistryUrls ----------------------------
(***************************************************************************)
(* What the registry interceptors read in a host and a path                 *)
(* (registry_config.go, npm_url_parser.go, pypi_url_parser.go), beside the   *)
(* paths the registries publish their files under.                          *)
(*                                                                         *)
(* A host is the sequence of its labels.  A path is the sequence of its      *)
(* segments, and a segment is the sequence of the words between its hyphens, *)
(* each with the atoms between its underscores, and an extension: what the   *)
(* parsers have to tell apart is where a name that holds hyphens ends.       *)
(***************************************************************************)
EXTENDS Naturals, Sequences, FiniteSets, SequencesExt

CONSTANTS
  Scopes,         \* npm: the scope of each word that begins with "@"
  Versions,       \* word sequences the version patterns of PyPI match
  BuildTags       \* words that are numbers

NoScope == ""
NoExt   == ""

Segment(words, ext) == [words |-> words, ext |-> ext]
Plain(words)  == Segment(words, NoExt)
Word(atom)    == Plain(<<<<atom>>>>)
Hyphen        == Plain(<< <<"">>, <<"">> >>)   \* the segment "-"

NoInfo == [ok |-> FALSE, scope |-> NoScope, name |-> <<>>, version |-> <<>>, download |-> FALSE]
Info(scope, name, version, download) ==
  [ok |-> TRUE, scope |-> scope, name |-> name, version |-> version, download |-> download]

-----------------------------------------------------------------------------
(* Hosts.                                                                   *)

\* GetConfigForHostname: the registry itself, or else the longest it is a
\* subdomain of; the empty sequence is none.
ConfigFor(registries, hostname) ==
  LET matches == {r \in registries : IsSuffix(r, hostname)}
  IN IF hostname \in registries THEN hostname
     ELSE IF matches = {} THEN <<>>
     ELSE CHOOSE r \in matches : \A q \in matches : Len(q) <= Len(r)

-----------------------------------------------------------------------------
(* npm.                                                                     *)

\* What is left of words behind a prefix and a hyphen.
After(prefix, words) == SubSeq(words, Len(prefix) + 1, Len(words))
Names(prefix, words) == IsPrefix(prefix, words) /\ Len(words) > Len(prefix)

\* extractVersionFromTarball: <name>-<version>.tgz.
TarballVersion(name, file) ==
  IF file.ext = ".tgz" /\ Names(name, file.words) THEN After(name, file.words) ELSE <<>>

\* extractVersionFromScopedTarball: <scope>-<name>-<version>.tgz, or without the scope.
ScopedTarballVersion(scope, name, file) ==
  LET both == <<<<Scopes[scope]>>>> \o name
  IN IF TarballVersion(both, file) # <<>> THEN TarballVersion(both, file)
     ELSE TarballVersion(name, file)

\* parseUnscopedPackageURL and parseScopedPackageURL, behind the scope.
ParsePackage(scope, segments) ==
  LET name == segments[1].words
      file == segments[3]
      version == IF scope = NoScope THEN TarballVersion(name, file)
                 ELSE ScopedTarballVersion(scope, name, file)
  IN CASE Len(segments) = 1 -> Info(scope, name, <<>>, FALSE)
       [] Len(segments) = 3 /\ segments[2] = Hyphen ->
            IF version = <<>> THEN NoInfo ELSE Info(scope, name, version, TRUE)
       [] Len(segments) = 2 -> Info(scope, name, segments[2].words, FALSE)
       [] OTHER -> NoInfo

IsScope(segment) == segment \in {Word(s) : s \in DOMAIN Scopes}

ParseNpm(segments) ==
  IF segments = <<>> THEN NoInfo
  ELSE IF ~IsScope(segments[1]) THEN ParsePackage(NoScope, segments)
  ELSE IF Len(segments) < 2 THEN NoInfo
  ELSE ParsePackage(segments[1].words[1][1], Tail(segments))

-----------------------------------------------------------------------------
(* PyPI.                                                                    *)

\* denormalizePyPIPackageName: underscores, dots and hyphens are one; case is
\* left out.
Denormalize(words) == FlattenSeq(words)

\* The largest position a version may begin at, 0 without one.
LastVersion(words, matches(_)) ==
  LET at == {k \in 2..Len(words) : matches(k)}
  IN IF at = {} THEN 0 ELSE CHOOSE k \in at : \A l \in at : l <= k

\* extractNameVersionFromSdist: from the end, all the words from one on, or
\* that word alone.
SdistVersion(words, k) ==
  IF SubSeq(words, k, Len(words)) \in Versions THEN SubSeq(words, k, Len(words))
  ELSE IF <<words[k]>> \in Versions THEN <<words[k]>> ELSE <<>>

\* Fault: the first word that looks like a version begins it.
ParseSdistFromStart(words) ==
  LET at == {k \in 2..Len(words) : SdistVersion(words, k) # <<>>}
      k == CHOOSE k \in at : \A l \in at : k <= l
  IN IF at = {} THEN NoInfo
     ELSE Info(NoScope, Denormalize(SubSeq(words, 1, k - 1)), SdistVersion(words, k), TRUE)

ParseSdist(words) ==
  LET k == LastVersion(words, LAMBDA l : SdistVersion(words, l) # <<>>)
  IN IF k = 0 THEN NoInfo
     ELSE Info(NoScope, Denormalize(SubSeq(words, 1, k - 1)), SdistVersion(words, k), TRUE)

\* extractNameVersionFromParts, of a wheel with more than six parts.
SplitParts(parts) ==
  LET k == LastVersion(parts, LAMBDA l : <<parts[l]>> \in Versions)
  IN IF k = 0 THEN [name |-> <<parts[1]>>, version |-> parts[2]]
     ELSE [name |-> SubSeq(parts, 1, k - 1), version |-> parts[k]]

\* parseWheelFilename: the last three parts are tags, and a build tag may stand
\* before them.
ParseWheel(words) ==
  LET n == Len(words)
      split == CASE n = 5 -> [name |-> <<words[1]>>, version |-> words[2]]
                 [] n = 6 /\ words[3] \in BuildTags ->
                      [name |-> <<words[1]>>, version |-> words[2]]
                 [] n = 6 /\ words[3] \notin BuildTags ->
                      [name |-> SubSeq(words, 1, 2), version |-> words[3]]
                 [] OTHER -> SplitParts(SubSeq(words, 1, n - 3))
  IN IF n < 5 THEN NoInfo ELSE Info(NoScope, Denormalize(split.name), <<split.version>>, TRUE)

Archives == {".tar.gz", ".zip", ".tar.bz2", ".tgz"}

ParseFilename(file) ==
  CASE file.ext = ".whl" -> ParseWheel(file.words)
    [] file.ext \in Archives -> ParseSdist(file.words)
    [] OTHER -> NoInfo

ParsePypiFiles(segments) ==
  IF Len(segments) < 2 \/ segments[1] # Word("packages") THEN NoInfo
  ELSE ParseFilename(Last(segments))

\* A file of the Simple API that cannot be read is taken for a page.
ParseSimple(segments) ==
  LET page == Info(NoScope, Denormalize(segments[1].words), <<>>, FALSE)
      file == ParseFilename(segments[2])
  IN CASE Len(segments) = 1 -> page
       [] Len(segments) = 2 -> IF file.ok THEN file ELSE page
       [] OTHER -> NoInfo

ParseJson(segments) ==
  LET name == Denormalize(segments[1].words)
  IN CASE Len(segments) = 2 /\ segments[2] = Word("json") -> Info(NoScope, name, <<>>, FALSE)
       [] Len(segments) = 3 /\ segments[3] = Word("json") ->
            Info(NoScope, name, segments[2].words, FALSE)
       [] OTHER -> NoInfo

ParsePypiOrg(segments) ==
  IF Len(segments) < 2 THEN NoInfo
  ELSE CASE segments[1] = Word("simple") -> ParseSimple(Tail(segments))
         [] segments[1] = Word("pypi") -> ParseJson(Tail(segments))
         [] OTHER -> NoInfo

-----------------------------------------------------------------------------
(* The paths of the registries: the reference the parsers are held against.  *)

NpmTarball(scope, name, version) ==
  IF scope = NoScope THEN <<Plain(name), Hyphen, Segment(name \o version, ".tgz")>>
  ELSE <<Word(scope), Plain(name), Hyphen, Segment(name \o version, ".tgz")>>

NpmLongTarball(scope, name, version) ==
  <<Word(scope), Plain(name), Hyphen,
    Segment(<<<<Scopes[scope]>>>> \o name \o version, ".tgz")>>

\* Source distributions may keep the hyphens of the name; wheels escape them.
PypiSdist(name, version) ==
  <<Word("packages"), Word("ab"), Segment(name \o version, ".tar.gz")>>
PypiWheel(name, version, build) ==
  <<Word("packages"), Word("ab"),
    Segment(<<FlattenSeq(name)>> \o version \o build \o << <<"py3">>, <<"none">>, <<"any">> >>,
            ".whl")>>
=============================================================================
