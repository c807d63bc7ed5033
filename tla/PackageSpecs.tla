----------------------------- MODULE PackageSpecs -----------------------------
(***************************************************************************)
(* What a user writes for a package, and what PMG makes of it               *)
(* (packagemanager/npm.go, pypi.go, pypi_resolver.go).                      *)
(*                                                                         *)
(* npm: a text is the sequence of what stands between its "@"s, so that a    *)
(* scoped name begins with an empty part.  PyPI: a text is the sequence of   *)
(* its tokens, a name, brackets, operators and version words, where a "*" at *)
(* the end stands before its version.  A version is the sequence of its      *)
(* numbers.                                                                 *)
(***************************************************************************)
EXTENDS Naturals, Sequences, FiniteSets, SequencesExt

CONSTANTS
  Numbers,     \* the numbers of each version word
  Bare         \* an npm version word that begins with "^" or "~", and what is left of it

-----------------------------------------------------------------------------
(* npm                                                                      *)

Blank == ""

NoSpec == [ok |-> FALSE, name |-> <<>>, version |-> Blank, constraint |-> <<>>, extras |-> {}]
NpmSpec(name, version) == [NoSpec EXCEPT !.ok = TRUE, !.name = name, !.version = version]

\* npmParsePackageInfo: of a scoped name the last "@" ends it, if it is not the first.
NpmParsePackageInfo(text) ==
  CASE text = <<Blank>> -> NoSpec
    [] text # <<Blank>> /\ text[1] = Blank /\ Len(text) > 2 -> NpmSpec(Front(text), Last(text))
    [] text # <<Blank>> /\ text[1] = Blank /\ Len(text) = 2 -> NpmSpec(text, Blank)
    [] text[1] # Blank /\ Len(text) = 1 -> NpmSpec(text, Blank)
    [] text[1] # Blank /\ Len(text) = 2 -> NpmSpec(<<text[1]>>, text[2])
    [] OTHER -> NoSpec

NpmCleanVersion(version) ==
  LET bare == IF version \in DOMAIN Bare THEN Bare[version] ELSE version
  IN IF bare \in {"*", ""} THEN "latest" ELSE bare

-----------------------------------------------------------------------------
(* Versions and ranges of PyPI                                              *)

At(version, i) == IF i <= Len(version) THEN version[i] ELSE 0
Before(v, w) ==
  \E i \in 1..4 : At(v, i) < At(w, i) /\ \A j \in 1..i-1 : At(v, j) = At(w, j)
Same(v, w) == \A i \in 1..4 : At(v, i) = At(w, i)

Bound(op, version) == [op |-> op, version |-> version]

\* github.com/Masterminds/semver: one bound of a constraint.
Meets(v, bound) ==
  CASE bound.op = ">=" -> ~Before(v, bound.version)
    [] bound.op = "<=" -> ~Before(bound.version, v)
    [] bound.op = ">"  -> Before(bound.version, v)
    [] bound.op = "<"  -> Before(v, bound.version)
    [] bound.op = "!=" -> ~Same(v, bound.version)

Between(low, high) == {Bound(">=", low), Bound("<", high)}

\* pypiConvertCaretConstraint, on three numbers at least.
PadTo3(v) == [i \in 1..(IF Len(v) < 3 THEN 3 ELSE Len(v)) |-> At(v, i)]

Caret(v) ==
  LET p == PadTo3(v)
      first3 == SubSeq(p, 1, 3)
  IN IF p[1] # 0 THEN Between(p, <<p[1] + 1, 0, 0>>)
     ELSE IF p[2] # 0 THEN Between(first3, <<0, p[2] + 1, 0>>)
     ELSE Between(first3, <<0, 0, p[3] + 1>>)

\* pypiConvertTildeConstraint
Tilde(v) ==
  IF Len(v) = 1 THEN Between(v, <<v[1] + 1, 0, 0>>) ELSE Between(v, <<v[1], v[2] + 1, 0>>)

\* pypiConvertCompatibleRelease: one number is no range.
CompatibleRelease(v) ==
  IF Len(v) < 2 THEN {}
  ELSE LET k == Len(v) - 1 IN Between(v, [i \in 1..k |-> IF i = k THEN v[k] + 1 ELSE v[i]])

\* pypiConvertWildcardConstraint: "*", "1.*" and "1.2.*", no longer ones.
Wildcard(v) ==
  CASE Len(v) = 0 -> {Bound(">=", <<0, 0, 0>>)}
    [] Len(v) = 1 -> Between(v, <<v[1] + 1, 0, 0>>)
    [] Len(v) = 2 -> Between(v, <<v[1], v[2] + 1, 0>>)
    [] OTHER -> {}

-----------------------------------------------------------------------------
(* The texts of PyPI                                                        *)

Operators == {"==", ">=", "<=", "!=", ">", "<", "~="}

LeftBracket  == "["
RightBracket == "]"
Comma        == ","

\* The first token of some kind, 0 without one.
FirstOf(text, tokens) == SelectInSeq(text, LAMBDA t : t \in tokens)

\* pypiParsePackageInfo: what is in brackets is taken out, and the first operator
\* begins the constraint.
PypiParsePackageInfo(text) ==
  LET open   == FirstOf(text, {LeftBracket})
      close  == FirstOf(text, {RightBracket})
      paired == open # 0 /\ close # 0 /\ open < close
      inside == IF paired THEN SubSeq(text, open + 1, close - 1) ELSE <<>>
      rest   == IF paired THEN SubSeq(text, 1, open - 1) \o SubSeq(text, close + 1, Len(text))
                ELSE text
      at     == FirstOf(rest, Operators)
      spec   == [NoSpec EXCEPT !.ok = TRUE, !.extras = ToSet(inside) \ {Comma}]
  IN CASE (open = 0) # (close = 0) -> NoSpec
       [] (open = 0) = (close = 0) /\ at = 0 -> [spec EXCEPT !.name = rest]
       [] (open = 0) = (close = 0) /\ at = 1 -> NoSpec
       [] OTHER -> [spec EXCEPT !.name = SubSeq(rest, 1, at - 1),
                                !.constraint = SubSeq(rest, at, Len(rest))]

\* The bounds of a constraint; of "~=" the only one.
BoundsOf(constraint) ==
  IF constraint[1] = "~=" THEN CompatibleRelease(Numbers[constraint[2]])
  ELSE {Bound(constraint[i], Numbers[constraint[i + 1]]) :
          i \in {j \in 1..Len(constraint) : constraint[j] \in Operators}}

\* The bounds Poetry's "^", "~" and "*" stand for: a word that ends in "*" has the
\* numbers before it.
PoetryBounds(op, word) ==
  CASE op = "^" -> Caret(Numbers[word])
    [] op = "~" -> Tilde(Numbers[word])
    [] op = "*" -> Wildcard(Numbers[word])

\* pypiConvertPoetryVersionConstraints, with the range in bounds; a text that is
\* none of these is left to pypiParsePackageInfo.  A version without a name is
\* refused, and "~=", which is read as "~".
PoetrySpec(text) ==
  LET at  == FirstOf(text, {"^", "~", "*"})
      end == IF at > 1 /\ text[at - 1] = "@" THEN at - 2 ELSE at - 1
      spec == PypiParsePackageInfo(SubSeq(text, 1, end))
      refused == [spec |-> NoSpec, bounds |-> {}]
  IN IF text[1] \in {"@", "^", "~", "*"} \cup DOMAIN Numbers \/ "~=" \in ToSet(text) THEN refused
     ELSE IF at = 0 THEN [spec |-> PypiParsePackageInfo(text), bounds |-> {}]
     ELSE LET bounds == PoetryBounds(text[at], text[at + 1])
          IN [spec |-> IF bounds = {} THEN NoSpec ELSE spec, bounds |-> bounds]

\* findBestMatchingVersion
BestMatching(releases, bounds) ==
  LET fit == {v \in releases : \A b \in bounds : Meets(v, b)}
  IN {v \in fit : \A w \in fit : ~Before(v, w)}

\* getPypiPackageDependencies: what applies always, and what the extras of the
\* first target of that name ask for.
RequestedExtras(targets, name) ==
  LET i == SelectInSeq(targets, LAMBDA t : t.name = name)
  IN IF i = 0 THEN {} ELSE targets[i].extras
Required(requires, extras) == {d \in requires : d.extra = "" \/ d.extra \in extras}
=============================================================================
