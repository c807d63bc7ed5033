---------------------------- MODULE MCCommandLine ----------------------------
(* An instance of CommandLine for TLC.                                      *)
EXTENDS CommandLine

MCNumbers ==
  [w \in {"", "0.0.3", "0.2", "1", "1.2", "1.2.3", "2"} |->
     CASE w = "" -> <<>> [] w = "0.0.3" -> <<0, 0, 3>> [] w = "0.2" -> <<0, 2>>
       [] w = "1" -> <<1>> [] w = "1.2" -> <<1, 2>> [] w = "1.2.3" -> <<1, 2, 3>>
       [] w = "2" -> <<2>>]
MCBare == [w \in {"^1", "~1", "^"} |-> IF w = "^" THEN "" ELSE "1"]
MCReleases ==
  {<<0, 0, 3>>, <<0, 0, 4>>, <<0, 2, 1>>, <<0, 3>>, <<1, 0>>, <<1, 2>>, <<1, 2, 4>>, <<1, 3>>,
   <<2, 0>>, <<2, 0, 1>>, <<3>>}
MCRequires == {[name |-> "c", extra |-> ""], [name |-> "d", extra |-> "x"]}
MCSettings ==
  [proxy : BOOLEAN, installOnly : {TRUE}, skip : {{"exec"}}, sandbox : {TRUE}, always : {FALSE}]
  \cup [proxy : {TRUE}, installOnly : {FALSE}, skip : {{}}, sandbox : {TRUE}, always : {TRUE}]

NpmPackage(name, version) == [name |-> name, extras |-> {}, version |-> version, ranges |-> {}]
PypiPackage(name, extras, ranges) ==
  [name |-> <<name>>, extras |-> extras, version |-> <<>>, ranges |-> ranges]

\* What a user types between blanks that belong together, and the packages it names.
Item(args, parts, packages) ==
  [args |-> args, parts |-> parts, packages |-> packages, last |-> FALSE]
WordItem(text, packages) == Item(<<Typed(text)>>, <<"word">>, packages)
Dash == [Item(<<Flag("--")>>, <<"end">>, {}) EXCEPT !.last = TRUE]

Plains ==
  {WordItem(<<"a", "^1">>, {NpmPackage(<<"a">>, <<"1">>)}),
   WordItem(<<"", "s/a">>, {NpmPackage(<<"", "s/a">>, <<>>)}),
   WordItem(<<"", "s/b", "^">>, {NpmPackage(<<"", "s/b">>, <<"latest">>)})}
Values(flag) ==
  {Item(<<Flag(flag), Typed(<<"b">>)>>, <<"takes", "value">>, {NpmPackage(<<"b">>, <<>>)}),
   Item(<<Assigned(flag, <<"", "s/c", "2">>)>>, <<"holds">>, {NpmPackage(<<"", "s/c">>, <<"2">>)})}
Switches == {Item(<<f>>, <<"switch">>, {}) : f \in {Flag("-g"), Assigned("--tag", <<"next">>)}}

\* Behind "--" everything is a word.
Sequences(items, n) ==
  {s \in UNION {[1..k -> items] : k \in 0..n} :
     \A i, j \in DOMAIN s : i < j /\ s[i].last => s[j] \in Plains}
ArgsOf(items) == FlattenSeq([i \in DOMAIN items |-> items[i].args])
PartsOf(items) == FlattenSeq([i \in DOMAIN items |-> items[i].parts])
PackagesOf(items) == UNION {items[i].packages : i \in DOMAIN items}

Line(manager, args, parts, downloads, packages, manifest) ==
  [manager |-> manager, args |-> args,
   asked |-> [downloads |-> downloads, packages |-> packages, manifest |-> manifest, parts |-> parts]]

InstallLine(manager, sub, items) ==
  LET named   == PackagesOf(items)
      refused == manager = "yarn" /\ sub = "install" /\ \E i \in DOMAIN items : items[i] \in Plains
  IN Line(manager, <<Typed(<<sub>>)>> \o ArgsOf(items), PartsOf(items), ~refused, IF refused THEN {} ELSE named,
          named = {} /\ ~refused)

NpmInstalls ==
  {InstallLine(m, "install", s) :
     m \in {"npm", "pnpm"}, s \in Sequences(Plains \cup Values("--save-dev") \cup Switches \cup {Dash}, 3)}
  \cup {InstallLine("bun", "add", s) : s \in Sequences(Plains \cup Values("-d"), 2)}
  \cup {InstallLine("yarn", sub, s) :
          sub \in {"add", "install"}, s \in Sequences(Plains \cup Values("--dev"), 2)}

ExecuteLine(manager, items) == Line(manager, ArgsOf(items), PartsOf(items), TRUE, PackagesOf(items), FALSE)
Executes ==
  {ExecuteLine(m, s) :
     m \in Executors,
     s \in {<<i>> \o rest : i \in Plains,
             rest \in {<<>>, <<WordItem(<<"run">>, {})>>, <<Item(<<Flag("--yes")>>, <<"switch">>, {})>>}}}
  \cup {ExecuteLine("npx", <<i, j, WordItem(<<"tool">>, {})>>) : i \in Values("-p"), j \in Values("--package")}
  \cup {ExecuteLine("npx", <<i, j>>) :
          i \in Values("-p"), j \in {w \in Plains : IsScoped(w.args[1].text)}}

Ranged(op, word) == [op |-> op, version |-> MCNumbers[word]]
Requirements ==
  {WordItem(<<"a">>, {PypiPackage("a", {}, {})}),
   WordItem(<<"a", "[", "x", ",", "y", "]", ">=", "1", ",", "<", "2">>,
        {PypiPackage("a", {"x", "y"}, {Ranged(">=", "1"), Ranged("<", "2")})}),
   WordItem(<<"b", "[", "x", "]">>, {PypiPackage("b", {"x"}, {})}),
   WordItem(<<"b", "!=", "2", ",", "<=", "2">>,
        {PypiPackage("b", {}, {Ranged("!=", "2"), Ranged("<=", "2")})})}
  \cup {WordItem(<<"c", op, w>>, {PypiPackage("c", {}, {Ranged(op, w)})}) :
          op \in {"==", "~=", ">"}, w \in {"1.2", "1.2.3"}}
PoetryRequirements ==
  {WordItem(<<"a">> \o at \o <<op, w>>, {PypiPackage("a", {}, {Ranged(op, w)})}) :
     at \in {<<>>, <<"@">>}, op \in {"^", "~"}, w \in {"0.0.3", "0.2", "1", "1.2", "1.2.3"}}
  \cup {WordItem(<<"a", "[", "x", "]", "@", "*", w>>, {PypiPackage("a", {"x"}, {Ranged("*", w)})}) :
          w \in {"", "1", "1.2"}}
  \cup {WordItem(<<"b">>, {PypiPackage("b", {}, {})})}

PypiLine(manager, words, items, file) ==
  Line(manager, words \o ArgsOf(items \o file), PartsOf(items \o file), TRUE, PackagesOf(items), file # <<>>)
FileFlag == <<Item(<<Flag("-r"), Typed(<<"requirements.txt">>)>>, <<"takes", "value">>, {})>>
PypiInstalls ==
  {PypiLine("pip", <<Typed(<<"pip">>), Typed(<<"install">>)>>, s, f) :
     s \in Sequences(Requirements, 2), f \in {<<>>, FileFlag}}
  \cup {PypiLine("uv", <<Typed(<<"pip">>), Typed(<<"install">>)>>, s, FileFlag) : s \in Sequences(Requirements, 1)}
  \cup {PypiLine("poetry", <<Flag("-v"), Typed(<<"add">>)>>, s, <<>>) : s \in Sequences(PoetryRequirements, 1) \ {<<>>}}
Lockfiles ==
  {Line("poetry", <<Typed(<<"install">>)>>, <<>>, TRUE, {}, TRUE), Line("uv", <<Typed(<<"sync">>)>>, <<>>, TRUE, {}, TRUE),
   Line("uv", <<Typed(<<"pip">>), Typed(<<"sync">>), Typed(<<"dev.txt">>)>>, <<>>, TRUE, {}, TRUE),
   Line("yarn", <<>>, <<>>, TRUE, {}, TRUE)}

\* Lines that cannot be read, or that ask for help.
Unreadable ==
  {Line("npm", <<Typed(<<"i">>), Typed(<<"a", "1", "2">>)>>, <<"word">>, FALSE, {}, FALSE),
   Line("npm", <<Typed(<<"i">>), Flag("--help")>>, <<"help">>, FALSE, {}, FALSE),
   Line("npx", <<Flag("--help")>>, <<"help">>, FALSE, {}, FALSE),
   Line("npm", <<Typed(<<"i">>), Flag("-D")>>, <<"takes">>, FALSE, {}, FALSE),
   Line("pip", <<Typed(<<"install">>), Flag("-h")>>, <<"help">>, FALSE, {}, FALSE),
   Line("pip", <<Typed(<<"install">>), Typed(<<"a", "[", "x">>)>>, <<"word">>, FALSE, {}, FALSE),
   Line("poetry", <<Typed(<<"add">>), Typed(<<"^", "1">>)>>, <<"word">>, FALSE, {}, FALSE)}

\* Commands that install nothing: of those that are not listed nothing is known.
Subcommand(manager, words, downloads) ==
  Line(manager, [i \in DOMAIN words |-> Typed(<<words[i]>>)], <<>>, downloads, {}, FALSE)
Others ==
  {Subcommand(m, ws, TRUE) :
     m \in Npms \cup Pypis,
     ws \in {<<"update">>, <<"exec", "config">>, <<"run", "list">>}}
  \cup {Subcommand(m, <<m, "upgrade", "show">>, TRUE) : m \in Npms \cup Pypis}
  \cup {Subcommand(m, <<"config">>, m \in {"bun", "uv"}) : m \in Npms \cup Pypis}
  \cup {Line("npm", <<Assigned("--prefix", <<"x">>), Typed(<<"ls">>)>>, <<>>, FALSE, {}, FALSE)}

MCCommandLines ==
  NpmInstalls \cup Executes \cup PypiInstalls \cup Lockfiles \cup Unreadable \cup Others
=============================================================================
