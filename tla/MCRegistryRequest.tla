-------------------------- MODULE MCRegistryRequest --------------------------
(* An instance of RegistryRequest for TLC.                                  *)
EXTENDS RegistryRequest

MCScopes    == [s \in {"@a"} |-> "a"]
MCVersions  == {<<<<"1.0">>>>, <<<<"2">>>>, << <<"1.0">>, <<"beta1">> >>}
MCBuildTags == {<<"2">>}

NpmHost == <<"registry", "npmjs", "org">>
GithubHost == <<"npm", "pkg", "github", "com">>
FilesHost == <<"files", "pythonhosted", "org">>
OrgHost == <<"pypi", "org">>
TestHost == <<"test", "pypi", "org">>
MCRegistries ==
  [eco \in {"npm", "pypi"} |->
     IF eco = "npm" THEN {NpmHost, GithubHost} ELSE {FilesHost, OrgHost, TestHost}]
MCAnalysed == {NpmHost, FilesHost, OrgHost}

Names1(atoms) == [k \in DOMAIN atoms |-> <<atoms[k]>>]
NpmNames == {Names1(n) : n \in {<<"a">>, <<"b">>, <<"a", "b">>, <<"a", "2">>, <<"a", "a">>}}
NpmVersions == {Names1(v) : v \in {<<"1.0">>, <<"1.0", "beta1">>, <<"1.0", "2">>}}
PypiNames == {Names1(n) : n \in {<<"a">>, <<"a", "b">>, <<"a", "2">>, <<"a", "2", "b">>}}

Seeking(kind, scope, name, version) ==
  [kind |-> kind, scope |-> scope, name |-> name, version |-> version]
Request(eco, host, path, asked) ==
  [eco |-> eco, host |-> host, path |-> path, asked |-> asked]
Other(eco, host, path) == Request(eco, host, path, Seeking("other", "", <<>>, <<>>))

NpmDownloads ==
  {Request("npm", h, NpmTarball(s, n, v), Seeking("download", s, n, v)) :
     h \in {NpmHost, <<"cdn">> \o NpmHost}, s \in {"", "@a"}, n \in NpmNames, v \in NpmVersions}
  \cup {Request("npm", NpmHost, NpmLongTarball("@a", n, v), Seeking("download", "@a", n, v)) :
          n \in NpmNames, v \in NpmVersions}
PypiDownloads ==
  {Request("pypi", FilesHost, PypiSdist(n, v), Seeking("download", "", FlattenSeq(n), v)) :
     n \in PypiNames, v \in MCVersions}
  \cup {Request("pypi", h, PypiWheel(n, v, b), Seeking("download", "", FlattenSeq(n), v)) :
          h \in {FilesHost, <<"cdn">> \o FilesHost}, n \in PypiNames,
          v \in {<<<<"1.0">>>>, <<<<"2">>>>}, b \in {<<>>, <<<<"2">>>>}}
  \cup {Request("pypi", OrgHost,
                <<Word("simple"), Word("a"), Segment(<< <<"a">>, <<"1.0">> >>, ".tgz")>>,
                Seeking("download", "", <<"a">>, <<<<"1.0">>>>)),
        \* wheels whose names keep their hyphens
        Request("pypi", FilesHost,
                <<Word("packages"), Segment(Names1(<<"a", "b", "1.0", "py3", "none", "any">>), ".whl")>>,
                Seeking("download", "", <<"a", "b">>, <<<<"1.0">>>>)),
        Request("pypi", FilesHost,
                <<Word("packages"),
                  Segment(Names1(<<"a", "b", "a", "1.0", "py3", "none", "any">>), ".whl")>>,
                Seeking("download", "", <<"a", "b", "a">>, <<<<"1.0">>>>))}
Pages ==
  {Request("npm", NpmHost, <<Plain(Names1(<<"a", "b">>))>>,
           Seeking("page", "", Names1(<<"a", "b">>), <<>>)),
   Request("npm", NpmHost, <<Word("@a"), Word("b")>>, Seeking("page", "@a", <<<<"b">>>>, <<>>)),
   Request("pypi", OrgHost, <<Word("simple"), Plain(<< <<"a", "b">> >>)>>,
           Seeking("page", "", <<"a", "b">>, <<>>))}
OtherRequests ==
  {Other("npm", NpmHost, <<>>), Other("npm", NpmHost, <<Hyphen, Word("v1"), Word("search")>>),
   Other("npm", NpmHost, <<Word("@a")>>),
   Other("npm", NpmHost, <<Word("a"), Hyphen, Segment(Names1(<<"b", "1.0">>), ".tgz")>>),
   Other("npm", GithubHost, <<Word("@a"), Word("b")>>),
   Other("pypi", OrgHost, <<Word("pypi"), Word("a"), Word("json")>>),
   Other("pypi", OrgHost, <<Word("pypi"), Word("a"), Word("1.0"), Word("json")>>),
   Other("pypi", OrgHost, <<Word("stats"), Word("a")>>),
   Other("pypi", FilesHost, <<Word("packages"), Segment(<< <<"a">>, <<"1.0">> >>, ".asc")>>),
   Other("pypi", TestHost, <<Word("simple"), Word("a")>>),
   Other("pypi", <<"cdn">> \o TestHost, <<Word("simple"), Word("a")>>),
   Other("pypi", <<"example", "org">>, <<Word("a")>>)}
MCRequests == NpmDownloads \cup PypiDownloads \cup Pages \cup OtherRequests

V == {"v1", "v2", "v3"}
MCPackuments ==
  {[versions |-> vs, time |-> t, tags |-> g] :
     vs \in {V, V \ {"v3"}}, t \in [V -> {0, 3, 4, 5}],
     g \in [{"latest", "next"} -> {"v1", "v2"}]}
File(version, name, date) == [version |-> version, name |-> name, date |-> date]
MCSimplePages ==
  SUBSET {File("v1", "sdist", 3), File("v1", "wheel", 5), File("v2", "wheel", 4),
          File("v2", "sdist", 0), File("v3", "sdist", 5), File("", "sig", 5)}
=============================================================================
