--------------------------- MODULE MCSandboxedRun ---------------------------
(* An instance of SandboxedRun for TLC: profiles as they are shipped, and     *)
(* files of a user that inherit from them, take the name of one, or are no    *)
(* profile.                                                                 *)
EXTENDS SandboxedRun

Usual == [enabled |-> TRUE, override |-> FALSE, listed |-> TRUE, on |-> TRUE, loads |-> TRUE,
          applies |-> TRUE, available |-> TRUE, denies |-> TRUE, pidNs |-> TRUE]

\* Every way through ApplySandbox, and the two switches of the policy.
MCConfigs ==
  {Usual, [Usual EXCEPT !.listed = FALSE, !.override = TRUE, !.pidNs = FALSE],
   [Usual EXCEPT !.enabled = FALSE], [Usual EXCEPT !.on = FALSE],
   [Usual EXCEPT !.listed = FALSE], [Usual EXCEPT !.loads = FALSE],
   [Usual EXCEPT !.applies = FALSE], [Usual EXCEPT !.available = FALSE]}
MCHome == <<"h">>
MCCwd == <<"w">>
MCTmp == <<"tmp">>
MCWild == [x \in {".env.*", "py*"} |-> IF x = "py*" THEN {"py3"} ELSE {".env.local"}]
MCDangerousFiles ==
  {[base |-> <<".env">>, tail |-> <<>>], [base |-> <<>>, tail |-> <<".env.*">>],
   [base |-> <<".ssh">>, tail |-> <<>>]}
MCSystemPaths == {<<"etc", "hosts">>, <<"bin">>, <<"usr", "bin">>}
MCExecDirs == UNION {{<<d>>, <<"usr", d>>} : d \in {"bin", "sbin", "lib", "lib64"}}
MCDevices == {<<"dev", "null">>}
MCTerminals == {<<"dev", "pts">>}

Host(text) == Literal("", <<text>>)
NoRules == [l \in Lists |-> {}]
Unset == [f \in Flags |-> "unset"]
P(name, inherits, managers, rules, flags) ==
  [name |-> name, inherits |-> inherits, managers |-> managers,
   rules |-> rules @@ NoRules, flags |-> flags @@ Unset]

MCBuiltins ==
  [n \in {"base", "npx", "pnpm"} |->
     CASE n = "base" ->
       P("base", "", {"npm", "npx", "pnpm"},
         [allow_read |-> {Literal("/", <<>>), Below("CWD", <<>>), Below("HOME", <<".npm">>)},
          allow_write |-> {Below("TMPDIR", <<>>), Below("CWD", <<"mods">>), Below("HOME", <<".npm">>)},
          deny_write |-> {Below("/", <<"etc">>), Literal("CWD", <<".env">>),
                          RuleText("CWD", <<>>, FALSE, <<".env.*">>)},
          allow_outbound |-> {Host("registry")}, deny_outbound |-> {Host("all")},
          allow_exec |-> {Literal("/", <<"usr", "bin", "node">>), Below("HOME", <<".npm">>)},
          deny_exec |-> {Literal("/", <<"usr", "bin", "curl">>),
                         RuleText("/", <<"usr", "bin">>, FALSE, <<"py*">>)}],
         [pty |-> "true"])
     [] n = "npx" ->
       P("npx", "base", {"npx"},
         [allow_write |-> {Below("CWD", <<>>), Literal("CWD", <<".git", "config">>)},
          deny_write |-> {Literal("CWD", <<".env">>)}],
         [network_bind |-> "true"])
     [] n = "pnpm" ->
       P("pnpm", "base", {"pnpm"},
         [allow_write |-> {RuleText("CWD", <<>>, FALSE, <<".env.*">>), Literal("CWD", <<".store">>)},
          allow_bind |-> {Host("any")}], <<>>)]

Mine ==
  P("mine", "npx", {"npx", "pnpm"},
    [allow_read |-> {Literal("HOME", <<".ssh">>), Literal("CWD", <<".ssh">>), Literal("FOO", <<"x">>)},
     allow_write |-> {Literal("CWD", <<".git", "hooks">>), Literal("CWD", <<".env">>), Below("CWD", <<"src">>)},
     deny_read |-> {RuleText("CWD", <<>>, TRUE, <<"key">>), Below("/", <<"proc", "sys">>), Literal("/", <<"tmp", "x">>)},
     deny_write |-> {Literal("/", <<"tmp", "x">>), RuleText("CWD", <<>>, TRUE, <<"key">>),
                     RuleText("CWD", <<>>, TRUE, <<".env.*">>)},
     deny_exec |-> {Literal("HOME", <<".npm">>), RuleText("CWD", <<>>, TRUE, <<"key">>)},
     allow_outbound |-> {Literal("FOO", <<"port">>)}, deny_outbound |-> {Host("registry")}],
    [git_config |-> "true", pty |-> "false"])
Alone ==
  P("alone", "", {"npx"},
    [allow_read |-> {Below("/", <<>>), Below("/", <<"proc">>), Below("/", <<"usr">>), Literal("CWD", <<".env">>)},
     allow_write |-> {Literal("CWD", <<"new", "f">>), Literal("CWD", <<".ssh">>), Literal("CWD", <<"d", "e">>), RuleText("CWD", <<>>, TRUE, <<"key">>)},
     deny_write |-> {Literal("/", <<"tmp", "x">>)},
     deny_read |-> {Literal("CWD", <<".env">>)}], <<>>)

MCUserFiles ==
  { (<<"npx", "yml">> :> Alone) @@ (<<"mine", "yaml">> :> Mine) @@ (<<"other", "yml">> :> Alone),
    (<<"mine", "yml">> :> Unreadable) @@ (<<"mine", "yaml">> :> Mine),
    (<<"mine", "yml">> :> [Mine EXCEPT !.inherits = "nowhere"])
      @@ (<<"other", "yml">> :> [Alone EXCEPT !.managers = {}]),
    (<<"mine", "yml">> :> [Mine EXCEPT !.inherits = "", !.rules = NoRules]) }

W(bare, name, ext) == [bare |-> bare, name |-> name, ext |-> ext]
MCWanted == {W(TRUE, "npx", "-"), W(TRUE, "pnpm", "-"), W(TRUE, "base", "-"), W(TRUE, "mine", "-"),
             W(FALSE, "other", "yml"), W(FALSE, "npx", "yml")}
O(type, form, value) == [type |-> type, form |-> form, value |-> value]
MCRawOverrides ==
  {<<>>,
   <<O("write", "", Literal("", <<".env">>)), O("exec", "/", Literal("/", <<"usr", "bin", "curl">>))>>,
   <<O("write", "/", Below("/", <<"etc">>)), O("read", "/", Literal("/", <<"h", ".ssh">>))>>,
   <<O("write", "/", Literal("/", <<"etc", "hosts">>)), O("net_bind", "any port", Host("b"))>>,
   <<O("net_connect", "exact", Host("c")), O("write", "~", Literal("/", <<"x">>))>>}

MCDisks ==
  {{<<"w", ".env">>, <<"w", ".env.local">>, <<"w", "src", ".env">>, <<"w", "src", "key">>,
    <<"w", ".git", "config">>, <<"w", ".git", "hooks", "pre">>, <<"w", "mods", "m">>,
    <<"h", ".ssh", "id">>, <<"h", ".npm", "p">>, <<"usr", "bin", "curl">>, <<"usr", "bin", "py3">>,
    <<"usr", "bin", "node">>, <<"etc", "hosts">>, <<"tmp", "x">>, <<"dev", "null">>, <<"dev", "pts", "1">>,
    <<"proc", "sys", "k">>},
   {<<"w", "a">>, <<"w", "b">>, <<"w", "key">>, <<"w", "d", "key">>, <<"w", "d", "e", "f", "key">>, <<"w", "d", ".env.local">>,
    <<"h", ".env">>, <<"w", ".ssh", "id">>,
    <<"h", ".npm", "q">>, <<"usr", "bin", "node">>, <<"etc", "hosts">>, <<"tmp", "y">>}}

MCDrivers == {"landlock", "bubblewrap", "seatbelt"}
MCManagers == {"npx", "pnpm"}
MCNoProfile == [name |-> ""]

=============================================================================
