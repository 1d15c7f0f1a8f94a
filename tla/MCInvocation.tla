---------------------------- MODULE MCInvocation ----------------------------
(* Small programs, accepted and refused ones, with the command lines,        *)
(* environments, configuration files and tool calls they are run with.       *)
EXTENDS CallChannel

Flag(name, schema) == [FlagBase EXCEPT !.name = name, !.schema = schema]
Within(p, d) == [d EXCEPT !.path = p]
Default(d, value) == [d EXCEPT !.presence = "default", !.dflt = value]
FromEnvironment(d) == [d EXCEPT !.env = TRUE]
ShortOf(d, s) == [d EXCEPT !.short = s]
Required(d) == [d EXCEPT !.presence = "required"]
Arg(name) == [ArgBase EXCEPT !.name = name]
Program(flags, commands) ==
    [globals |-> flags, groups |-> {<<"grp">>}, commands |-> commands,
     conflict |-> "cli-wins", configEnabled |-> TRUE]

\* Globals on both sides of a command with plain flags, and a passthrough.
Globals == <<[ShortOf(FromEnvironment(Flag("g", "str")), "g") EXCEPT !.conflict = "error"],
             Flag("loud", "bool"),
             [Flag("tag", "list") EXCEPT !.unique = TRUE]>>
Run == [CommandBase EXCEPT
    !.decls = <<ShortOf(FromEnvironment(Default(Flag("n", "int"), <<"1">>)), "n"),
                [Flag("word", "str") EXCEPT !.choices = {"a", "stdin", "b"}, !.env = TRUE,
                                            !.conflict = "error"]>>,
    !.args = <<[Arg("x") EXCEPT !.presence = "optional"], [Arg("more") EXCEPT
                    !.variadic = TRUE, !.presence = "optional"]>>,
    !.dryRun = FALSE]
PlainProgram == Program(Globals, (<<"run">> :> Run) @@
            (<<"grp", "pass">> :> [CommandBase EXCEPT !.kind = "passthrough"]))

\* A selector by token over a selector by members, with a shared short form.
Fast == <<<<"mode", "fast">>>>
Slow == <<<<"mode", "slow">>>>
Mine == Append(Slow, <<"who", "me">>)
Mode == FromEnvironment(Default([SelectorBase("token") EXCEPT !.name = "mode",
            !.alts = <<Alternative("fast"), Alternative("slow")>>], <<"fast">>))
Who == Within(Slow, [SelectorBase("member") EXCEPT !.name = "who",
            !.alts = <<Alternative("me"), [Alternative("team") EXCEPT !.schema = "str"]>>])
ScopedDecls ==
    <<Mode, Within(Fast, ShortOf(Flag("level", "str"), "s")),
      Within(Fast, FromEnvironment(Flag("deep", "bool"))),
      Within(Slow, ShortOf([Flag("label", "str") EXCEPT !.refused = {"b"}], "s")),
      Who, Within(Mine, FromEnvironment(Default(Flag("note", "str"), <<"b">>))),
      Flag("n", "int")>>
Scoped == Program(<<>>, <<"do">> :> [CommandBase EXCEPT !.decls = ScopedDecls])

\* Constraints over flags, an argument and each other.
Member(name, when) == [name |-> name, when |-> when]
Constraint(kind, name, members, value) ==
    [kind |-> kind, name |-> name, members |-> members, value |-> value]
RuleDecls == <<FromEnvironment(Flag("a", "bool")), Flag("b", "bool"), Flag("c", "bool"),
               Flag("s", "str"), Flag("t", "str")>>
Rules == Program(<<>>, <<"try">> :> [CommandBase EXCEPT
    !.decls = RuleDecls,
    !.args = <<[Arg("x") EXCEPT !.presence = "optional"]>>,
    !.constraints =
        <<Constraint("implies", "ab", <<Member("a", ""), Member("b", "")>>, "true"),
          Constraint("implies", "bc", <<Member("b", ""), Member("c", "")>>, "false"),
          Constraint("requires", "st", <<Member("s", ""), Member("c", "")>>, ""),
          Constraint("all-or-none", "tx", <<Member("t", ""), Member("x", "")>>, ""),
          Constraint("at-least-one", "any", <<Member("tx", ""), Member("a", "true")>>, "")>>])

\* An update of two properties, one of which can be cleared.
Edit == [CommandBase EXCEPT !.effect = "mutating",
    !.decls = <<Flag("title", "str"), [FromEnvironment(Flag("body", "str")) EXCEPT !.nullable = TRUE]>>,
    !.args = <<Arg("id")>>,
    !.update = <<[properties |-> <<"title", "body">>, identity |-> <<"id">>, mode |-> "partial"]>>]
Update == Program(<<>>, <<"edit">> :> Edit)

\* The same update beside a selector.
Routed == Program(<<>>, <<"edit">> :> [Edit EXCEPT !.decls = @ \o
    <<[Mode EXCEPT !.name = "via"], Within(<<<<"via", "slow">>>>, Flag("hint", "str"))>>])

\* Declarations that are refused: names that could meet, a default choice that
\* needs more, a short form two live names claim, a constraint on a constraint
\* of its own, an update of a flag that must be given, a global named again.
Refuse1(cmd) == Program(Globals, <<"do">> :> cmd)
BadPrograms ==
    [twice   |-> Refuse1([CommandBase EXCEPT !.decls = ScopedDecls \o <<Flag("note", "int")>>]),
     needs   |-> Refuse1([CommandBase EXCEPT !.decls =
                    <<Mode, Within(Fast, Required(Flag("level", "str")))>>]),
     shorts  |-> Refuse1([CommandBase EXCEPT !.decls =
                    <<Mode, Within(Fast, ShortOf(Flag("level", "str"), "s")), ShortOf(Flag("n", "int"), "s")>>]),
     cycle   |-> Refuse1([CommandBase EXCEPT !.decls = RuleDecls, !.constraints =
                    <<Constraint("at-least-one", "p", <<Member("q", ""), Member("s", "")>>, ""),
                      Constraint("at-least-one", "q", <<Member("p", ""), Member("t", "")>>, "")>>]),
     writes  |-> Refuse1([Edit EXCEPT !.decls = <<Required(Flag("title", "str")), @[2]>>]),
     global  |-> Refuse1([CommandBase EXCEPT !.decls = <<Flag("g", "str")>>])]

\* Names that meet without being refused: a selector and a global, an argument
\* and a flag, an argument and a global; with an implication declared before
\* the one that sets its trigger, and members that must not be empty.
Meeting == Program(<<Flag("g", "str"), Flag("x", "str")>>, <<"do">> :> [CommandBase EXCEPT
    !.decls = <<[Mode EXCEPT !.name = "g"], Flag("y", "str"), Flag("s", "str"),
                Flag("p", "bool"), Flag("q", "bool"), Flag("r", "bool")>>,
    !.args = <<[Arg("x") EXCEPT !.presence = "optional"], [Arg("y") EXCEPT !.presence = "optional"]>>,
    !.constraints =
        <<Constraint("implies", "qr", <<Member("q", ""), Member("r", "")>>, "true"),
          Constraint("implies", "pq", <<Member("p", ""), Member("q", "")>>, "true"),
          Constraint("all-or-none", "xs", <<Member("x", "non_empty"), Member("s", "non_empty")>>, "")>>])

\* A selector by members whose default can be declined.
Pick == Program(<<>>, <<"do">> :> [CommandBase EXCEPT !.decls =
    <<Default([SelectorBase("member") EXCEPT !.name = "pick", !.alts =
        <<[Alternative("all") EXCEPT !.short = "a"], [Alternative("one") EXCEPT !.schema = "int"]>>], <<"all">>),
      Within(<<<<"pick", "one">>>>, Required(Flag("why", "str")))>>])

\* A selector an argument hides, and a flag of one scope with the name of a
\* choice in the other.
Hidden == Program(<<>>, <<"do">> :> [CommandBase EXCEPT
    !.decls = <<Mode, Within(Fast, Flag("me", "bool")), Who, Within(Slow, Flag("label", "str"))>>,
    !.args = <<[Arg("mode") EXCEPT !.presence = "optional"]>>])
Both == Program(<<>>, <<"do">> :> [CommandBase EXCEPT !.decls =
    <<Mode, Within(Fast, FromEnvironment(Flag("me", "bool"))), Who, Within(Slow, Flag("label", "str"))>>])

\* Scopes that share a short form, and a name that claims it in one of them only.
Lent == Program(<<>>, <<"do">> :> [CommandBase EXCEPT !.decls =
    <<Mode, Within(Fast, ShortOf(Flag("a", "str"), "s")),
      Within(Slow, Flag("a", "str")), Within(Slow, ShortOf(Flag("b", "str"), "s"))>>])

MCPrograms ==
    [plain |-> PlainProgram, scoped |-> Scoped, pick |-> Pick, rules |-> Rules,
     update |-> Update, routed |-> Routed, meeting |-> Meeting,
     hidden |-> Hidden, both |-> Both, lent |-> Lent] @@ BadPrograms

-----------------------------------------------------------------------------
CONSTANT MaxTokens  \* tokens after a fixed beginning of a command line

Lines(start, alphabet, n) ==
    {start \o l : l \in UNION {[1..k -> alphabet] : k \in 0..n}}

Nothing == [env |-> <<>>, config |-> <<>>, broken |-> FALSE]
Bound == [Nothing EXCEPT !.env = [g |-> <<"a">>, n |-> <<"2">>, word |-> <<StdinWord>>,
                                  mode |-> <<"slow">>, note |-> <<"a">>, deep |-> <<"true">>,
                                  a |-> <<"true">>, body |-> <<"b">>],
                         !.config = [g |-> <<"a">>, tag |-> <<"a", "b">>, word |-> <<"stdin">>,
                                     n |-> <<"1">>, level |-> <<"a">>, label |-> <<"a">>]]
Filed == [Bound EXCEPT !.env = <<>>]
Broken == [Filed EXCEPT !.broken = TRUE]

Scene(name, lines, ambients) ==
    {[program |-> name, argv |-> l, ambient |-> m, params |-> <<>>] : l \in lines, m \in ambients}

PlainTokens == {Long("n"), Word("2"), Inline("word", StdinWord), Inline("word", "a"), Inline("loud", "a"),
                Long("tag"), Word("b"), Short("g"), Stop, Short("z"), Long("dry-run")}
LeadTokens == {Long("tag"), Word("b"), Inline("g", "a"), Short("g"), Long("no-loud"), Long("loud"),
               Inline("loud", "a"), Word("run"), Word("grp"), Word("pass"), Stop, Long("odd"),
               Long("json"), Long("dry-run"), Long("hermetic"), Long("config"), Inline("config", "f"),
               Long("mcp"), Long("dump-schema"), Long("help"), Short("v"), Word("help"), Word("version"), Lint}
ScopedTokens == {Inline("mode", "slow"), Short("s"), Word("b"), Long("me"), Inline("team", "a"),
                 Long("no-me"), Long("deep"), Inline("note", "a")}
RuleTokens == {Long("a"), Long("no-b"), Long("c"), Inline("s", "x"), Inline("t", "x"), Word("x")}
UpdateTokens == {Inline("title", "a"), Inline("body", "a"), Long("unset-body"), Word("i")}

MeetingTokens == {Inline("g", "a"), Inline("x", "a"), Word("x"), Word(""), Inline("s", ""), Inline("s", "a"),
                  Inline("y", "b"), Long("p"), Long("q")}
HiddenTokens == {Inline("mode", "slow"), Word("slow"), Word("a"), Long("me"), Long("no-me"), Inline("label", "a")}
LentTokens == {Inline("mode", "slow"), Short("s"), Word("b"), Inline("a", "b"), Inline("b", "a")}
PickTokens == {Long("all"), Short("a"), Long("no-all"), Inline("one", "2"), Inline("one", "b"), Inline("why", "b")}
BadTokens == {Inline("mode", "slow"), Long("me"), Inline("note", "2"), Inline("level", "b"), Short("g"), Word("b")}

LineScenes ==
    Scene("plain", Lines(<<>>, LeadTokens, MaxTokens), {Filed})
    \cup Scene("plain", Lines(<<>>, LeadTokens, 2), {Bound, Broken})
    \cup Scene("plain", Lines(<<Long("tag"), Word("a"), Word("run")>>, PlainTokens, MaxTokens), {Nothing, Bound})
    \cup Scene("scoped", Lines(<<Word("do")>>, ScopedTokens, MaxTokens + 1), {Nothing, Bound})
    \cup Scene("scoped", Lines(<<Long("hermetic"), Word("do")>>, ScopedTokens, 2), {Bound})
    \cup Scene("pick", Lines(<<Word("do")>>, PickTokens, MaxTokens + 1), {Nothing})
    \cup Scene("meeting", Lines(<<Word("do")>>, MeetingTokens, MaxTokens),
               {Nothing, [Nothing EXCEPT !.env = [g |-> <<"slow">>]]})
    \cup UNION {Scene(p, Lines(<<Word("do")>>, HiddenTokens, MaxTokens), {Nothing, Bound}) : p \in {"hidden", "both"}}
    \cup Scene("lent", Lines(<<Word("do")>>, LentTokens, MaxTokens), {Nothing})
    \cup UNION {Scene(p, Lines(<<Word("do")>>, BadTokens, MaxTokens), {Bound}) : p \in DOMAIN BadPrograms}
    \cup Scene("rules", Lines(<<Word("try")>>, RuleTokens, MaxTokens + 1), {Nothing, Bound})
    \cup Scene("update", Lines(<<Word("edit")>>, UpdateTokens, MaxTokens + 1), {Nothing, Bound})

\* A tool call, and the command line that says the same: up to three of the
\* parameters a command is offered, with one of the values offered for each.
Offers(offer, n) ==
    UNION {{g \in [T -> UNION {offer[x] : x \in T}] : \A x \in T : g[x] \in offer[x]} :
            T \in {S \in SUBSET DOMAIN offer : Cardinality(S) <= n}}
CallScene(name, p, offer) ==
    {[program |-> name, argv |-> <<>>, ambient |-> Bound, params |-> [path |-> p, given |-> g]] :
        g \in Offers(offer, 3)}

Yes == {<<"true">>, <<"false">>}
CallScenes ==
    CallScene("plain", <<"run">>, [n |-> {<<"2">>, <<"z">>}, word |-> {<<"a">>, <<"c">>, Absent},
        g |-> {<<"a">>}, loud |-> Yes, tag |-> {<<"a", "b">>}, x |-> {<<"b">>}, strange |-> {<<"a">>}])
    \cup CallScene("scoped", <<"do">>, [mode |-> {<<"slow">>, <<"fast">>, <<"odd">>}, me |-> Yes,
        team |-> {<<"a">>}, label |-> {<<"a">>, <<"b">>}, level |-> {<<"a">>}, note |-> {<<"a">>},
        deep |-> Yes])
    \cup CallScene("rules", <<"try">>, [a |-> Yes, b |-> Yes, s |-> {<<"x">>}, t |-> {<<"x">>},
        x |-> {<<"b">>}])
    \cup CallScene("update", <<"edit">>, [title |-> {<<"a">>, Absent}, body |-> {<<"a">>, Absent},
        id |-> {<<"i">>}])
    \cup CallScene("pick", <<"do">>, [all |-> Yes, one |-> {<<"2">>, <<"b">>}, why |-> {<<"b">>},
        pick |-> {<<"odd">>}])

\* An update beside a selector, with a null that clears a property: what
\* ChannelsAgree excepts.
RoutedScenes ==
    CallScene("routed", <<"edit">>, [title |-> {<<"a">>, Absent}, body |-> {<<"a">>, Absent}, id |-> {<<"i">>},
        via |-> {<<"slow">>}, hint |-> {<<"a">>}])

PassScene(tokens) ==
    [program |-> "plain", argv |-> <<>>, ambient |-> Bound,
     params |-> [path |-> <<"grp", "pass">>,
                 given |-> ("_args" :> tokens) @@ ("g" :> <<"a">>)]]

Start(scene) ==
    /\ app = MCPrograms[scene.program] /\ ambient = scene.ambient /\ params = scene.params
    /\ argv = IF params = <<>> THEN scene.argv ELSE Spelled(params.path, params.given)
    /\ called = Uncalled
    /\ InvocationInit

Init ==
    \/ \E s \in LineScenes \cup CallScenes \cup RoutedScenes : Start(s)
    \/ \E tokens \in Lines(<<>>, {Word("b"), Long("json"), Stop}, 2) : Start(PassScene(tokens))
Next == CallChannelNext
Spec == Init /\ [][Next]_allVars

=============================================================================
