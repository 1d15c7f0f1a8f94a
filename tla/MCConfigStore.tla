--------------------------- MODULE MCConfigStore ---------------------------
(* Apps with a global flag, two command flags and a field, and what their    *)
(* users ask of them.                                                        *)
EXTENDS ConfigStore

Base(name, schema) == [FlagBase EXCEPT !.name = name, !.schema = schema]
Color == [Base("color", "str") EXCEPT !.choices = {"a", "b"}]
Level == [Base("n", "int") EXCEPT !.presence = "default", !.dflt = <<"1">>]
Tags == [Base("tag", "list") EXCEPT !.unique = TRUE]
ApiKey == [Base("api.key", "str") EXCEPT !.presence = "required"]
JsonApp == [format |-> "json", noDefault |-> FALSE, globals |-> <<Color>>,
            flags |-> <<Level, Tags>>, fields |-> <<ApiKey>>, bound |-> {"api.key"}]
Fieldless == [JsonApp EXCEPT !.fields = <<>>]
MCApps == {JsonApp, [Fieldless EXCEPT !.format = "toml"], [Fieldless EXCEPT !.noDefault = TRUE]}

Ask(cmd) == [NoJob EXCEPT !.cmd = cmd]
Put1(key, words) == [Ask("set") EXCEPT !.key = key, !.words = words]
Drop1(key) == [Ask("set") EXCEPT !.key = key, !.write = "default"]
SetJobs == {Put1("color", <<"b">>), Put1("n", <<"2">>), Put1("n", <<"z">>), Put1("odd", <<"a">>),
            Drop1("n"), [Put1("tag", <<>>) EXCEPT !.write = "clear"]}
MCJobs ==
    SetJobs \cup {Ask("init"), Ask("edit"), Ask("show"), Ask("run")}
    \cup {[j EXCEPT !.dry = TRUE] : j \in {Put1("n", <<"2">>), Ask("init"), Ask("edit")}}
    \cup {[j EXCEPT !.door = "call"] : j \in {Put1("n", <<"2">>), Drop1("n")}}
    \cup {[j EXCEPT !.custom = TRUE] : j \in {Put1("n", <<"2">>), Ask("run")}}
    \cup {[j EXCEPT !.hermetic = TRUE] : j \in {Ask("show"), Ask("run")}}

Full == Table([color |-> <<"a">>, n |-> <<"1">>] @@ ("api.key" :> <<"a">>))
MCEdits == {BrokenFile, Table([color |-> <<"1">>]), Table([odd |-> <<"a">>])}
MCStarts == {AbsentFile, Full, BrokenFile}
=============================================================================
