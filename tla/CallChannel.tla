---------------------------- MODULE CallChannel ----------------------------
(* The programmatic way to a handler beside the command line: a tool call    *)
(* names flat parameters, which tool.ts turns into the nested record that    *)
(* app.call (invoke.ts) takes.  No environment and no configuration file is  *)
(* read on this way, and the two must agree on what a handler receives.      *)
EXTENDS Invocation

VARIABLES
    params,  \* the parameters of the tool call, by name; empty when there is none
    called   \* what the call came to

callVars == <<params, called>>
allVars == <<vars, callVars>>

Uncalled == [NoOutcome EXCEPT !.kind = "uncalled"]
CallRefused == [NoOutcome EXCEPT !.kind = "refused"]

\* A pre-typed value; absence is not one.
TypedOK(f, value) == value # Absent /\ Coercible(f, value)
IsSupplied(given, d) == d.name \in DOMAIN given

-----------------------------------------------------------------------------
(* A record of choices becomes the tree a handler receives (invoke.ts).      *)

EmptyTree == [ok |-> TRUE, elected |-> <<>>, values |-> <<>>, provided |-> {}]

TakesPayload(sel, choice) ==
    sel.kind = "member" /\ \E a \in ToSet(sel.alts) : a.name = choice /\ TakesValue(a.schema)

FillSelector(tree, sel, record) ==
    LET Opened(choice, via) ==
            LET entry == <<ScopeOf(sel, choice), "value">>
                payload == TakesPayload(sel, choice)
                alt == CHOOSE a \in ToSet(sel.alts) : a.name = choice
                has == entry \in DOMAIN record.values
            IN  [tree EXCEPT
                    !.ok = @ /\ (payload => has /\ TypedOK([FlagBase EXCEPT !.schema = alt.schema],
                                                           record.values[entry])),
                    !.elected = (Key(sel) :> [choice |-> choice, via |-> via]) @@ @,
                    !.values = IF payload /\ has THEN (entry :> record.values[entry]) @@ @ ELSE @]
    IN  CASE Key(sel) \in DOMAIN record.elected ->
                Opened(record.elected[Key(sel)].choice, record.elected[Key(sel)].via)
          [] OTHER -> IF sel.presence = "default" THEN Opened(sel.dflt[1], "default")
                      ELSE [tree EXCEPT !.ok = FALSE]

\* In a record an optional field may be null, which is its absence.
FillFlag(tree, f, record) ==
    LET value == IF Key(f) \in DOMAIN record.values THEN record.values[Key(f)] ELSE f.dflt
        ok == IF Key(f) \in DOMAIN record.values
              THEN TypedOK(f, value) \/ (value = Absent /\ f.presence = "optional")
              ELSE f.presence # "required"
    IN  [tree EXCEPT !.ok = @ /\ ok, !.values = (Key(f) :> value) @@ @]

FillTree(cmd, record) ==
    FoldLeft(LAMBDA tree, d :
                IF ~LiveIn(tree.elected, d.path) \/ (IsFlag(d) /\ d.path = <<>>) THEN tree
                ELSE IF IsSelector(d) THEN FillSelector(tree, d, record)
                ELSE FillFlag(tree, d, record),
             [EmptyTree EXCEPT !.provided = record.provided], cmd.decls)

\* app.call: null clears a nullable property, and is no value of anything else.
CallApp(cmd, given, record) ==
    LET supplied == {f \in Flags(cmd) \cup ToSet(app.globals) : IsSupplied(given, f)}
        cleared == {f.name : f \in {g \in supplied : g.nullable /\ given[g.name] = Absent}}
        own == [n \in {f.name : f \in supplied} |-> [value |-> given[n], via |-> "cli"]]
        tree == FillTree(cmd, record)
        all == Defaulted(ToSet(app.globals), [n \in DOMAIN own \cap NamesOf(app.globals) |-> own[n]])
        known == Names(Flags(cmd)) \cup NamesOf(app.globals) \cup NamesOf(cmd.args)
    IN  IF \/ ~tree.ok \/ ~all.ok \/ ~(DOMAIN given \subseteq known)
           \/ \E f \in supplied : f.name \notin cleared /\ ~TypedOK(f, given[f.name])
        THEN CallRefused
        ELSE LET chosen == SelectorStore(cmd, tree.elected)
                 args == [a \in DOMAIN given \cap NamesOf(cmd.args) |-> given[a]]
                 built == Build(cmd, Over(chosen, own), args, DOMAIN chosen, cleared)
             IN  IF built.ok
                 THEN [Delivered(built, tree, all.store) EXCEPT !.unsets = cleared]
                 ELSE CallRefused

\* A passthrough command's globals are handed on as they are.
CallPassthrough(given) ==
    LET globalsGiven == DOMAIN given \ {"_args"}
        all == Defaulted(ToSet(app.globals), [n \in globalsGiven |-> [value |-> given[n], via |-> "cli"]])
    IN  IF ~all.ok \/ ~(globalsGiven \subseteq NamesOf(app.globals)) THEN CallRefused
        ELSE [NoOutcome EXCEPT !.kind = "passthrough",
                !.args = IF "_args" \in DOMAIN given THEN given["_args"] ELSE <<>>,
                !.kwargs = [g \in DOMAIN all.store |-> all.store[g].value]]

-----------------------------------------------------------------------------
(* Flat parameters become a record (flatToCallKwargs in tool.ts).            *)

\* The choice flat parameters elect: none when they contradict each other.
ElectFlat(sel, given) ==
    LET named == IF IsSupplied(given, sel) THEN ToSet(given[sel.name]) ELSE {}
        Declines(a) == /\ a.name \notin named /\ IsSupplied(given, a)
                       /\ ~TakesValue(a.schema) /\ given[a.name] = <<"false">>
        declined == {a \in ToSet(sel.alts) : sel.kind = "member" /\ Declines(a)}
        chosen == {a.name : a \in {b \in ToSet(sel.alts) : b.name \in named \/
                        (sel.kind = "member" /\ IsSupplied(given, b) /\ ~Declines(b))}}
    IN  IF ~(named \subseteq AltNames(sel)) THEN {}
        ELSE IF chosen = {}
             THEN {[choice |-> c, via |-> "default"] :
                    c \in {sel.dflt[i] : i \in {j \in {1} : sel.presence = "default"}}}
        ELSE IF Cardinality(chosen) > 1 \/ declined # {} THEN {}
        ELSE {[choice |-> c, via |-> "cli"] : c \in chosen}

\* A scoped value is held to its declaration here; call() itself would not.
FlatStep(tree, d, given) ==
    IF ~LiveIn(tree.elected, d.path) \/ (IsFlag(d) /\ (d.path = <<>> \/ ~IsSupplied(given, d)))
    THEN tree
    ELSE IF IsFlag(d)
    THEN [tree EXCEPT
            !.ok = @ /\ TypedOK(d, given[d.name]) /\ ChoicesOK(d, given[d.name])
                     /\ ValidateOK(d, given[d.name]),
            !.values = (Key(d) :> given[d.name]) @@ @, !.provided = @ \cup {Key(d)}]
    ELSE IF ElectFlat(d, given) = {} THEN [tree EXCEPT !.ok = FALSE]
    ELSE LET e == CHOOSE x \in ElectFlat(d, given) : TRUE
             entry == <<ScopeOf(d, e.choice), "value">>
             payload == TakesPayload(d, e.choice)
             has == payload /\ e.choice \in DOMAIN given
         IN  [tree EXCEPT
                !.ok = @ /\ (payload => has),
                !.elected = (Key(d) :> e) @@ @,
                !.values = IF has THEN (entry :> given[e.choice]) @@ @ ELSE @,
                !.provided = IF has THEN @ \cup {entry} ELSE @]

FlatTree(cmd, given) ==
    FoldLeft(LAMBDA tree, d : FlatStep(tree, d, given), EmptyTree, cmd.decls)

\* The names a scope owns, and those the elected scopes own.
Owned(cmd) == ScopedNames(cmd)
ReachedAnyway(cmd, elected) == Owned(cmd) \* mutated: liveness forgotten
Reached(cmd, elected) ==
    Names({e \in Entries(cmd) : LiveIn(elected, e.decl.path)})
    \cup Names({d \in ToSet(cmd.decls) : LiveIn(elected, d.path)})

\* Without a selector the parameters are handed on as they are.
FlatToCall(cmd, given) ==
    LET tree == FlatTree(cmd, given)
        selectors == {d.name : d \in {e \in ToSet(cmd.decls) : IsSelector(e)}}
        plain == [n \in DOMAIN given \ (Owned(cmd) \cup selectors) |-> given[n]]
        checked == {f \in Flags(cmd) \cup ToSet(app.globals) : IsSupplied(given, f)}
    IN  IF selectors = {} THEN CallApp(cmd, given, EmptyTree)
        ELSE IF \/ ~tree.ok
                \/ (DOMAIN given \cap Owned(cmd)) \ Reached(cmd, tree.elected) # {}
                \/ \E f \in checked : ~TypedOK(f, given[f.name])
             THEN CallRefused
        ELSE CallApp(cmd, plain, tree)

ToolCall(p, given) ==
    IF app.commands[p].kind = "passthrough" THEN CallPassthrough(given)
    ELSE FlatToCall(app.commands[p], given)

-----------------------------------------------------------------------------
(* A tool call beside the command line that says the same.                   *)

\* The tokens that give a parameter on the command line.
Spelling(cmd, given, n) ==
    LET valueless == \/ \E e \in Entries(cmd) : e.name = n /\ ~TakesValue(e.schema)
                     \/ \E g \in ToSet(app.globals) : g.name = n /\ ~TakesValue(g.schema)
    IN  CASE given[n] = Absent -> <<Long(Unset(n))>>
          [] valueless /\ given[n] = <<"true">> -> <<Long(n)>>
          [] valueless /\ given[n] = <<"false">> -> <<Long(Negation(n))>>
          [] OTHER -> [i \in DOMAIN given[n] |-> Inline(n, given[n][i])]

Spelled(p, given) ==
    LET cmd == app.commands[p]
        names == SetToSeq(DOMAIN given \ (NamesOf(cmd.args) \cup {"_args"}))
        flags == FlattenSeq([i \in DOMAIN names |-> Spelling(cmd, given, names[i])])
        words == FlattenSeq([i \in DOMAIN cmd.args |->
                    IF IsSupplied(given, cmd.args[i]) THEN given[cmd.args[i].name] ELSE <<>>])
        steps == [i \in DOMAIN p |-> Word(p[i])]
    IN  IF cmd.kind = "passthrough"
        THEN <<Long("hermetic")>> \o flags \o steps
                \o (IF "_args" \in DOMAIN given THEN given["_args"] ELSE <<>>)
        ELSE <<Long("hermetic")>> \o steps \o flags
                \o (IF words = <<>> THEN <<>> ELSE <<Stop>> \o [i \in DOMAIN words |-> Word(words[i])])

Call ==
    /\ phase = "start" /\ called = Uncalled /\ params # <<>>
    /\ called' = ToolCall(params.path, params.given)
    /\ UNCHANGED <<vars, params>>

Ended == phase = "done" /\ UNCHANGED allVars

CallChannelNext ==
    \/ Call
    \/ InvocationNext /\ (params # <<>> => called # Uncalled) /\ UNCHANGED callVars
    \/ Ended

\* A null that clears a nullable property of a command that has a selector.
ClearsBesideSelector ==
    LET cmd == app.commands[params.path]
    IN  /\ \E d \in ToSet(cmd.decls) : IsSelector(d)
        /\ \E f \in Flags(cmd) : f.nullable /\ IsSupplied(params.given, f)
                                 /\ params.given[f.name] = Absent

\* The ways to a handler agree: a tool call is refused exactly when the command
\* line with the same values is, and otherwise the handler receives the same
\* parameters from the same sources, the same scopes and the same writes.  The
\* one exception: beside a selector a tool call refuses the null that clears a
\* nullable property (tool.ts:1106-1109), which the command line's unset flag
\* does and flag-system.md:1555, :1820 and :1893 have every way do; the property
\* claims nothing of such a call.
ChannelsAgree ==
    (phase = "done" /\ params # <<>> /\ ~ClearsBesideSelector) =>
        /\ called.kind = "refused" <=> outcome.kind = "parse-error"
        /\ called.kind # "refused" => [outcome EXCEPT !.skipped = {}] = called

=============================================================================
