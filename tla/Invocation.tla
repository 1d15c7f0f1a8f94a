----------------------------- MODULE Invocation -----------------------------
(* The back half of a parse (parseCommand in src/typescript/src/parse.ts and *)
(* scopeparse.ts): the command's tokens, then the scopes they and the        *)
(* ambient layers open, then delivery to the handler.                        *)
(*                                                                           *)
(* Refusals are collected with the stage they belong to, and the earliest    *)
(* stage is the one reported.                                                *)
EXTENDS Argv

VARIABLES
    positionals,  \* the words that are not flags
    stopped,      \* a -- has been read
    store,        \* the sourced values of the command's own root flags
    scopes,       \* the declaration tree's resolution so far
    problems      \* the stages of the refusals so far

parseVars == <<positionals, stopped, store, scopes, problems>>
vars == <<argvVars, parseVars>>

Stages == <<"shape", "election", "scope", "repetition", "value", "presence">>

NoScopes == [next |-> 1, elected |-> <<>>, values |-> <<>>, provided |-> {}]

Command == app.commands[path]
RootFlags == Flags(Command) \cup ToSet(app.globals)
Lookups == Command.decls \o app.globals

-----------------------------------------------------------------------------
(* What a token of the command stands for: a root flag, or names of scopes   *)
(* that are not known to be live yet.                                        *)

ScopedEntries(name) ==
    LET entries == EntriesOf(ScopeIndex(Command), name)
    IN  IF \E e \in ToSet(entries) : e.decl.path # <<>> \/ IsSelector(e.decl)
        THEN entries ELSE <<>>
ScopedTakes(name) == TakesValue(ScopedEntries(name)[1].schema)

\* The scoped names that claim a token, in the order of declaration.
ScopedTargets(t) ==
    LET index == ScopeIndex(Command)
        Claims(e) == /\ ScopedEntries(e.name) # <<>>
                     /\ IF t.form = "short" THEN e.short = t.name ELSE e.name = t.name
        names == [i \in DOMAIN index |-> index[i].name]
        first == {i \in DOMAIN index : Claims(index[i]) /\
                    \A j \in 1..(i - 1) : Claims(index[j]) => names[j] # names[i]}
    IN  Sublist(names, first)

Targets(t) ==
    IF ByToken(Lookups, t) # {}
    THEN {[what |-> "root", names |-> <<f.name>>, takes |-> TakesValue(f.schema)] :
            f \in ByToken(Lookups, t)}
    ELSE {[what |-> "scoped", names |-> n, takes |-> ScopedTakes(n[1])] :
            n \in {ScopedTargets(t)} \ {<<>>}}

ScopedNegations(t) ==
    {n \in Names(Entries(Command)) :
        ScopedEntries(n) # <<>> /\ ~ScopedTakes(n) /\ Negation(n) = t.name}

Negates(t) == ByNegation(Lookups, t) # {} \/ ScopedNegations(t) # {}

-----------------------------------------------------------------------------
(* The token loop.                                                           *)

Reading == phase = "tokens" /\ rest # <<>>
TokenFrame == UNCHANGED <<input, phase, kept, pre, globals, stdin, path, outcome, store, scopes>>
Give(what, names, raw) == typed' = Append(typed, Entry(what, names, raw))
Complain(stage) == problems' = problems \cup {stage} /\ UNCHANGED typed

\* A word, anything after a stop, and a short form nobody claims.
TakeWord ==
    /\ Reading
    /\ stopped \/ rest[1].form = "word" \/ (rest[1].form = "short" /\ Targets(rest[1]) = {})
    /\ positionals' = Append(positionals, Text(rest[1]))
    /\ Drop(1)
    /\ UNCHANGED <<stopped, typed, problems>> /\ TokenFrame

TakeStop ==
    /\ Reading /\ ~stopped /\ rest[1] = Stop
    /\ stopped' = TRUE /\ Drop(1)
    /\ UNCHANGED <<positionals, typed, problems>> /\ TokenFrame

TakeInline ==
    /\ Reading /\ ~stopped /\ rest[1].form = "eq"
    /\ IF \E g \in Targets(rest[1]) : g.takes
       THEN /\ \E g \in Targets(rest[1]) : Give(g.what, g.names, rest[1].val)
            /\ UNCHANGED problems
       ELSE Complain("shape")
    /\ Drop(1)
    /\ UNCHANGED <<positionals, stopped>> /\ TokenFrame

\* Every valueless scoped name can be negated, whatever it was declared to be.
TakeNegation ==
    /\ Reading /\ ~stopped /\ rest[1].form = "long"
    /\ IF ByNegation(Lookups, rest[1]) # {}
       THEN \E f \in ByNegation(Lookups, rest[1]) : Give("root", <<f.name>>, "false")
       ELSE \E n \in ScopedNegations(rest[1]) : Give("no", <<n>>, "false")
    /\ Drop(1)
    /\ UNCHANGED <<positionals, stopped, problems>> /\ TokenFrame

TakeUnset ==
    /\ Reading /\ ~stopped /\ rest[1].form = "long" /\ ~Negates(rest[1])
    /\ \E f \in ByUnset(Lookups, rest[1]) : Give("unset", <<f.name>>, "")
    /\ Drop(1)
    /\ UNCHANGED <<positionals, stopped, problems>> /\ TokenFrame

TakeFlag ==
    /\ Reading /\ ~stopped /\ rest[1].form \in {"long", "short"}
    /\ rest[1].form = "long" => ~Negates(rest[1]) /\ ByUnset(Lookups, rest[1]) = {}
    /\ \E g \in Targets(rest[1]) :
        CASE ~g.takes -> Give(g.what, g.names, "true") /\ Drop(1) /\ UNCHANGED problems
          [] g.takes /\ Len(rest) > 1 ->
                Give(g.what, g.names, Text(rest[2])) /\ Drop(2) /\ UNCHANGED problems
          [] OTHER -> Complain("shape") /\ Drop(1)
    /\ UNCHANGED <<positionals, stopped>> /\ TokenFrame

TakeUnknown ==
    /\ Reading /\ ~stopped /\ rest[1].form = "long" /\ Targets(rest[1]) = {}
    /\ ~Negates(rest[1]) /\ ByUnset(Lookups, rest[1]) = {}
    /\ Complain("shape") /\ Drop(1)
    /\ UNCHANGED <<positionals, stopped>> /\ TokenFrame

-----------------------------------------------------------------------------
(* The root flags' values.                                                   *)

Places(what, name) == {i \in DOMAIN typed : typed[i].what = what /\ name \in ToSet(typed[i].names)}
Count(what, name) == Cardinality(Places(what, name))
RawsOf(entries) == [i \in DOMAIN entries |-> entries[i].raw]
Unsets == {e.names[1] : e \in {t \in ToSet(typed) : t.what = "unset"}}

\* A scalar is given once, whichever side of the command word it is on.
Repeated ==
    \/ \E n \in Unsets : Count("root", n) > 0 \/ Count("unset", n) > 1
    \/ \E f \in RootFlags :
        /\ IsScalar(f) /\ Count("root", f.name) > 0
        /\ Count("root", f.name) + Count("global", f.name) > 1

\* The words of a root flag: of a scalar the last, of a list all of them, after
\* those given before the command word.
RootRaws(f) == RawsOf(Sublist(typed, Places("root", f.name)))
RootValue(f) ==
    LET raws == RootRaws(f)
        before == ~IsScalar(f) /\ f \in ToSet(app.globals) /\ globals[f.name].via = "cli"
    IN  IF IsScalar(f) THEN FromWords(f, <<raws[Len(raws)]>>)
        ELSE (IF before THEN globals[f.name].value ELSE <<>>) \o FromWords(f, raws)

TokensEnd ==
    /\ phase = "tokens" /\ rest = <<>>
    /\ LET read == {f \in RootFlags : Places("root", f.name) # {}}
           readers == UNION {{<<f.name, i>> : i \in StdinReads(f, RootRaws(f))} : f \in read}
           ok == /\ \A f \in read :
                    /\ \A raw \in ToSet(RootRaws(f)) : WordOK(f.schema, raw, stdin)
                    /\ f.unique => ~HasDuplicate(RootValue(f))
                 /\ \A a, b \in readers : a = b
       IN  /\ store' = Over([n \in Unsets |-> Sourced(Absent, "cli")],
                            [n \in Names(read) |-> Sourced(RootValue(Named(read, n)), "cli")])
           /\ stdin' = (stdin \/ readers # {})
           /\ problems' = problems \cup (IF Repeated THEN {"repetition"} ELSE {})
                                   \cup (IF ok THEN {} ELSE {"value"})
    /\ phase' = "scopes"
    /\ UNCHANGED <<input, rest, kept, pre, globals, typed, path, outcome,
                   positionals, stopped, scopes>>

-----------------------------------------------------------------------------
(* The declaration tree, one declaration at a time (resolveScope).           *)

Decl == Command.decls[scopes.next]
LiveOnceDecided(elected, p) == \* mutated: the choice is not compared
    \A i \in DOMAIN p : <<SubSeq(p, 1, i - 1), p[i][1]>> \in DOMAIN elected
LiveIn(elected, p) ==
    \A i \in DOMAIN p :
        LET key == <<SubSeq(p, 1, i - 1), p[i][1]>>
        IN  key \in DOMAIN elected /\ elected[key].choice = p[i][2]
Live(d) == LiveIn(scopes.elected, d.path)

IsScopedEntry(e) == e.what \in {"scoped", "no"}
Given(name) == {i \in DOMAIN typed : IsScopedEntry(typed[i]) /\ typed[i].names = <<name>>}
Positive(name) == {i \in Given(name) : typed[i].what = "scoped"}
RawsAt(places) == RawsOf(Sublist(typed, places))

Scoping == phase = "scopes" /\ scopes.next <= Len(Command.decls)
ScopeFrame ==
    UNCHANGED <<input, phase, rest, kept, pre, globals, path, outcome,
                positionals, stopped, store>>
Resolve(elected, values, provided) ==
    scopes' = [next |-> scopes.next + 1, elected |-> elected, values |-> values,
               provided |-> provided]
PassDecl == Resolve(scopes.elected, scopes.values, scopes.provided)

Undecided(stage) ==
    /\ problems' = problems \cup {stage}
    /\ PassDecl
    /\ UNCHANGED <<typed, stdin>>

\* A short form several scopes share belongs to the first of them that opens.
Bind(e, names) ==
    LET here == {i \in DOMAIN e.names : e.names[i] \in names}
    IN  IF e.what = "scoped" /\ Len(e.names) > 1 /\ here # {}
        THEN [what |-> e.what, names |-> <<Sublist(e.names, here)[1]>>, raw |-> e.raw] ELSE e

\* The choice opens its scope, and takes its payload.
Elect(choice, via) ==
    LET sel == Decl
        scope == ScopeOf(sel, choice)
        inside == Names({c \in ScopeContents(Command, scope) : IsFlag(c)})
        alt == CHOOSE a \in ToSet(sel.alts) : a.name = choice
        raws == RawsAt(Positive(choice))
        payload == sel.kind = "member" /\ TakesValue(alt.schema) /\ raws # <<>>
        ok == payload => WordOK(alt.schema, raws[1], FALSE)
        entry == <<scope, "value">>
    IN  /\ typed' = [i \in DOMAIN typed |-> Bind(typed[i], inside)]
        /\ Resolve(Put(scopes.elected, Key(sel), [choice |-> choice, via |-> via]),
                   IF payload THEN Put(scopes.values, entry, <<raws[1]>>) ELSE scopes.values,
                   IF payload THEN scopes.provided \cup {entry} ELSE scopes.provided)
        /\ problems' = IF ok THEN problems ELSE problems \cup {"value"}
        /\ UNCHANGED stdin

ElectNamed(choice, via) ==
    IF choice \in AltNames(Decl) THEN Elect(choice, via) ELSE Undecided("election")

ElectDefault ==
    IF Decl.presence = "default" THEN Elect(Decl.dflt[1], "default") ELSE Undecided("presence")

PassOver ==
    /\ Scoping
    /\ ~Live(Decl) \/ (IsFlag(Decl) /\ Decl.path = <<>>)
    /\ PassDecl
    /\ UNCHANGED <<typed, stdin, problems>> /\ ScopeFrame

Textual(value) == Len(value) = 1 /\ value[1] \notin BoolWords \cup Numerals

ElectByToken ==
    /\ Scoping /\ Decl.kind = "token" /\ Live(Decl)
    /\ LET raws == RawsAt(Positive(Decl.name)) IN
       IF Len(raws) > 1 THEN Undecided("election")
       ELSE IF raws # <<>> THEN ElectNamed(raws[1], "cli")
       ELSE IF Decl.env /\ Decl.name \in DOMAIN Env THEN ElectNamed(Env[Decl.name][1], "env")
       ELSE IF Decl.name \in DOMAIN Config /\ Textual(Config[Decl.name])
            THEN ElectNamed(Config[Decl.name][1], "config")
       ELSE ElectDefault
    /\ ScopeFrame

\* A negated member declines its choice, which a default is not told of.
ElectByMembers ==
    /\ Scoping /\ Decl.kind = "member" /\ Live(Decl)
    /\ LET chosen == {c \in AltNames(Decl) : Positive(c) # {}}
           declined == {c \in AltNames(Decl) : Given(c) \ Positive(c) # {}}
           twice == \E c \in AltNames(Decl) : \E i, j \in Given(c) : i # j
       IN  IF twice \/ (\E c, d \in chosen : c # d) \/ (chosen # {} /\ declined # {})
           THEN Undecided("election")
           ELSE IF chosen # {} THEN \E c \in chosen : Elect(c, "cli")
           ELSE ElectDefault
    /\ ScopeFrame

Keep(got) ==
    /\ stdin' = got.stdin
    /\ IF got.ok /\ ChoicesOK(Decl, got.value) /\ ValidateOK(Decl, got.value)
       THEN /\ Resolve(scopes.elected, Put(scopes.values, Key(Decl), got.value),
                       scopes.provided \cup {Key(Decl)})
            /\ UNCHANGED problems
       ELSE PassDecl /\ problems' = problems \cup {"value"}
    /\ UNCHANGED typed

ResolveScoped ==
    /\ Scoping /\ IsFlag(Decl) /\ Decl.path # <<>> /\ Live(Decl)
    /\ LET f == Decl
           raws == RawsAt(Given(f.name))
           inEnv == f.env /\ f.name \in DOMAIN Env
       IN  IF IsScalar(f) /\ Len(raws) > 1 THEN Undecided("repetition")
           ELSE IF raws # <<>> THEN Keep(Words(f, raws, stdin))
           ELSE IF inEnv THEN Keep(Words(f, Env[f.name], stdin))
           ELSE IF f.name \in DOMAIN Config
                THEN Keep([ok |-> Coercible(f, Config[f.name]), value |-> Config[f.name],
                           stdin |-> stdin])
           ELSE IF f.presence = "required" THEN Undecided("presence")
           ELSE /\ Resolve(scopes.elected, Put(scopes.values, Key(f), f.dflt), scopes.provided)
                /\ UNCHANGED <<typed, stdin, problems>>
    /\ ScopeFrame

\* Scoped flags the ambient layers bind, in scopes that did not open.
Skipped ==
    {Key(d) : d \in {f \in ToSet(Command.decls) :
        /\ IsFlag(f) /\ ~Live(f)
        /\ (f.env /\ f.name \in DOMAIN Env) \/ f.name \in DOMAIN Config}}

LiveNames == Names({e \in Entries(Command) : Live(e.decl)})

ScopesEnd ==
    /\ phase = "scopes" /\ scopes.next > Len(Command.decls)
    /\ LET strayed == \E e \in ToSet(typed) : IsScopedEntry(e) /\ e.names[1] \notin LiveNames
           all == problems \cup (IF strayed THEN {"scope"} ELSE {})
       IN  /\ problems' = all
           /\ IF all = {} THEN phase' = "deliver" /\ UNCHANGED outcome
              ELSE Refuse(SelectSeq(Stages, LAMBDA s : s \in all)[1])
    /\ UNCHANGED <<input, rest, kept, pre, globals, typed, stdin, path,
                   positionals, stopped, store, scopes>>

-----------------------------------------------------------------------------
(* Delivery.                                                                 *)

\* Scoped selectors are values of the record their scope is delivered as.
ScopedOf(elected) ==
    [k \in {key \in DOMAIN elected : key[1] # <<>>} |-> <<elected[k].choice>>]
ProvidedOf(elected) ==
    {k \in DOMAIN elected : k[1] # <<>> /\ elected[k].via = "cli"}
SelectorStore(cmd, elected) ==
    [n \in Names({d \in RootDecls(cmd) : IsSelector(d)}) |->
        Sourced(<<elected[<<<<>>, n>>].choice>>, elected[<<<<>>, n>>].via)]

Delivered(built, resolved, all) ==
    [NoOutcome EXCEPT !.kind = "command",
        !.kwargs = Over([g \in DOMAIN all |-> all[g].value], built.kwargs),
        !.via = Over(built.via, [g \in DOMAIN all |-> all[g].via]),
        !.scoped = Over(resolved.values, ScopedOf(resolved.elected)),
        !.provided = resolved.provided \cup ProvidedOf(resolved.elected),
        !.writes = built.writes]

\* Globals given after the command word replace those read before it; so does
\* the choice of a selector of the same name, which nothing refuses.
Deliver ==
    /\ phase = "deliver"
    /\ LET read == Ambient(Flags(Command), store, stdin, app, [env |-> Env, config |-> Config])
           clash == \E g \in ToSet(app.globals) : Conflicts(app, g, store, Config)
           chosen == SelectorStore(Command, scopes.elected)
           built == Build(Command, Over(chosen, read.store), GivenArgs(Command, positionals),
                          DOMAIN chosen, Unsets)
           late == Over(chosen, store)
           later == [n \in DOMAIN late \cap NamesOf(app.globals) |-> late[n]]
       IN  IF ~read.ok \/ clash \/ TooMany(Command, positionals) \/ ~built.ok
           THEN Refuse("deliver")
           ELSE Finish([Delivered(built, scopes, Over(later, globals)) EXCEPT
                    !.skipped = Skipped, !.unsets = Unsets])
    /\ UNCHANGED <<input, rest, kept, pre, globals, typed, stdin, path, parseVars>>

InvocationInit ==
    /\ ArgvInit
    /\ positionals = <<>> /\ stopped = FALSE /\ store = EmptyStore
    /\ scopes = NoScopes /\ problems = {}

CommandNext ==
    \/ TakeWord \/ TakeStop \/ TakeInline \/ TakeNegation \/ TakeUnset \/ TakeFlag \/ TakeUnknown
    \/ TokensEnd
    \/ PassOver \/ ElectByToken \/ ElectByMembers \/ ResolveScoped \/ ScopesEnd
    \/ Deliver

InvocationNext == CommandNext \/ (ArgvNext /\ UNCHANGED parseVars)
InvocationSpec == InvocationInit /\ [][InvocationNext]_vars

-----------------------------------------------------------------------------
(* Properties.                                                               *)

Ran == phase = "done" /\ outcome.kind = "command"

\* What the highest layer that binds a declaration says of it.
RawsFor(d) ==
    LET whats == IF d \in RootFlags THEN {"root", "global"} ELSE {"scoped", "no"}
    IN  RawsAt({i \in DOMAIN typed : typed[i].what \in whats /\ typed[i].names = <<d.name>>})
Highest(d) ==
    LET members == {c \in AltNames(d) : Positive(c) # {}}
        file == IF app.configEnabled /\ ~ambient.broken THEN ambient.config ELSE <<>>
    IN  IF d \in RootFlags /\ Count("unset", d.name) > 0 THEN [via |-> "cli", value |-> Absent]
        ELSE IF d.kind = "member" /\ members # {}
        THEN [via |-> "cli", value |-> <<CHOOSE c \in members : TRUE>>]
        ELSE IF d.kind # "member" /\ RawsFor(d) # <<>>
        THEN [via |-> "cli", value |-> FromWords(d, RawsFor(d))]
        ELSE IF ~pre.hermetic /\ d.kind # "member" /\ d.env /\ d.name \in DOMAIN ambient.env
        THEN [via |-> "env", value |-> FromWords(d, ambient.env[d.name])]
        ELSE IF /\ ~pre.hermetic /\ d.kind # "member" /\ d.name \in DOMAIN file
                /\ IsSelector(d) => Textual(file[d.name])
        THEN [via |-> "config", value |-> file[d.name]]
        ELSE [via |-> "default", value |-> d.dflt]

\* The implications whose trigger was supplied, or set by one declared earlier.
Fired ==
    LET rules == Command.constraints
        implies == {i \in DOMAIN rules : rules[i].kind = "implies"}
        trigger(i) == rules[i].members[1].name
        Onward(S) == \A i \in implies :
            \/ outcome.via[trigger(i)] \in ProvidedSources \ {"implied"}
            \/ \E j \in S : j < i /\ rules[j].members[2].name = trigger(i)
            => i \in S
    IN  {rules[i] : i \in {j \in implies : \A S \in SUBSET implies : Onward(S) => j \in S}}

ImpliedBy(c, f) ==
    c \in Fired /\ c.members[2].name = f.name /\ Highest(f).via = "default"

\* Of the declarations of one name a handler sees a selector only when a global
\* has its name too or no argument has it; and of the others a global before an
\* argument, and an argument before a flag.
RootSelectors == {d \in RootDecls(Command) : IsSelector(d)}
Shown(d) ==
    LET inGlobals == d.name \in NamesOf(app.globals)
        inArgs == d.name \in NamesOf(Command.args)
    IN  IF IsSelector(d) THEN inGlobals \/ ~inArgs
        ELSE d.name \notin Names(RootSelectors) /\ (d \in ToSet(app.globals) \/ ~inArgs)

\* A flag an implication is about that did not fire, although its trigger was
\* supplied or is implied in any order: the one pass comes to it too early.
Overlooked(f) ==
    LET implies == {c \in ToSet(Command.constraints) : c.kind = "implies"}
        Onward(S) == \A c \in implies :
            \/ outcome.via[c.members[1].name] \in ProvidedSources \ {"implied"}
            \/ \E b \in S : b.members[2].name = c.members[1].name
            => c \in S
    IN  \E c \in implies \ Fired :
            c.members[2].name = f.name /\ \A S \in SUBSET implies : Onward(S) => c \in S

\* A handler receives each flag, global, selector and scoped flag that nothing
\* of the same name hides from the highest layer that binds it (command line on either side of the command
\* word, environment, configuration file, implication, default), and is told
\* which layer that was; a hermetic run reads only the first and the last two.
\* Of a flag that nothing binds and an implication has overlooked, the property
\* claims nothing: the code leaves it at its default, in one pass
\* (parse.ts:1426-1444), where flag-system.md:182, :230 and :1262 make it implied.
HighestSourceWins ==
    Ran =>
        /\ \A d \in {s \in RootFlags \cup RootDecls(Command) : Shown(s)} :
            LET got == [via |-> outcome.via[d.name], value |-> outcome.kwargs[d.name]]
            IN  IF \E c \in ToSet(Command.constraints) : ImpliedBy(c, d)
                THEN \E c \in ToSet(Command.constraints) : /\ ImpliedBy(c, d)
                        /\ got = [via |-> "implied", value |-> <<c.value>>]
                ELSE got = Highest(d) \/ (Highest(d).via = "default" /\ Overlooked(d))
        /\ \A d \in ToSet(Command.decls) : Key(d) \in DOMAIN outcome.scoped =>
            /\ outcome.scoped[Key(d)] = Highest(d).value
            /\ (Key(d) \in outcome.provided) <=>
                    (Highest(d).via = "cli" \/ (IsFlag(d) /\ Highest(d).via # "default"))

\* Where a dashed token's flag was delivered: a short form is bound by the name
\* of one of its claimants, and may be that of a namesake in another scope.
CameFromTheLine(t) ==
    LET Says(f) ==
            IF t.form = "short" THEN f.short = t.name
            ELSE t.name \in {f.name, Negation(f.name), Unset(f.name)}
        Meant(name) == \E e \in Entries(Command) : e.name = name /\ Says(e)
    IN  \/ \E f \in RootFlags : Says(f) /\
            (outcome.via[f.name] = "cli" \/ f.name \in Names(RootSelectors))
        \/ \E d \in ToSet(Command.decls) :
            /\ d.path # <<>> \/ IsSelector(d)
            /\ \/ Meant(d.name) /\ (Key(d) \in outcome.provided \/ d.path = <<>>)
               \/ d.kind = "member" /\ \E c \in AltNames(d) : Meant(c)

\* No word of the command line is dropped in silence: of a run that reaches a
\* handler, every word is a step of the command's path, an argument, the value
\* of a flag or of --config; every flag token is a reserved word the run
\* honours, a flag delivered as given, or itself a value (the one exception is
\* a global whose name a selector of the command takes); and a passthrough
\* command is handed exactly the tokens after its name.
EveryTokenCounts ==
    /\ Ran => \A i \in DOMAIN argv :
        LET t == argv[i]
            taken == ToSet(positionals) \cup {e.raw : e \in ToSet(typed)}
        IN  \/ t = Stop \/ Text(t) \in taken
            \/ i > 1 /\ argv[i - 1] = Long("config")
            \/ t.form = "word" /\ t.name \in ToSet(path)
            \/ t.form # "word" /\ t.name \in outcome.reserved \cup {"config", "hermetic"}
            \/ Dashed(t) /\ CameFromTheLine(t)
    /\ (phase = "done" /\ outcome.kind = "passthrough") =>
        /\ \E n \in 0..Len(argv) : outcome.args = SubSeq(argv, n + 1, Len(argv))
                                   /\ argv[n] = Word(path[Len(path)])
        /\ \A g \in ToSet(app.globals) : outcome.kwargs[g.name] = Highest(g).value

SuppliedNow(n) == outcome.via[n] \in ProvidedSources
ArgGiven(m) == \E i \in DOMAIN Command.args :
    /\ Command.args[i].name = m.name /\ i <= Len(positionals)
    /\ (m.when = "non_empty" /\ ~Command.args[i].variadic) => positionals[i] # ""

\* What a member asks of the values a handler is given, or of its constraint.
Present(m) ==
    IF m.name \in Names(RootDecls(Command))
    THEN /\ SuppliedNow(m.name)
         /\ m.when = "true" => outcome.kwargs[m.name] = <<"true">>
         /\ m.when = "non_empty" => Sized(Command, m.name, outcome.kwargs[m.name])
    ELSE ArgGiven(m)
Engages(m) ==
    LET Closed(S) == \A c \in ToSet(Command.constraints) :
            CoOccurrence(c) /\ (\E n \in ToSet(c.members) : n.name \in S \/ Present(n)) => c.name \in S
    IN  IF m.name \in ConstraintNames(Command)
        THEN \A S \in SUBSET ConstraintNames(Command) : Closed(S) => m.name \in S
        ELSE Present(m)

\* The constraints and the update set hold of what the handler is given, the
\* values implications added included: what a flag requires is supplied, what
\* it implies has the implied value (of an implication declared before the one
\* that set its trigger nothing is promised), of the members of a constraint,
\* nested ones included, at least one or all or none are present, a written
\* property is supplied and not absent, and each property is written, cleared
\* or left, never two of them.
ContractHolds ==
    Ran =>
        /\ \A c \in ToSet(Command.constraints) :
            /\ (c.kind = "requires" /\ SuppliedNow(c.members[1].name)) =>
                    SuppliedNow(c.members[2].name)
            /\ (c \in Fired /\ c.members[2].name \notin NamesOf(Command.args)) =>
                    outcome.kwargs[c.members[2].name] = <<c.value>>
            /\ c.kind = "at-least-one" => \E m \in ToSet(c.members) : Engages(m)
            /\ c.kind = "all-or-none" => \A m, n \in ToSet(c.members) : Engages(m) <=> Engages(n)
        /\ \A u \in ToSet(Command.update) : \A p \in ToSet(u.properties) :
            LET of(part) == p \in outcome.writes[part]
            IN  /\ of("written") <=> SuppliedNow(p) /\ outcome.kwargs[p] # Absent
                /\ of("cleared") <=> SuppliedNow(p) /\ outcome.kwargs[p] = Absent
                /\ of("rest") <=> ~SuppliedNow(p)
                /\ outcome.writes.written # {} \/ outcome.writes.cleared # {}

\* The choice a handler sees for the selector of a step.
SeenChoice(p, i) ==
    LET key == <<SubSeq(p, 1, i - 1), p[i][1]>>
    IN  IF i = 1 THEN outcome.kwargs[p[i][1]]
        ELSE IF key \in DOMAIN outcome.scoped THEN outcome.scoped[key] ELSE Absent
Open(p) == \A i \in DOMAIN p : SeenChoice(p, i) = <<p[i][2]>>

\* A handler sees the contents of the scopes its choices open and of no other:
\* each declaration of an open scope has a value, one of a closed scope has
\* none, was not typed (unless a name of it is also one of an open scope), and is
\* reported when an ambient layer binds it.  Of the scopes of a selector that
\* the handler is not shown nothing is said.
OnlyLiveScopes ==
    Ran => \A d \in ToSet(Command.decls) :
        (\A s \in RootSelectors : d.path # <<>> /\ s.name = d.path[1][1] => Shown(s)) =>
        /\ d.path # <<>> => (Open(d.path) <=> Key(d) \in DOMAIN outcome.scoped)
        /\ ~Open(d.path) =>
            /\ Key(d) \notin outcome.provided
            /\ \A x \in ToSet(SurfaceNames(d)) : Given(x.name) = {}
                    \/ \E e \in Entries(Command) : e.name = x.name /\ Open(e.decl.path)
            /\ (IsFlag(d) /\ ~pre.hermetic /\ d.env /\ d.name \in DOMAIN ambient.env) =>
                    Key(d) \in outcome.skipped
        /\ Key(d) \in outcome.skipped => ~Open(d.path) /\ ~pre.hermetic
=============================================================================
