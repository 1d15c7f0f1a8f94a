-------------------------------- MODULE Argv --------------------------------
(* The front half of a parse (doParse in src/typescript/src/parse.ts): the   *)
(* scan for reserved words before and after the command word, the global     *)
(* flags before it, and the route to the command (routing.ts).               *)
(*                                                                           *)
(* A token is a record: a word, a long (--n) or short (-n) flag token, a     *)
(* long token with a value (--n=v), or the -- that stops the flags.          *)
EXTENDS Delivery

VARIABLES
    app,      \* the program that runs: globals, groups, commands and settings
    argv,     \* the command line
    ambient,  \* the environment, and the configuration file
    phase,    \* how far the parse is
    rest,     \* the tokens not yet read by the current pass
    kept,     \* the tokens the scan read and left for the next pass
    pre,      \* what the scan found (PreScanResult)
    globals,  \* the store of the global flags
    typed,    \* flag tokens read so far, as entries in order
    stdin,    \* whether a value was taken from standard input
    path,     \* groups walked, and at last the command's path
    outcome   \* how the parse ended (ParseOutcome)

argvVars == <<app, argv, ambient, phase, rest, kept, pre, globals, typed, stdin, path, outcome>>
input == <<app, argv, ambient>>

\* A program whose declarations are refused never gets to run.
Registered(p) ==
    /\ IsProgram(p)
    /\ GlobalsOK(p.globals)
    /\ \A c \in DOMAIN p.commands : RegisterOK(p.commands[c], p.globals)

Token(form, name, val) == [form |-> form, name |-> name, val |-> val]
Word(name) == Token("word", name, "")
Long(name) == Token("long", name, "")
Short(name) == Token("short", name, "")
Inline(name, val) == Token("eq", name, val)
Stop == Token("stop", "", "")

\* The text of a token that is taken as a value.
Text(t) ==
    CASE t.form = "word" -> t.name
      [] t.form = "long" -> "--" \o t.name
      [] t.form = "short" -> "-" \o t.name
      [] t.form = "eq" -> "--" \o t.name \o "=" \o t.val
      [] OTHER -> "--"

Dashed(t) == t.form \in {"long", "short", "eq"}
HelpTokens == {Long("help"), Short("h")}
VersionTokens == {Long("version"), Short("v")}
ReservedWords == {"dry-run", "approve-consequential", "quiet", "verbose", "json"}

PreScan == [words |-> {}, hermetic |-> FALSE, config |-> FALSE]

\* One flag read from the command line: by which token, with which word, or a
\* negation, or a request to unset; names is plural for a short form several
\* scopes share.
Entry(what, names, raw) == [what |-> what, names |-> names, raw |-> raw]

NoOutcome ==
    [kind |-> "none", kwargs |-> <<>>, via |-> <<>>, scoped |-> <<>>, provided |-> {},
     skipped |-> {}, writes |-> NoWrites, unsets |-> {}, args |-> <<>>,
     reserved |-> {}, stage |-> "none"]

Finish(result) ==
    /\ phase' = "done"
    /\ outcome' = [result EXCEPT !.reserved = pre.words]
Refuse(stage) == Finish([NoOutcome EXCEPT !.kind = "parse-error", !.stage = stage])
Show(kind) == Finish([NoOutcome EXCEPT !.kind = kind])

\* Help and version print text only, so a request for JSON is refused.
ShowText(kind) == IF "json" \in pre.words THEN Refuse("usage") ELSE Show(kind)

Drop(n) == rest' = SubSeq(rest, n + 1, Len(rest))
Config == IF pre.hermetic \/ ~app.configEnabled \/ ambient.broken THEN <<>> ELSE ambient.config
Env == IF pre.hermetic THEN <<>> ELSE ambient.env

-----------------------------------------------------------------------------
(* The flags a set of declarations puts in the lookup tables; of two that    *)
(* claim a token the later one has it.                                       *)

Latest(flags, hits) == {flags[i] : i \in {j \in hits : \A k \in hits : k <= j}}

ByToken(flags, t) ==
    Latest(flags, {i \in DOMAIN flags : AtRoot(flags[i]) /\
        IF t.form = "short" THEN flags[i].short = t.name ELSE flags[i].name = t.name})
ByNegation(flags, t) ==
    Latest(flags, {i \in DOMAIN flags : AtRoot(flags[i]) /\
        flags[i].schema = "bool" /\ flags[i].negatable /\ Negation(flags[i].name) = t.name})
ByUnset(flags, t) ==
    Latest(flags, {i \in DOMAIN flags : AtRoot(flags[i]) /\
        flags[i].nullable /\ Unset(flags[i].name) = t.name})

KnownGlobal(t) == ByToken(app.globals, t) # {} \/ (t.form # "short" /\ ByNegation(app.globals, t) # {})
TakesNext(t) ==
    t.form # "eq" /\ \E f \in ByToken(app.globals, t) : TakesValue(f.schema)

-----------------------------------------------------------------------------
(* Before the scan.                                                          *)

Lint == Long("lint-framework-use")

\* The positions the lint's own walk of the leading flag tokens reaches.
LintWalk ==
    LET reached[i \in 1..(Len(argv) + 2)] ==
            i = 1 \/ \E j \in 1..(i - 1) :
                /\ reached[j] /\ j <= Len(argv) /\ Dashed(argv[j]) /\ argv[j] # Lint
                /\ i = j + (IF argv[j] = Long("config") \/ TakesNext(argv[j]) THEN 2 ELSE 1)
    IN  {i \in DOMAIN argv : reached[i]}

LintAsked == \E i \in LintWalk : argv[i] = Lint

\* Unlike the later checks, these two are not told of --json.
Begin ==
    /\ phase = "start"
    /\ IF LintAsked
       THEN IF Len(argv) = 1 THEN Show("lint-framework-use") ELSE Refuse("usage")
       ELSE IF argv = <<>> \/ (Len(argv) = 1 /\ argv[1] \in HelpTokens) THEN Show("help")
       ELSE IF Len(argv) = 1 /\ argv[1] \in VersionTokens THEN Show("version")
       ELSE phase' = "scan" /\ UNCHANGED outcome
    /\ UNCHANGED <<input, rest, kept, pre, globals, typed, stdin, path>>

-----------------------------------------------------------------------------
(* The scan of the leading flag tokens (preScanReservedFlags): the reserved  *)
(* ones are taken out, global flags are skipped, anything else ends it.      *)

ScanFrame == UNCHANGED <<input, globals, typed, stdin, path>>
Scanning == phase = "scan" /\ rest # <<>>

ScanReserved ==
    /\ Scanning /\ rest[1].form = "long" /\ rest[1].name \in ReservedWords \cup {"hermetic"}
    /\ pre' = IF rest[1].name = "hermetic" THEN [pre EXCEPT !.hermetic = TRUE]
              ELSE [pre EXCEPT !.words = @ \cup {rest[1].name}]
    /\ Drop(1)
    /\ UNCHANGED <<kept, phase, outcome>> /\ ScanFrame

\* --config takes a value, once, and only when the app has a config file.
ScanConfig ==
    /\ Scanning /\ rest[1].form \in {"long", "eq"} /\ rest[1].name = "config"
    /\ LET width == IF rest[1].form = "eq" THEN 1 ELSE 2 IN
       IF ~app.configEnabled \/ Len(rest) < width \/ pre.config
       THEN Refuse("usage") /\ UNCHANGED <<pre, rest>>
       ELSE /\ pre' = [pre EXCEPT !.config = TRUE]
            /\ Drop(width)
            /\ UNCHANGED <<phase, outcome>>
    /\ UNCHANGED kept /\ ScanFrame

ScanExit ==
    /\ Scanning /\ rest[1] \in {Long("dump-schema"), Long("mcp")}
    /\ IF rest[1].name = "mcp" THEN Show("mcp") ELSE Refuse("usage")
    /\ UNCHANGED <<kept, pre, rest>> /\ ScanFrame

ScanTaken == HelpTokens \cup VersionTokens \cup {Long("dump-schema"), Long("mcp")}
             \cup {Long(n) : n \in ReservedWords \cup {"hermetic", "config"}}

ScanSkip ==
    /\ Scanning /\ Dashed(rest[1])
    /\ rest[1] \in HelpTokens \cup VersionTokens
       \/ (rest[1] \notin ScanTaken /\ rest[1].name # "config" /\ KnownGlobal(rest[1]))
    /\ LET width == IF TakesNext(rest[1]) /\ Len(rest) > 1 THEN 2 ELSE 1
       IN  Drop(width) /\ kept' = kept \o SubSeq(rest, 1, width)
    /\ UNCHANGED <<pre, phase, outcome>> /\ ScanFrame

\* A word opens the command region; a stop or a strange token ends the scan.
ScanEnd ==
    /\ phase = "scan"
    /\ rest # <<>> =>
        /\ rest[1] \notin ScanTaken /\ rest[1].name # "config"
        /\ Dashed(rest[1]) => ~KnownGlobal(rest[1])
    /\ phase' = IF rest # <<>> /\ rest[1].form = "word" THEN "region" ELSE "scanned"
    /\ UNCHANGED <<kept, pre, rest, outcome>> /\ ScanFrame

-----------------------------------------------------------------------------
(* The scan of the command region (scanCommandRegionQuartet): the reserved   *)
(* words are taken out up to a stop or to a passthrough command's word.      *)

RegionFrame == UNCHANGED <<input, globals, typed, stdin, outcome>>
\* A group's word goes one level down; path keeps a sentinel once routing ended.
RegionRouted == path # <<>> /\ path[Len(path)] = ""
AtPassthroughNever(p) == p = <<>> \* mutated: the scan runs on into the arguments
AtPassthrough(p) ==
    p \in DOMAIN app.commands /\ p \notin app.groups /\ app.commands[p].kind = "passthrough"

RegionToken ==
    /\ phase = "region" /\ rest # <<>> /\ rest[1] # Stop
    /\ LET t == rest[1]
           p == Append(path, t.name)
       IN  /\ IF t.form = "long" /\ t.name \in ReservedWords
              THEN pre' = [pre EXCEPT !.words = @ \cup {t.name}] /\ UNCHANGED kept
              ELSE kept' = Append(kept, t) /\ UNCHANGED pre
           /\ IF Dashed(t) \/ RegionRouted THEN UNCHANGED <<path, phase>>
              ELSE IF p \in app.groups THEN path' = p /\ UNCHANGED phase
              ELSE IF AtPassthrough(p) THEN phase' = "scanned" /\ UNCHANGED path
              ELSE path' = Append(path, "") /\ UNCHANGED phase
    /\ Drop(1)
    /\ RegionFrame

RegionEnd ==
    /\ phase = "region" /\ (rest # <<>> => rest[1] = Stop)
    /\ phase' = "scanned"
    /\ UNCHANGED <<kept, pre, rest, path>> /\ RegionFrame

Scanned ==
    /\ phase = "scanned"
    /\ rest' = kept \o rest
    /\ kept' = <<>> /\ path' = <<>>
    /\ IF pre.hermetic /\ pre.config THEN Refuse("usage")
       ELSE phase' = "globals" /\ UNCHANGED outcome
    /\ UNCHANGED <<input, pre, globals, typed, stdin>>

-----------------------------------------------------------------------------
(* Global flags before the command (extractGlobalFlags).                     *)

GlobalFrame == UNCHANGED <<input, kept, pre, path>>

\* A scalar global is given once; the words of a list add up.
GiveGlobal(f, raw, got, width) ==
    LET old == IF ~IsScalar(f) /\ Has(globals, f.name) THEN globals[f.name].value ELSE <<>>
        value == old \o got.value
    IN  IF ~got.ok \/ (f.unique /\ HasDuplicate(value)) \/ (IsScalar(f) /\ Has(globals, f.name))
        THEN Refuse("globals") /\ UNCHANGED <<rest, globals, typed, stdin>>
        ELSE /\ globals' = Put(globals, f.name, Sourced(value, "cli"))
             /\ typed' = Append(typed, Entry("global", <<f.name>>, raw))
             /\ stdin' = got.stdin
             /\ Drop(width)
             /\ UNCHANGED <<phase, outcome>>

GlobalNo == UNCHANGED <<rest, globals, typed, stdin>> /\ Refuse("globals")
Plain(value) == [ok |-> TRUE, value |-> <<value>>, stdin |-> stdin]

GlobalInline ==
    /\ phase = "globals" /\ rest # <<>> /\ rest[1].form = "eq" /\ KnownGlobal(rest[1])
    /\ IF \E f \in ByToken(app.globals, rest[1]) : TakesValue(f.schema)
       THEN \E f \in ByToken(app.globals, rest[1]) :
                GiveGlobal(f, rest[1].val, Words(f, <<rest[1].val>>, stdin), 1)
       ELSE GlobalNo
    /\ GlobalFrame

GlobalNegation ==
    /\ phase = "globals" /\ rest # <<>> /\ rest[1].form = "long"
    /\ \E f \in ByNegation(app.globals, rest[1]) : GiveGlobal(f, "false", Plain("false"), 1)
    /\ GlobalFrame

GlobalFlag ==
    /\ phase = "globals" /\ rest # <<>> /\ rest[1].form \in {"long", "short"}
    /\ rest[1].form = "long" => ByNegation(app.globals, rest[1]) = {}
    /\ \E f \in ByToken(app.globals, rest[1]) :
        IF ~TakesValue(f.schema) THEN GiveGlobal(f, "true", Plain("true"), 1)
        ELSE IF Len(rest) = 1 THEN GlobalNo
        ELSE GiveGlobal(f, Text(rest[2]), Words(f, <<Text(rest[2])>>, stdin), 2)
    /\ GlobalFrame

\* At the first other token the layers below the command line are read; a
\* required global must be known by now, and every value must be a choice.
GlobalsEnd ==
    /\ phase = "globals"
    /\ rest # <<>> => ~Dashed(rest[1]) \/ ~KnownGlobal(rest[1])
    /\ LET read == Ambient(ToSet(app.globals), globals, stdin, app, [env |-> Env, config |-> Config])
           full == Defaulted(ToSet(app.globals), read.store)
       IN  IF /\ read.ok /\ full.ok
              /\ \A g \in ToSet(app.globals) : ChoicesOK(g, full.store[g.name].value)
           THEN /\ globals' = full.store /\ stdin' = read.stdin
                /\ rest' = IF rest # <<>> /\ rest[1] = Stop THEN Tail(rest) ELSE rest
                /\ phase' = "route" /\ UNCHANGED outcome
           ELSE Refuse("globals") /\ UNCHANGED <<globals, rest, stdin>>
    /\ UNCHANGED typed /\ GlobalFrame

-----------------------------------------------------------------------------
(* The route to a command.                                                   *)

RouteFrame == UNCHANGED <<input, kept, pre, globals, typed, stdin>>

\* The longest run of leading words that names nested groups.
GroupDepth ==
    LET words(n) == [i \in 1..n |-> rest[i].name]
        depths == {n \in 0..Len(rest) : \A i \in 1..n :
                    rest[i].form = "word" /\ words(i) \in app.groups}
    IN  CHOOSE n \in depths : \A m \in depths : m <= n

RouteTop ==
    /\ phase = "route"
    /\ rest = <<>> \/ (Len(rest) = 1 /\ rest[1] \in HelpTokens \cup VersionTokens)
    /\ ShowText(IF rest # <<>> /\ rest[1] \in VersionTokens THEN "version" ELSE "help")
    /\ UNCHANGED <<rest, path>> /\ RouteFrame

\* help and version are the framework's own commands at the top level; what
\* help makes of its arguments is not modelled, only that it may refuse them.
RouteFramework ==
    /\ phase = "route" /\ rest # <<>> /\ rest[1] \in {Word("help"), Word("version")}
    /\ IF rest[1].name = "help" THEN Show("framework") \/ Refuse("usage")
       ELSE IF \E i \in 2..Len(rest) : rest[i] \in HelpTokens THEN ShowText("framework")
       ELSE IF Len(rest) > 1 THEN Refuse("usage")
       ELSE Show("framework")
    /\ UNCHANGED <<rest, path>> /\ RouteFrame

ContainsHelp(tokens) ==
    \E i \in DOMAIN tokens :
        tokens[i] \in HelpTokens /\ \A j \in 1..(i - 1) : tokens[j] # Stop

RouteCommand ==
    /\ phase = "route" /\ rest # <<>>
    /\ rest[1] \notin {Word("help"), Word("version")}
    /\ ~(Len(rest) = 1 /\ rest[1] \in HelpTokens \cup VersionTokens)
    /\ LET n == GroupDepth
           more == SubSeq(rest, n + 1, Len(rest))
           p == [i \in 1..(n + 1) |-> rest[i].name]
           after == SubSeq(rest, n + 2, Len(rest))
           own == n > 0 /\ rest[1].name = "config"
           refused == \/ "dry-run" \in pre.words /\ ~app.commands[p].dryRun
                      \/ pre.hermetic /\ own
                      \/ app.configEnabled /\ ~pre.hermetic /\ ambient.broken /\ ~own
       IN  IF n > 0 /\ (more = <<>> \/ more[1] \in HelpTokens)
           THEN ShowText("help") /\ UNCHANGED <<rest, path>>
           ELSE IF more[1].form # "word" \/ p \notin DOMAIN app.commands
           THEN Refuse("unknown") /\ UNCHANGED <<rest, path>>
           ELSE IF ContainsHelp(after) THEN ShowText("help") /\ UNCHANGED <<rest, path>>
           ELSE IF refused THEN Refuse("usage") /\ UNCHANGED <<rest, path>>
           ELSE IF app.commands[p].kind = "passthrough"
           THEN /\ Finish([NoOutcome EXCEPT !.kind = "passthrough", !.args = after,
                        !.kwargs = [g \in DOMAIN globals |-> globals[g].value]])
                /\ path' = p /\ UNCHANGED rest
           ELSE path' = p /\ rest' = after /\ phase' = "tokens" /\ UNCHANGED outcome
    /\ RouteFrame

\* Nothing that is read holds the mark of absence, and the variable of anything
\* but a list holds one word.
IsToken(t) ==
    \/ t = Stop
    \/ t \in {Word(t.name), Long(t.name), Short(t.name), Inline(t.name, t.val)}
InputsOK ==
    /\ Registered(app)
    /\ argv \in Seq(ToSet(argv))
    /\ \A t \in ToSet(argv) : IsToken(t) /\ Text(t) \in Raw /\ t.val \in Raw
    /\ \A c \in DOMAIN app.commands : \A d \in ToSet(app.globals) \cup ToSet(app.commands[c].decls) :
        IsScalar(d) /\ d.name \in DOMAIN ambient.env => Len(ambient.env[d.name]) = 1
    /\ \A n \in DOMAIN ambient.env : ambient.env[n] \in Seq(Raw)
    /\ \A n \in DOMAIN ambient.config : ambient.config[n] \in Seq(Raw)

ArgvInit ==
    /\ InputsOK
    /\ phase = "start" /\ rest = argv /\ kept = <<>> /\ pre = PreScan
    /\ globals = EmptyStore /\ typed = <<>> /\ stdin = FALSE /\ path = <<>>
    /\ outcome = NoOutcome

ArgvNext ==
    \/ Begin \/ ScanReserved \/ ScanConfig \/ ScanExit \/ ScanSkip \/ ScanEnd
    \/ RegionToken \/ RegionEnd \/ Scanned
    \/ GlobalInline \/ GlobalNegation \/ GlobalFlag \/ GlobalsEnd
    \/ RouteTop \/ RouteFramework \/ RouteCommand
=============================================================================
