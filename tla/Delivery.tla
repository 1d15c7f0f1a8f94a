------------------------------ MODULE Delivery ------------------------------
(* From what was supplied to what a handler receives: the sourced store, the *)
(* environment and the configuration below the command line, defaults,       *)
(* constraints, the update set and the arguments (sources.ts, env.ts,        *)
(* values.ts, constraints.ts, update.ts and the end of parse.ts).            *)
(*                                                                           *)
(* A store maps a name to its value and the source it came from.  Operators  *)
(* that may refuse return a record whose field ok says whether they did.     *)
EXTENDS Declarations

Sources == {"cli", "env", "config", "default", "implied"}
ProvidedSources == {"cli", "env", "config", "implied"}
EmptyStore == [n \in {} |-> [value |-> Absent, via |-> "cli"]]

Sourced(value, via) == [value |-> value, via |-> via]
Has(store, name) == name \in DOMAIN store
Provided(store, name) == Has(store, name) /\ store[name].via \in ProvidedSources
Holds(store, name, value) == Has(store, name) /\ store[name].value = value

-----------------------------------------------------------------------------
(* One value.                                                                *)

Numerals == {"1", "2"}
BoolWords == {"true", "false"}

\* What standard input holds, and the word that asks for it.
StdinWord == "@-"
StdinText == "stdin"

\* Standard input can be asked for once in a run: stdin says it was.
WordOK(schema, raw, stdin) ==
    CASE schema = "int" -> raw \in Numerals
      [] schema = "bool" -> raw \in BoolWords
      [] OTHER -> raw = StdinWord => ~stdin
ReadsStdin(schema, raw) == schema \in {"str", "list"} /\ raw = StdinWord
WordValue(schema, raw) == IF ReadsStdin(schema, raw) THEN StdinText ELSE raw

HasDuplicate(value) == Cardinality(ToSet(value)) # Len(value)
SameElements(a, b) ==
    /\ Len(a) = Len(b)
    /\ \A x \in ToSet(a) \cup ToSet(b) :
        Len(SelectSeq(a, LAMBDA y : y = x)) = Len(SelectSeq(b, LAMBDA y : y = x))

\* The words of one flag, in order, become its value.
FromWords(d, raws) == [i \in DOMAIN raws |-> WordValue(d.schema, raws[i])]
StdinReads(f, raws) == {i \in DOMAIN raws : ReadsStdin(f.schema, raws[i])}
Words(f, raws, stdin) ==
    [ok |-> /\ \A i \in DOMAIN raws : WordOK(f.schema, raws[i], stdin)
            /\ \A i, j \in StdinReads(f, raws) : i = j
            /\ f.unique => ~HasDuplicate(FromWords(f, raws)),
     value |-> FromWords(f, raws), stdin |-> stdin \/ StdinReads(f, raws) # {}]

ChoicesOK(d, value) ==
    d.choices = {} \/ value = Absent \/ ToSet(value) \subseteq d.choices
ValidateOK(f, value) == value = Absent \/ ToSet(value) \cap f.refused = {}

\* A value of the configuration file is typed, and is not read as a word; only
\* a list takes several.
Coercible(f, value) ==
    /\ IsScalar(f) => Len(value) = 1
    /\ \A i \in DOMAIN value :
        CASE f.schema = "bool" -> value[i] \in BoolWords
          [] f.schema = "int" -> value[i] \in Numerals
          [] OTHER -> value[i] \notin BoolWords \cup Numerals

SameValue(f, a, b) == a = b \/ (f.unique /\ a # Absent /\ SameElements(a, b))

-----------------------------------------------------------------------------
(* The ambient layers: the environment, then the configuration file.         *)

\* The declarations a layer binds that nothing before it set, and one by name.
Unbound(flags, store, layer) == {f \in flags : f.name \in DOMAIN layer /\ ~Has(store, f.name)}
Named(flags, n) == CHOOSE f \in flags : f.name = n

\* Flags take their environment variables; one of them may read standard input.
FromEnv(flags, store, stdin, env) ==
    LET bound == {f \in Unbound(flags, store, env) : f.env}
        readers == {f \in bound : StdinReads(f, env[f.name]) # {}}
    IN  [ok |-> /\ \A f \in bound : Words(f, env[f.name], stdin).ok
                /\ \A f, g \in readers : f = g,
         store |-> Over(store, [n \in Names(bound) |->
                        Sourced(FromWords(Named(bound, n), env[n]), "env")]),
         stdin |-> stdin \/ readers # {}]

ConflictMode(app, f) == IF f.conflict = "" THEN app.conflict ELSE f.conflict

Conflicts(app, f, store, config) ==
    /\ f.name \in DOMAIN config /\ Has(store, f.name)
    /\ ConflictMode(app, f) = "error"
    /\ \/ ~Coercible(f, config[f.name])
       \/ ~SameValue(f, store[f.name].value, config[f.name])

FromConfig(flags, store, app, config) ==
    LET bound == Unbound(flags, store, config)
    IN  [ok |-> /\ \A f \in flags : ~Conflicts(app, f, store, config)
                /\ \A f \in bound : /\ Coercible(f, config[f.name])
                                    /\ f.unique => ~HasDuplicate(config[f.name]),
         store |-> Over(store, [n \in Names(bound) |-> Sourced(config[n], "config")])]

AmbientConfigFirst(flags, store, stdin, app, ambient) == \* mutated: swapped layers
    LET byFile == FromConfig(flags, store, app, ambient.config)
        byEnv == FromEnv(flags, byFile.store, stdin, ambient.env)
    IN  [ok |-> byFile.ok /\ byEnv.ok, store |-> byEnv.store, stdin |-> byEnv.stdin]
Ambient(flags, store, stdin, app, ambient) ==
    LET byEnv == FromEnv(flags, store, stdin, ambient.env)
        byFile == FromConfig(flags, byEnv.store, app, ambient.config)
    IN  [ok |-> byEnv.ok /\ byFile.ok, store |-> byFile.store, stdin |-> byEnv.stdin]

\* An optional flag nobody supplied is undefined; a required one is an error.
Defaulted(flags, store) ==
    LET missing == {f \in flags : ~Has(store, f.name)}
    IN  [ok |-> \A f \in missing : f.presence # "required",
         store |-> Over(store, [n \in Names(missing) |->
                        Sourced(Named(missing, n).dflt, "default")])]

-----------------------------------------------------------------------------
(* Constraints.                                                              *)

\* Implications fire in the order of their declaration, each seeing what the
\* ones before it set.
ImplyUnlessSet(acc, c) == \* mutated: a target that was set is left alone
    LET trigger == c.members[1].name
        target == c.members[2].name
    IN  IF ~acc.ok \/ c.kind # "implies" \/ ~Provided(acc.store, trigger) \/ Has(acc.store, target)
        THEN acc
        ELSE [acc EXCEPT !.store = Put(acc.store, target, Sourced(<<c.value>>, "implied"))]
Imply(acc, c) ==
    LET trigger == c.members[1].name
        target == c.members[2].name
    IN  IF ~acc.ok \/ c.kind # "implies" \/ ~Provided(acc.store, trigger) THEN acc
        ELSE IF Has(acc.store, target)
        THEN [acc EXCEPT !.ok = Holds(acc.store, target, <<c.value>>)]
        ELSE [acc EXCEPT !.store = Put(acc.store, target, Sourced(<<c.value>>, "implied"))]

Implied(cmd, store) ==
    LET after[i \in 0..Len(cmd.constraints)] ==
            IF i = 0 THEN [ok |-> TRUE, store |-> store]
            ELSE Imply(after[i - 1], cmd.constraints[i])
    IN  after[Len(cmd.constraints)]

\* The words an argument was given: tokens by position, or a call's by name.
GivenArgs(cmd, tokens) ==
    LET Spread(i) == cmd.args[i].variadic
        taken == {i \in DOMAIN cmd.args : i <= Len(tokens) \/ Spread(i)}
        At(a) == CHOOSE i \in taken : cmd.args[i].name = a
    IN  [a \in {cmd.args[i].name : i \in taken} |->
            IF Spread(At(a)) THEN SubSeq(tokens, At(a), Len(tokens)) ELSE <<tokens[At(a)]>>]

\* The empty values: the empty sequence, and the empty word of a scalar.
Sized(cmd, name, value) ==
    /\ value \notin {<<>>, Absent}
    /\ value = <<"">> => name \in Names({f \in Flags(cmd) : ~IsScalar(f)})
                                \cup Names({a \in ToSet(cmd.args) : a.variadic})

\* For an argument, "true" asks no more than "present".
EngagedMember(cmd, m, store, given) ==
    IF m.name \in Names(RootDecls(cmd))
    THEN /\ Provided(store, m.name)
         /\ m.when = "true" => Holds(store, m.name, <<"true">>)
         /\ m.when = "non_empty" => Sized(cmd, m.name, store[m.name].value)
    ELSE /\ m.name \in DOMAIN given /\ given[m.name] # <<>>
         /\ m.when = "non_empty" => Sized(cmd, m.name, given[m.name])

\* A constraint is engaged when a member is, nested ones included: the least
\* set of them that has each with an engaged member.
EngagedConstraints(cmd, store, given) ==
    LET Upward(S) == \A c \in ToSet(cmd.constraints) :
            /\ CoOccurrence(c)
            /\ \E m \in ToSet(c.members) : m.name \in S \/ EngagedMember(cmd, m, store, given)
            => c.name \in S
    IN  {n \in ConstraintNames(cmd) : \A S \in SUBSET ConstraintNames(cmd) : Upward(S) => n \in S}

Engaged(cmd, m, store, given) ==
    m.name \in EngagedConstraints(cmd, store, given) \/ EngagedMember(cmd, m, store, given)

ConstraintHolds(cmd, c, store, given) ==
    LET engaged == {m \in ToSet(c.members) : Engaged(cmd, m, store, given)}
    IN  /\ c.kind = "requires" =>
            (Provided(store, c.members[1].name) => Provided(store, c.members[2].name))
        /\ c.kind = "at-least-one" => engaged # {}
        /\ c.kind = "all-or-none" => engaged \in {{}, ToSet(c.members)}

ConstraintsHold(cmd, store, given) ==
    \A c \in ToSet(cmd.constraints) : ConstraintHolds(cmd, c, store, given)

-----------------------------------------------------------------------------
(* The update set and the arguments.                                         *)

NoWrites == [written |-> {}, cleared |-> {}, rest |-> {}]

\* A property is cleared by its unset token, written when it was provided,
\* and otherwise left out (re-sent as read in a full replacement).
Writes(cmd, store, unsets) ==
    LET props == UNION {ToSet(u.properties) : u \in ToSet(cmd.update)}
        written == {x \in props \ unsets : Provided(store, x)}
    IN  [written |-> written, cleared |-> props \cap unsets, rest |-> (props \ unsets) \ written]

WritesSomething(cmd, writes) ==
    cmd.update # <<>> => writes.written # {} \/ writes.cleared # {}

ArgOK(a, given) ==
    IF a.name \in DOMAIN given
    THEN /\ given[a.name] = <<>> => a.variadic /\ a.presence # "required"
         /\ \A i \in DOMAIN given[a.name] : WordOK(a.schema, given[a.name][i], FALSE)
         /\ ChoicesOK(a, given[a.name])
    ELSE a.presence # "required"

ArgValue(a, given) ==
    IF a.name \in DOMAIN given THEN given[a.name]
    ELSE IF a.variadic THEN <<>> ELSE a.dflt

TooMany(cmd, tokens) ==
    Len(tokens) > Len(cmd.args) /\ ~\E a \in ToSet(cmd.args) : a.variadic

-----------------------------------------------------------------------------
(* What the handler receives, when nothing refuses it.                       *)

Refused == [ok |-> FALSE, kwargs |-> <<>>, via |-> <<>>, writes |-> NoWrites]

Build(cmd, store, given, selectors, unsets) ==
    LET implied == Implied(cmd, store)
        writes == Writes(cmd, implied.store, unsets)
        full == Defaulted(Flags(cmd), implied.store)
        named == Names(Flags(cmd)) \cup selectors
    IN  IF /\ implied.ok /\ ConstraintsHold(cmd, implied.store, given)
           /\ WritesSomething(cmd, writes)
           /\ full.ok
           /\ \A f \in Flags(cmd) : ChoicesOK(f, full.store[f.name].value)
           /\ \A f \in Flags(cmd) : Provided(full.store, f.name) =>
                    ValidateOK(f, full.store[f.name].value)
           /\ \A a \in ToSet(cmd.args) : ArgOK(a, given)
        THEN [ok |-> TRUE,
              kwargs |-> Over([n \in NamesOf(cmd.args) |->
                                  ArgValue(Named(ToSet(cmd.args), n), given)],
                              [n \in named |-> full.store[n].value]),
              via |-> [n \in named |-> full.store[n].via],
              writes |-> writes]
        ELSE Refused
=============================================================================
