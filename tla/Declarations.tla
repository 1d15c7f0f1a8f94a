---------------------------- MODULE Declarations ----------------------------
(* What a program declares of a command (src/typescript/src/factories.ts):   *)
(* flags, selectors whose choices open scopes of further flags, positional   *)
(* arguments, constraints and update sets; and the rules a declaration must  *)
(* pass before the app accepts the command.                                  *)
(*                                                                           *)
(* The declaration tree is the sequence of its declarations in the order in  *)
(* which the code walks it (a selector, then the contents of its choices);   *)
(* a declaration's path is the sequence of <<selector, choice>> steps that   *)
(* open its scope, empty at the root.  Values are sequences of strings: one  *)
(* element for a scalar, the elements for a list.                            *)
EXTENDS Integers, Sequences, FiniteSets, SequencesExt

\* The value undefined, and a default that is not declared; no word of a
\* command line, a variable or a file is the mark of it.
Absent == <<"(absent)">>
Raw == STRING \ {"(absent)"}

Schemas == {"bool", "str", "int", "list", "choice"}
Presences == {"required", "optional", "default"}

\* The names minted beside a flag's own: --no-x and --unset-x.
Negation(name) == "no-" \o name
Unset(name) == "unset-" \o name

\* An ordinary flag at the root: its options with nothing set.
FlagBase ==
    [kind |-> "flag", name |-> "", path |-> <<>>, schema |-> "str",
     presence |-> "optional", dflt |-> Absent, env |-> FALSE, short |-> "",
     choices |-> {}, refused |-> {}, negatable |-> TRUE, nullable |-> FALSE,
     unique |-> FALSE, conflict |-> "", alts |-> <<>>]

\* A selector; alts are its choices in order, each with the schema of its
\* payload ("bool" when it has none) and its short form.
SelectorBase(by) ==
    [FlagBase EXCEPT !.kind = by, !.presence = "required", !.schema = "choice"]
Alternative(name) == [name |-> name, schema |-> "bool", short |-> ""]

NamesOf(s) == {s[i].name : i \in DOMAIN s}
Names(S) == {d.name : d \in S}

\* The elements of a sequence at some of its places, in their order.
Sublist(s, places) ==
    [k \in 1..Cardinality(places) |->
        s[CHOOSE i \in places : Cardinality({j \in places : j <= i}) = k]]

\* A function with one more argument, or another value at it; and f where it
\* is defined, g elsewhere.
Put(f, x, value) == [y \in DOMAIN f \cup {x} |-> IF y = x THEN value ELSE f[y]]
Over(f, g) == [x \in DOMAIN f \cup DOMAIN g |-> IF x \in DOMAIN f THEN f[x] ELSE g[x]]

IsFlag(d) == d.kind = "flag"
IsSelector(d) == d.kind \in {"token", "member"}
IsScalar(d) == d.schema # "list"
TakesValue(schema) == schema # "bool"
AltNames(d) == NamesOf(d.alts)

ArgBase ==
    [name |-> "", presence |-> "required", dflt |-> Absent, variadic |-> FALSE,
     schema |-> "str", choices |-> {}]

CommandBase ==
    [kind |-> "command", decls |-> <<>>, args |-> <<>>, constraints |-> <<>>,
     update |-> <<>>, effect |-> "read_only", dryRun |-> TRUE]

AtRoot(d) == IsFlag(d) /\ d.path = <<>>
Flags(cmd) == {d \in ToSet(cmd.decls) : AtRoot(d)}
RootDecls(cmd) == {d \in ToSet(cmd.decls) : d.path = <<>>}

\* A declaration's own name, in the scope that holds it.
Key(d) == <<d.path, d.name>>

-----------------------------------------------------------------------------
(* The shape of a program.                                                   *)

AlternativeType == [name : Raw, schema : Schemas, short : STRING]
DeclarationType ==
    [kind : {"flag", "token", "member"}, name : STRING, path : Seq(STRING \X STRING),
     schema : Schemas, presence : Presences, dflt : Seq(STRING), env : BOOLEAN,
     short : STRING, choices : SUBSET STRING, refused : SUBSET STRING,
     negatable : BOOLEAN, nullable : BOOLEAN, unique : BOOLEAN, conflict : STRING,
     alts : Seq(AlternativeType)]
ArgType ==
    [name : STRING, presence : Presences, dflt : Seq(STRING), variadic : BOOLEAN,
     schema : Schemas, choices : SUBSET STRING]
MemberType == [name : STRING, when : {"", "true", "non_empty"}]
ConstraintType ==
    [kind : {"requires", "implies", "at-least-one", "all-or-none"}, name : STRING,
     members : Seq(MemberType), value : STRING]
UpdateType ==
    [properties : Seq(STRING), identity : Seq(STRING), mode : {"partial", "full"}]
CommandType ==
    [kind : {"command", "passthrough"}, decls : Seq(DeclarationType), args : Seq(ArgType),
     constraints : Seq(ConstraintType), update : Seq(UpdateType),
     effect : {"read_only", "mutating"}, dryRun : BOOLEAN]

\* In the order of the walk a scope comes after the selector that opens it,
\* and a scope is a map by name.
IsTree(decls) ==
    /\ \A i, j \in DOMAIN decls : Key(decls[i]) = Key(decls[j]) => i = j
    /\ \A i \in DOMAIN decls : \A k \in DOMAIN decls[i].path : \E j \in 1..(i - 1) :
        /\ IsSelector(decls[j])
        /\ Key(decls[j]) = <<SubSeq(decls[i].path, 1, k - 1), decls[i].path[k][1]>>
        /\ decls[i].path[k][2] \in AltNames(decls[j])

IsProgram(p) ==
    /\ p.globals \in Seq(DeclarationType) /\ p.groups \subseteq Seq(STRING \ {""})
    /\ p.configEnabled \in BOOLEAN /\ p.conflict \in STRING
    /\ \A c \in DOMAIN p.commands :
        /\ p.commands[c] \in CommandType /\ Len(p.commands[c].update) <= 1
        /\ IsTree(p.commands[c].decls)
        /\ \A d \in ToSet(p.commands[c].decls) : IsSelector(d) => d.schema = "choice"

-----------------------------------------------------------------------------
(* Scopes and the names they put on the command line.                        *)

\* The scope a selector's choice opens.
ScopeOf(sel, choice) == Append(sel.path, <<sel.name, choice>>)

\* A selector is its own step on two paths only when the steps before are the
\* same, so two paths exclude each other where they first part on a choice.
SimultaneouslyElectable(a, b) ==
    ~ \E i \in DOMAIN a \cap DOMAIN b :
        /\ SubSeq(a, 1, i - 1) = SubSeq(b, 1, i - 1)
        /\ a[i][1] = b[i][1]
        /\ a[i][2] # b[i][2]

\* The names one declaration puts on the command line: a flag and a token
\* selector their own, a member selector the names of its choices.
SurfaceNames(d) ==
    IF d.kind # "member"
    THEN <<[name |-> d.name, schema |-> d.schema, elects |-> "",
            short |-> d.short, decl |-> d]>>
    ELSE [i \in DOMAIN d.alts |->
            [name |-> d.alts[i].name, schema |-> d.alts[i].schema,
             elects |-> d.alts[i].name, short |-> d.alts[i].short, decl |-> d]]

ScopeIndex(cmd) ==
    FlattenSeq([i \in DOMAIN cmd.decls |-> SurfaceNames(cmd.decls[i])])
EntriesOf(index, name) == Sublist(index, {i \in DOMAIN index : index[i].name = name})
Entries(cmd) == UNION {ToSet(SurfaceNames(d)) : d \in ToSet(cmd.decls)}

IsScoped(e) == e.decl.path # <<>> \/ e.elects # ""
ScopedNames(cmd) == Names({e \in Entries(cmd) : IsScoped(e)})

\* The scope in which an entry's short form can be typed.
ShortClaimPath(e) ==
    IF e.elects = "" THEN e.decl.path ELSE ScopeOf(e.decl, e.elects)

-----------------------------------------------------------------------------
(* The rules for one declaration.                                            *)

ReservedNames ==
    {"force", "dry-run", "approve-consequential", "quiet", "verbose", "json", "yes"}

PresenceOK(d) == (d.presence = "default") <=> (d.dflt # Absent)

FlagOK(f) ==
    /\ f.name \notin ReservedNames
    /\ PresenceOK(f)
    /\ f.unique => f.schema = "list"
    /\ f.choices # {} =>
        /\ f.schema # "bool"
        /\ IsScalar(f) /\ f.presence = "default" => f.dflt[1] \in f.choices

ScopeContents(cmd, scope) == {d \in ToSet(cmd.decls) : d.path = scope}

\* A default choice must elect a scope that needs nothing more.
SelectorDefaultOK(cmd, s) ==
    \E i \in DOMAIN s.alts :
        /\ s.dflt = <<s.alts[i].name>>
        /\ s.kind = "member" => s.alts[i].schema = "bool"
        /\ \A d \in ScopeContents(cmd, ScopeOf(s, s.alts[i].name)) :
            d.presence # "required"

SelectorOK(cmd, s) ==
    /\ s.name \notin ReservedNames
    /\ s.presence # "optional"
    /\ Len(s.alts) >= 2 /\ Cardinality(AltNames(s)) = Len(s.alts)
    /\ s.kind = "token" => \A i \in DOMAIN s.alts : s.alts[i] = Alternative(s.alts[i].name)
    /\ s.kind = "member" => s.short = "" /\ AltNames(s) \cap ReservedNames = {}
    /\ s.presence = "default" => SelectorDefaultOK(cmd, s)
    /\ \A c \in AltNames(s) : \A d \in ScopeContents(cmd, ScopeOf(s, c)) :
        d.name \notin {"choice", "value", s.name}

\* Siblings may reuse a name only with one shape: the token loop must know
\* whether it takes a value before it knows which scope is live.
SiblingShapesOK(index, s) ==
    \A a, b \in ToSet(index) :
        LET n == Len(s.path) + 1
            Under(e) == /\ Len(e.decl.path) >= n
                        /\ SubSeq(e.decl.path, 1, n - 1) = s.path
                        /\ e.decl.path[n][1] = s.name
        IN  /\ Under(a) /\ Under(b) /\ a.name = b.name
            /\ a.decl.path[n][2] # b.decl.path[n][2]
            => a.schema = b.schema

-----------------------------------------------------------------------------
(* The rules for the whole tree.                                             *)

\* Two names at the root can always meet.
NamesOK(cmd) ==
    /\ \A i, j \in DOMAIN cmd.decls :
        /\ cmd.decls[i].path = <<>> /\ cmd.decls[j].path = <<>>
        /\ cmd.decls[i].name = cmd.decls[j].name
        => i = j
    /\ \A a, b \in Entries(cmd) : a.name = b.name /\ a # b =>
        ~SimultaneouslyElectable(a.decl.path, b.decl.path)
    /\ \A e \in Entries(cmd) : e.decl.path # <<>> => e.name \notin Names(RootDecls(cmd))

\* Each name claims a short once, at its first entry that has it.
ShortClaims(index, short) ==
    {i \in DOMAIN index :
        /\ index[i].short = short
        /\ \A j \in 1..(i - 1) : index[j].short = short => index[j].name # index[i].name}

ShortsOK(index) ==
    \A short \in {e.short : e \in ToSet(index)} \ {""} :
        /\ \A i, j \in ShortClaims(index, short) : i < j =>
            LET a == ShortClaimPath(index[i])
                b == ShortClaimPath(index[j])
            IN  (a # <<>> \/ b # <<>>) => ~SimultaneouslyElectable(a, b)
        /\ LET scoped == {e \in ToSet(index) : ~IsFlag(e.decl) \/ e.decl.path # <<>>}
               names == {e.name : e \in {s \in scoped : s.short = short}}
               shared == {e \in scoped : e.name \in names}
           IN  Cardinality(names) > 1 =>
                /\ \A e \in shared : IsFlag(e.decl)
                /\ Cardinality({e.schema : e \in shared}) = 1

-----------------------------------------------------------------------------
(* Update sets: the properties of a resource a mutating command writes.      *)

\* An empty list is not a value that was made up.
BannedDefault(d) == d.presence = "default" /\ d.dflt # <<>>

UpdateOK(cmd) ==
    /\ cmd.effect = "mutating" =>
        /\ \A d \in ToSet(cmd.decls) : IsFlag(d) => ~BannedDefault(d)
        /\ \A a \in ToSet(cmd.args) : ~BannedDefault(a)
    /\ LET props == UNION {ToSet(u.properties) : u \in ToSet(cmd.update)}
           named(u) == u.identity \o u.properties
       IN  /\ \A u \in ToSet(cmd.update) :
                /\ cmd.effect = "mutating" /\ u.properties # <<>>
                /\ Cardinality(ToSet(named(u))) = Len(named(u))
                /\ ToSet(named(u)) \subseteq Names(RootDecls(cmd)) \cup NamesOf(cmd.args)
                /\ \A f \in RootDecls(cmd) : f.name \in props =>
                    IsFlag(f) /\ f.presence # "required"
                /\ props \cap NamesOf(cmd.args) = {}
                /\ ToSet(u.identity) \cap Names(RootDecls(cmd)) \cap NamesOf(cmd.args) = {}
           /\ \A f \in Flags(cmd) : f.nullable =>
                /\ f.name \in props
                /\ Unset(f.name) \notin Names(Entries(cmd)) \cup Names(RootDecls(cmd))

-----------------------------------------------------------------------------
(* Constraints.                                                              *)

CoOccurrence(c) == c.kind \in {"at-least-one", "all-or-none"}
ConstraintNames(cmd) == NamesOf(cmd.constraints)
MemberNames(c) == [i \in DOMAIN c.members |-> c.members[i].name]

\* What a member can be asked: whether it is true, or has a length.
MemberShape(cmd, name) ==
    LET schemas == {IF IsFlag(d) THEN d.schema ELSE "choice" :
                        d \in {e \in RootDecls(cmd) : e.name = name}}
                   \cup {IF a.variadic THEN "list" ELSE a.schema :
                        a \in {b \in ToSet(cmd.args) : b.name = name}}
    IN  CASE schemas = {"bool"} -> "bool"
          [] schemas \in {{"str"}, {"list"}} -> "sized"
          [] OTHER -> "other"

MemberOK(cmd, m) ==
    LET shape == MemberShape(cmd, m.name) IN
    IF m.name \in ConstraintNames(cmd)
    THEN /\ m.when = ""
         /\ \A c \in ToSet(cmd.constraints) : c.name = m.name => CoOccurrence(c)
    ELSE /\ m.when = "" => shape # "bool"
         /\ m.when = "true" => shape = "bool"
         /\ m.when = "non_empty" => shape = "sized"
         /\ \A d \in RootDecls(cmd) \cup ToSet(cmd.args) :
                d.name = m.name => d.presence # "required"

\* No set of constraints in which each has a member in the set: no cycle.
Acyclic(cmd) ==
    \A S \in SUBSET {c \in ToSet(cmd.constraints) : CoOccurrence(c)} :
        S # {} => \E c \in S : ToSet(MemberNames(c)) \cap {d.name : d \in S} = {}

ConstraintOK(cmd, c) ==
    /\ c.name \notin Names(RootDecls(cmd)) \cup NamesOf(cmd.args)
    /\ Cardinality(ToSet(MemberNames(c))) = Len(c.members) /\ Len(c.members) >= 2
    /\ ToSet(MemberNames(c)) \cap ScopedNames(cmd) = {}
    /\ IF CoOccurrence(c)
       THEN /\ ToSet(MemberNames(c)) \subseteq
                Names(RootDecls(cmd)) \cup NamesOf(cmd.args) \cup ConstraintNames(cmd)
            /\ ToSet(MemberNames(c)) \cap Names(RootDecls(cmd)) \cap NamesOf(cmd.args) = {}
            /\ \A m \in ToSet(c.members) : MemberOK(cmd, m)
       ELSE /\ ToSet(MemberNames(c)) \subseteq Names(RootDecls(cmd))
            /\ c.kind = "implies" =>
                /\ c.value \in {"true", "false"}
                /\ \A d \in RootDecls(cmd) : d.name \in ToSet(MemberNames(c)) =>
                        IsFlag(d) /\ d.schema = "bool"

ConstraintsOK(cmd) ==
    /\ \A i, j \in DOMAIN cmd.constraints :
        cmd.constraints[i].name = cmd.constraints[j].name => i = j
    /\ \A c \in ToSet(cmd.constraints) : ConstraintOK(cmd, c)
    /\ Acyclic(cmd)

-----------------------------------------------------------------------------
(* The rules for a command, and for a command beside the app's globals.      *)

ArgsOK(cmd) ==
    /\ \A i, j \in DOMAIN cmd.args : cmd.args[i].name = cmd.args[j].name => i = j
    /\ \A i \in DOMAIN cmd.args : cmd.args[i].variadic => i = Len(cmd.args)
    /\ \A a \in ToSet(cmd.args) : PresenceOK(a) /\ (a.variadic => a.presence # "default")

CommandOK(cmd) ==
    LET index == ScopeIndex(cmd) IN
    cmd.kind = "command" =>
        /\ \A d \in ToSet(cmd.decls) :
            IF IsFlag(d) THEN FlagOK(d)
            ELSE SelectorOK(cmd, d) /\ SiblingShapesOK(index, d)
        /\ NamesOK(cmd) /\ ShortsOK(index)
        /\ ArgsOK(cmd) /\ UpdateOK(cmd) /\ ConstraintsOK(cmd)

\* Globals are a map by name.
GlobalsOK(globals) ==
    /\ \A i, j \in DOMAIN globals : globals[i].name = globals[j].name => i = j
    /\ \A g \in ToSet(globals) :
        /\ FlagOK(g) /\ AtRoot(g)
        /\ g.name \notin {"help", "version", "config", "hermetic", "mcp", "dump-schema"}
        /\ g.short \notin {"h", "v"}

\* A name that begins with no- would be the negation of another.
NoNegations(names) == names \cap {Negation(n) : n \in names} = {}

\* Only the flags at the root are compared with the globals.
RegisterOK(cmd, globals) ==
    /\ CommandOK(cmd)
    /\ NoNegations(NamesOf(globals) \cup Names(ToSet(cmd.decls)) \cup Names(Entries(cmd)))
    /\ Names(Flags(cmd)) \cap NamesOf(globals) = {}
    /\ \A f \in Flags(cmd) : f.nullable => Unset(f.name) \notin NamesOf(globals)
=============================================================================
