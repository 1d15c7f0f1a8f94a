-------------------------- MODULE InvocationProofs --------------------------
(* What holds of an invocation whatever the program declares and whatever    *)
(* its command line, environment and configuration say: the contract of a    *)
(* command holds of what its handler is given, the handler sees the contents *)
(* of the scopes its choices open and of no other, and each value it is      *)
(* handed is what the highest layer that binds it says.                      *)
EXTENDS Invocation, FiniteSetTheorems, TLAPS

-----------------------------------------------------------------------------
(* Numbers, sequences and functions.                                         *)

LEMMA LeastNumber ==
    ASSUME NEW S, S \subseteq Nat, S # {}
    PROVE  \E m \in S : \A k \in S : m <= k
<1>1. PICK m \in S : \A k \in S : ~ (<<k, m>> \in OpToRel(<, Nat))
    BY WFMin, NatLessThanWellFounded
<1>2. \A k \in S : ~ (k < m)
    BY <1>1 DEF OpToRel
<1>. QED BY <1>2

LEMMA PlacesArePositive == \A n \in Nat : \A k \in 1..n : k \in Nat \ {0}
OBVIOUS

\* The place of the k-th of some places.
PlaceAt(S, k) == CHOOSE i \in S : Cardinality({j \in S : j <= i}) = k

\* Of finitely many places there is exactly one of each rank.
LEMMA PlacesInOrder ==
    ASSUME NEW S, IsFiniteSet(S), S \subseteq Nat
    PROVE  /\ Cardinality(S) \in Nat
           /\ \A c \in S : /\ IsFiniteSet({j \in S : j <= c})
                           /\ Cardinality({j \in S : j <= c}) \in 1..Cardinality(S)
                           /\ PlaceAt(S, Cardinality({j \in S : j <= c})) = c
           /\ \A k \in 1..Cardinality(S) :
                /\ PlaceAt(S, k) \in S
                /\ Cardinality({j \in S : j <= PlaceAt(S, k)}) = k
<1>. DEFINE n == Cardinality(S)
            below(c) == {e \in S : e <= c}
            rank == [c \in S |-> Cardinality(below(c))]
<1>1. n \in Nat
    BY FS_CardinalityType
<1>2. \A c \in S : IsFiniteSet(below(c)) /\ Cardinality(below(c)) \in Nat
                   /\ Cardinality(below(c)) <= n /\ Cardinality(below(c)) # 0
  <2>1. ASSUME NEW c \in S
        PROVE  IsFiniteSet(below(c)) /\ Cardinality(below(c)) <= n
      BY FS_Subset
  <2>2. \A c \in S : c \in below(c)
      OBVIOUS
  <2>3. \A c \in S : Cardinality(below(c)) \in Nat
      BY <2>1, FS_CardinalityType
  <2>4. ASSUME NEW c \in S
        PROVE  Cardinality(below(c)) # 0
    <3>. DEFINE T == below(c)
    <3>1. c \in T /\ IsFiniteSet(T)
        BY <2>1, <2>2
    <3>. HIDE DEF T
    <3>2. Cardinality(T) # 0
        BY <3>1, FS_EmptySet
    <3>. QED BY <3>2 DEF T
  <2>. QED BY <1>1, <2>1, <2>3, <2>4
<1>3. ASSUME NEW c \in S, NEW d \in S, c < d
      PROVE  Cardinality(below(c)) < Cardinality(below(d))
  <2>. c \in Nat /\ d \in Nat
      OBVIOUS
  <2>3. \A e \in S : e \in Nat /\ (e <= c => e <= d)
      BY <1>3
  <2>4. d <= d /\ ~ (d <= c)
      BY <1>3
  <2>1. below(c) \in SUBSET below(d) /\ d \in below(d) /\ d \notin below(c)
      BY <2>3, <2>4
  <2>2. Cardinality(below(c)) <= Cardinality(below(d))
        /\ (Cardinality(below(c)) = Cardinality(below(d)) => below(c) = below(d))
      BY <2>1, <1>2, FS_Subset
  <2>5. below(c) # below(d)
      BY <2>1
  <2>6. Cardinality(below(c)) \in Nat /\ Cardinality(below(d)) \in Nat
      BY <1>2
  <2>. HIDE DEF below
  <2>. QED BY <2>2, <2>5, <2>6
<1>4. \A c, d \in S : Cardinality(below(c)) = Cardinality(below(d)) => c = d
  <2>1. \A c \in S : Cardinality(below(c)) \in Nat /\ c \in Nat
      BY <1>2
  <2>. HIDE DEF below
  <2>2. \A c, d \in S : c < d => Cardinality(below(c)) < Cardinality(below(d))
      BY <1>3
  <2>. QED BY <2>1, <2>2
<1>5. rank \in Injection(S, 1..n)
  <2>1. rank \in [S -> 1..n]
      BY <1>1, <1>2
  <2>2. ASSUME NEW c \in S, NEW d \in S, c # d
        PROVE  rank[c] # rank[d]
      BY <2>2, <1>4
  <2>. QED BY <2>1, <2>2 DEF Injection, IsInjective
<1>6. IsFiniteSet(1..n) /\ Cardinality(1..n) = n
    BY <1>1, FS_Interval
<1>7. rank \in Surjection(S, 1..n)
    BY <1>5, <1>6, FS_Injection
<1>8. \A k \in 1..n : \E c \in S : Cardinality(below(c)) = k
  <2>1. ASSUME NEW k \in 1..n
        PROVE  \E c \in S : Cardinality(below(c)) = k
    <3>1. PICK c \in S : rank[c] = k
        BY <1>7 DEF Surjection
    <3>. QED BY <3>1
  <2>. QED BY <2>1
<1>9. \A k \in 1..n : PlaceAt(S, k) \in S /\ Cardinality(below(PlaceAt(S, k))) = k
    BY <1>8 DEF PlaceAt
<1>10. \A c \in S : Cardinality(below(c)) \in 1..n
    BY <1>1, <1>2
<1>11. \A c \in S : PlaceAt(S, Cardinality(below(c))) = c
  <2>. HIDE DEF below
  <2>. QED BY <1>4, <1>9, <1>10
<1>. QED BY <1>1, <1>2, <1>9, <1>10, <1>11

\* A sublist has the elements of its places, in the order of the places.
LEMMA SublistIs ==
    ASSUME NEW s, NEW S, NEW n, n = Cardinality(S)
    PROVE  /\ DOMAIN Sublist(s, S) = 1..n
           /\ \A k \in 1..n : Sublist(s, S)[k] = s[PlaceAt(S, k)]
           /\ Sublist(s, S) = [k \in 1..n |-> Sublist(s, S)[k]]
           /\ DOMAIN RawsOf(Sublist(s, S)) = 1..n
           /\ \A k \in 1..n : RawsOf(Sublist(s, S))[k] = s[PlaceAt(S, k)].raw
           /\ RawsOf(Sublist(s, S)) = [k \in 1..n |-> RawsOf(Sublist(s, S))[k]]
<1>. DEFINE a == Sublist(s, S)
            b == RawsOf(a)
<1>1. a = [k \in 1..n |-> s[PlaceAt(S, k)]]
    BY DEF Sublist, PlaceAt
<1>. HIDE DEF a
<1>2. b = [k \in 1..n |-> s[PlaceAt(S, k)].raw]
    BY <1>1 DEF RawsOf
<1>. HIDE DEF b
<1>3. DOMAIN a = 1..n /\ (\A k \in 1..n : a[k] = s[PlaceAt(S, k)]) /\ a = [k \in 1..n |-> a[k]]
    BY <1>1
<1>4. DOMAIN b = 1..n /\ (\A k \in 1..n : b[k] = s[PlaceAt(S, k)].raw) /\ b = [k \in 1..n |-> b[k]]
    BY <1>2
<1>. QED BY <1>3, <1>4 DEF a, b

\* A sublist holds the elements at its places.
LEMMA SublistHolds ==
    ASSUME NEW s, NEW S, IsFiniteSet(S), S \subseteq Nat
    PROVE  /\ Sublist(s, S) \in [1..Cardinality(S) -> {s[i] : i \in S}]
           /\ Cardinality(S) \in Nat
<1>1. \A k \in 1..Cardinality(S) : s[PlaceAt(S, k)] \in {s[i] : i \in S}
    BY PlacesInOrder
<1>2. Cardinality(S) \in Nat
    BY FS_CardinalityType
<1>. QED BY <1>1, <1>2, SublistIs

-----------------------------------------------------------------------------
(* Words: those that are read, and those the code makes up.                  *)

Said == Raw \cup {StdinText, "true", "false", ""}

LEMMA AbsentIsNotSaid ==
    /\ "(absent)" \notin Said
    /\ Absent \notin Seq(Said)
    /\ Raw \subseteq Said
<1>1. "(absent)" \notin Said
    BY DEF Said, Raw, StdinText
<1>2. ASSUME Absent \in Seq(Said)
      PROVE  FALSE
  <2>1. Absent[1] \in Said
      BY <1>2 DEF Absent
  <2>. QED BY <1>1, <2>1 DEF Absent
<1>. QED BY <1>1, <1>2 DEF Said

\* The words at some places of the entries read are words.
SaidAll(entries) == \A i \in DOMAIN entries : entries[i].raw \in Said

LEMMA WordsAtPlaces ==
    ASSUME NEW n \in Nat, NEW entries, DOMAIN entries = 1..n, SaidAll(entries),
           NEW S \in SUBSET DOMAIN entries
    PROVE  /\ RawsOf(Sublist(entries, S)) \in Seq(Said)
           /\ Len(RawsOf(Sublist(entries, S))) = Cardinality(S)
<1>1. IsFiniteSet(S) /\ S \subseteq Nat
    BY FS_Interval, FS_Subset
<1>2. /\ Sublist(entries, S) \in [1..Cardinality(S) -> {entries[i] : i \in S}]
      /\ Cardinality(S) \in Nat
    BY <1>1, SublistHolds
<1>3. \A e \in {entries[i] : i \in S} : e.raw \in Said
    BY DEF SaidAll
<1>4. RawsOf(Sublist(entries, S)) \in [1..Cardinality(S) -> Said]
    BY <1>2, <1>3 DEF RawsOf
<1>. QED BY <1>2, <1>4

LEMMA WordsOfAFlag ==
    ASSUME NEW f, NEW raws \in Seq(Said)
    PROVE  FromWords(f, raws) \in Seq(Said)
<1>1. \A raw \in Said : WordValue(f.schema, raw) \in Said
    BY DEF WordValue, Said
<1>2. DOMAIN raws = 1..Len(raws) /\ Len(raws) \in Nat /\ \A i \in 1..Len(raws) : raws[i] \in Said
    OBVIOUS
<1>3. FromWords(f, raws) \in [1..Len(raws) -> Said]
    BY <1>1, <1>2 DEF FromWords
<1>. QED BY <1>2, <1>3

-----------------------------------------------------------------------------
(* Stores: what a later layer adds to one.                                   *)

Extends(t, s) == DOMAIN s \subseteq DOMAIN t /\ \A n \in DOMAIN s : t[n] = s[n]

\* An entry that was supplied says something, or that its property is unset.
FromLayers(e) == e.via \in {"env", "config"} /\ e.value \in Seq(Said)
Bindings(layer) == \A n \in DOMAIN layer : layer[n] \in Seq(Said)

LEMMA OverExtends ==
    ASSUME NEW s, NEW t
    PROVE  /\ Extends(Over(s, t), s)
           /\ DOMAIN Over(s, t) = DOMAIN s \cup DOMAIN t
           /\ \A n \in DOMAIN t \ DOMAIN s : Over(s, t)[n] = t[n]
BY DEF Over, Extends

LEMMA ExtendsFurther ==
    ASSUME NEW s, NEW t, NEW u, Extends(t, s), Extends(u, t)
    PROVE  Extends(u, s)
BY DEF Extends

LEMMA EnvironmentAdds ==
    ASSUME NEW flags, NEW s, NEW from, NEW env, Bindings(env)
    PROVE  LET t == FromEnv(flags, s, from, env).store
           IN  /\ Extends(t, s)
               /\ \A n \in DOMAIN t \ DOMAIN s : n \in Names(flags) /\ FromLayers(t[n])
<1>. DEFINE bound == {f \in Unbound(flags, s, env) : f.env}
            added == [n \in Names(bound) |-> Sourced(FromWords(Named(bound, n), env[n]), "env")]
            t == FromEnv(flags, s, from, env).store
<1>1. t = Over(s, added)
    BY DEF FromEnv
<1>2. \A n \in Names(bound) : n \in DOMAIN env /\ n \in Names(flags)
    BY DEF Names, Unbound
<1>3. \A n \in DOMAIN added : n \in Names(flags) /\ FromLayers(added[n])
  <2>1. ASSUME NEW n \in Names(bound)
        PROVE  FromWords(Named(bound, n), env[n]) \in Seq(Said)
      BY <1>2, WordsOfAFlag DEF Bindings
  <2>. HIDE DEF bound
  <2>. QED BY <1>2, <2>1 DEF Sourced, FromLayers
<1>. HIDE DEF added, t
<1>4. /\ Extends(t, s)
      /\ \A n \in DOMAIN t \ DOMAIN s : n \in Names(flags) /\ FromLayers(t[n])
  <2>1. \A n \in DOMAIN t \ DOMAIN s : n \in DOMAIN added /\ t[n] = added[n]
      BY <1>1 DEF Over
  <2>. QED BY <1>1, <1>3, <2>1, OverExtends
<1>. QED BY <1>4 DEF t

LEMMA ConfigurationAdds ==
    ASSUME NEW flags, NEW s, NEW a, NEW config, Bindings(config)
    PROVE  LET t == FromConfig(flags, s, a, config).store
           IN  /\ Extends(t, s)
               /\ \A n \in DOMAIN t \ DOMAIN s : n \in Names(flags) /\ FromLayers(t[n])
<1>. DEFINE bound == Unbound(flags, s, config)
            added == [n \in Names(bound) |-> Sourced(config[n], "config")]
            t == FromConfig(flags, s, a, config).store
<1>1. t = Over(s, added)
    BY DEF FromConfig
<1>2. \A n \in Names(bound) : n \in DOMAIN config /\ n \in Names(flags)
    BY DEF Names, Unbound
<1>3. \A n \in DOMAIN added : n \in Names(flags) /\ FromLayers(added[n])
  <2>. HIDE DEF bound
  <2>. QED BY <1>2 DEF Sourced, FromLayers, Bindings
<1>. HIDE DEF added, t
<1>4. /\ Extends(t, s)
      /\ \A n \in DOMAIN t \ DOMAIN s : n \in Names(flags) /\ FromLayers(t[n])
  <2>1. \A n \in DOMAIN t \ DOMAIN s : n \in DOMAIN added /\ t[n] = added[n]
      BY <1>1 DEF Over
  <2>. QED BY <1>1, <1>3, <2>1, OverExtends
<1>. QED BY <1>4 DEF t

\* The ambient layers leave what was set, and add only what they bind.
LEMMA AmbientAdds ==
    ASSUME NEW flags, NEW s, NEW from, NEW a, NEW layers,
           Bindings(layers.env), Bindings(layers.config)
    PROVE  LET t == Ambient(flags, s, from, a, layers).store
           IN  /\ Extends(t, s)
               /\ \A n \in DOMAIN t \ DOMAIN s : n \in Names(flags) /\ FromLayers(t[n])
<1>. DEFINE byEnv == FromEnv(flags, s, from, layers.env).store
            byFile == FromConfig(flags, byEnv, a, layers.config).store
<1>1. Ambient(flags, s, from, a, layers).store = byFile
    BY DEF Ambient
<1>2. /\ Extends(byEnv, s)
      /\ \A n \in DOMAIN byEnv \ DOMAIN s : n \in Names(flags) /\ FromLayers(byEnv[n])
    BY EnvironmentAdds
<1>. HIDE DEF byEnv
<1>3. /\ Extends(byFile, byEnv)
      /\ \A n \in DOMAIN byFile \ DOMAIN byEnv : n \in Names(flags) /\ FromLayers(byFile[n])
    BY ConfigurationAdds
<1>. HIDE DEF byFile
<1>. QED BY <1>1, <1>2, <1>3, ExtendsFurther DEF Extends

\* Defaults leave what was set, and add the rest of the flags.
LEMMA DefaultsAdd ==
    ASSUME NEW flags, NEW s
    PROVE  LET t == Defaulted(flags, s).store
           IN  /\ Extends(t, s)
               /\ DOMAIN t = DOMAIN s \cup Names(flags)
               /\ \A n \in DOMAIN t \ DOMAIN s : t[n].via = "default"
<1>. DEFINE missing == {f \in flags : ~Has(s, f.name)}
            added == [n \in Names(missing) |-> Sourced(Named(missing, n).dflt, "default")]
            t == Defaulted(flags, s).store
<1>1. t = Over(s, added)
    BY DEF Defaulted
<1>2. Names(missing) = Names(flags) \ DOMAIN s
    BY DEF Names, Has
<1>3. \A n \in DOMAIN added : added[n].via = "default"
    BY DEF Sourced
<1>4. DOMAIN added = Names(flags) \ DOMAIN s
    BY <1>2
<1>. HIDE DEF added, t
<1>5. /\ Extends(t, s) /\ DOMAIN t = DOMAIN s \cup Names(flags)
      /\ \A n \in DOMAIN t \ DOMAIN s : t[n].via = "default"
  <2>1. \A n \in DOMAIN t \ DOMAIN s : n \in DOMAIN added /\ t[n] = added[n]
      BY <1>1 DEF Over
  <2>2. DOMAIN t = DOMAIN s \cup DOMAIN added /\ Extends(t, s)
      BY <1>1, OverExtends
  <2>. QED BY <1>3, <1>4, <2>1, <2>2
<1>. QED BY <1>5 DEF t

-----------------------------------------------------------------------------
(* Implications: each sees what the ones before it set.                      *)

Trigger(c) == c.members[1].name
Target(c) == c.members[2].name
IsAcc(x) == x = [ok |-> x.ok, store |-> x.store] /\ x.ok \in BOOLEAN
Fires(x, c) == x.ok /\ c.kind = "implies" /\ Provided(x.store, Trigger(c))

\* An implication that fires sets its target, or finds it set to the value.
LEMMA ImplyStep ==
    ASSUME NEW x, IsAcc(x), NEW c
    PROVE  /\ IsAcc(Imply(x, c))
           /\ ~Fires(x, c) => Imply(x, c) = x
           /\ Imply(x, c).ok => x.ok
           /\ Imply(x, c).ok /\ Fires(x, c) => Holds(Imply(x, c).store, Target(c), <<c.value>>)
           /\ Extends(Imply(x, c).store, x.store)
           /\ \A n \in DOMAIN Imply(x, c).store \ DOMAIN x.store :
                /\ Fires(x, c) /\ n = Target(c)
                /\ Imply(x, c).store[n] = Sourced(<<c.value>>, "implied")
<1>. DEFINE y == Imply(x, c)
            n == Target(c)
<1>1. CASE ~Fires(x, c)
  <2>1. y = x
      BY <1>1 DEF Imply, Fires, Trigger
  <2>. QED BY <1>1, <2>1 DEF Extends
<1>2. CASE Fires(x, c) /\ Has(x.store, n)
  <2>1. y = [x EXCEPT !.ok = Holds(x.store, n, <<c.value>>)]
      BY <1>2 DEF Imply, Fires, Trigger, Target
  <2>2. y.ok = Holds(x.store, n, <<c.value>>) /\ y.store = x.store
        /\ y = [ok |-> y.ok, store |-> y.store]
      BY <2>1 DEF IsAcc
  <2>3. Holds(x.store, n, <<c.value>>) \in BOOLEAN
      BY DEF Holds
  <2>. HIDE DEF y
  <2>4. IsAcc(y)
      BY <2>2, <2>3 DEF IsAcc
  <2>. QED BY <1>2, <2>2, <2>4 DEF Extends, Fires, y
<1>3. CASE Fires(x, c) /\ ~Has(x.store, n)
  <2>. DEFINE e == Sourced(<<c.value>>, "implied")
  <2>1. y = [x EXCEPT !.store = Put(x.store, n, e)]
      BY <1>3 DEF Imply, Fires, Trigger, Target
  <2>2. y.ok = x.ok /\ y.store = Put(x.store, n, e) /\ y = [ok |-> y.ok, store |-> y.store]
      BY <2>1 DEF IsAcc
  <2>. HIDE DEF y, e
  <2>3. /\ DOMAIN y.store = DOMAIN x.store \cup {n} /\ y.store[n] = e
        /\ \A m \in DOMAIN x.store : y.store[m] = x.store[m]
      BY <1>3, <2>2 DEF Put, Has
  <2>4. IsAcc(y) /\ Extends(y.store, x.store)
      BY <2>2, <2>3 DEF IsAcc, Extends
  <2>5. Holds(y.store, n, <<c.value>>)
      BY <2>3 DEF e, Sourced, Holds, Has
  <2>. QED BY <1>3, <2>2, <2>3, <2>4, <2>5 DEF y, e, Fires
<1>. QED BY <1>1, <1>2, <1>3

Chain(rules, s, n, g) ==
    g = [k \in 0..n |-> IF k = 0 THEN [ok |-> TRUE, store |-> s] ELSE Imply(g[k - 1], rules[k])]

LEMMA ChainsExist ==
    ASSUME NEW rules, NEW s, NEW n \in Nat
    PROVE  \E g : Chain(rules, s, n, g)
<1>. DEFINE Seed == [ok |-> TRUE, store |-> s]
<1>1. ASSUME NEW m \in Nat, NEW g, Chain(rules, s, m, g)
      PROVE  \E h : Chain(rules, s, m + 1, h)
  <2>. DEFINE h == [k \in 0..(m + 1) |-> IF k = m + 1 THEN Imply(g[m], rules[m + 1]) ELSE g[k]]
  <2>1. \A k \in 0..(m + 1) : h[k] = IF k = 0 THEN Seed ELSE Imply(h[k - 1], rules[k])
    <3>1. \A k \in 0..m : g[k] = IF k = 0 THEN Seed ELSE Imply(g[k - 1], rules[k])
        BY <1>1 DEF Chain
    <3>2. \A k \in 0..m : h[k] = g[k]
        OBVIOUS
    <3>. HIDE DEF Seed
    <3>3. h[m + 1] = Imply(h[m], rules[m + 1]) /\ (m + 1) - 1 = m /\ m + 1 # 0
        BY <3>2
    <3>4. ASSUME NEW k \in 0..(m + 1), k # m + 1, k # 0
          PROVE  h[k] = Imply(h[k - 1], rules[k])
      <4>1. k \in 0..m /\ k - 1 \in 0..m
          BY <3>4
      <4>. HIDE DEF h
      <4>. QED BY <3>1, <3>2, <3>4, <4>1
    <3>5. h[0] = Seed
        BY <3>1
    <3>. QED BY <3>3, <3>4, <3>5
  <2>2. Chain(rules, s, m + 1, h)
      BY <2>1 DEF Chain
  <2>. QED BY <2>2
<1>2. \E g : Chain(rules, s, 0, g)
  <2>. DEFINE h == [k \in 0..0 |-> Seed]
  <2>1. Chain(rules, s, 0, h)
      BY DEF Chain
  <2>. QED BY <2>1
<1>. DEFINE Missing == {m \in Nat : ~ \E g : Chain(rules, s, m, g)}
<1>. SUFFICES ASSUME Missing # {} PROVE FALSE
    OBVIOUS
<1>3. PICK m \in Missing : \A k \in Missing : m <= k
    BY LeastNumber
<1>4. m # 0
    BY <1>2
<1>5. m - 1 \in Nat /\ m - 1 \notin Missing
    BY <1>3, <1>4
<1>6. PICK g : Chain(rules, s, m - 1, g)
    BY <1>5
<1>7. \E h : Chain(rules, s, (m - 1) + 1, h)
    BY <1>1, <1>5, <1>6
<1>. QED BY <1>7

\* A chain only adds to the store, and only what an implication set; once a
\* link has failed all later ones have.
LinkOK(rules, s, g, k) ==
    /\ IsAcc(g[k])
    /\ Extends(g[k].store, s)
    /\ \A n \in DOMAIN g[k].store \ DOMAIN s : \E i \in 1..k :
        Fires(g[i - 1], rules[i]) /\ n = Target(rules[i])
        /\ g[k].store[n] = Sourced(<<rules[i].value>>, "implied")
    /\ \A j \in 0..k : Extends(g[k].store, g[j].store) /\ (g[k].ok => g[j].ok)

LEMMA LinksAreOK ==
    ASSUME NEW rules, NEW s, NEW n \in Nat, NEW g, Chain(rules, s, n, g), NEW k \in 0..n
    PROVE  LinkOK(rules, s, g, k)
<1>1. LinkOK(rules, s, g, 0)
  <2>1. g[0] = [ok |-> TRUE, store |-> s]
      BY DEF Chain
  <2>. QED BY <2>1 DEF LinkOK, IsAcc, Extends
<1>2. ASSUME NEW m \in 1..n, LinkOK(rules, s, g, m - 1)
      PROVE  LinkOK(rules, s, g, m)
  <2>. DEFINE x == g[m - 1]
              y == g[m]
              c == rules[m]
  <2>1. y = Imply(x, c)
    <3>1. m \in 0..n /\ m # 0
        OBVIOUS
    <3>2. \A i \in 0..n : g[i] = IF i = 0 THEN [ok |-> TRUE, store |-> s] ELSE Imply(g[i - 1], rules[i])
        BY DEF Chain
    <3>. QED BY <3>1, <3>2
  <2>2. IsAcc(x)
      BY <1>2 DEF LinkOK
  <2>. HIDE DEF x, y, c
  <2>3. /\ IsAcc(y) /\ (y.ok => x.ok) /\ Extends(y.store, x.store)
        /\ \A t \in DOMAIN y.store \ DOMAIN x.store :
                Fires(x, c) /\ t = Target(c) /\ y.store[t] = Sourced(<<c.value>>, "implied")
      BY <2>1, <2>2, ImplyStep
  <2>4. Extends(y.store, s)
    <3>1. Extends(x.store, s)
        BY <1>2 DEF LinkOK, x
    <3>. QED BY <2>3, <3>1, ExtendsFurther
  <2>5. ASSUME NEW j \in 0..m
        PROVE  Extends(y.store, g[j].store) /\ (y.ok => g[j].ok)
    <3>1. CASE j = m
        BY <3>1 DEF Extends, y
    <3>2. CASE j # m
      <4>1. j \in 0..(m - 1)
          BY <3>2
      <4>2. Extends(x.store, g[j].store) /\ (x.ok => g[j].ok)
          BY <1>2, <4>1 DEF LinkOK, x
      <4>. QED BY <2>3, <4>2, ExtendsFurther
    <3>. QED BY <3>1, <3>2
  <2>6. ASSUME NEW t \in DOMAIN y.store \ DOMAIN s
        PROVE  \E i \in 1..m : /\ Fires(g[i - 1], rules[i]) /\ t = Target(rules[i])
                               /\ y.store[t] = Sourced(<<rules[i].value>>, "implied")
    <3>1. CASE t \in DOMAIN x.store
      <4>1. \E i \in 1..(m - 1) : /\ Fires(g[i - 1], rules[i]) /\ t = Target(rules[i])
                                  /\ x.store[t] = Sourced(<<rules[i].value>>, "implied")
          BY <1>2, <3>1 DEF LinkOK, x
      <4>2. y.store[t] = x.store[t]
          BY <2>3, <3>1 DEF Extends
      <4>. QED BY <4>1, <4>2
    <3>2. CASE t \notin DOMAIN x.store
        BY <2>3, <3>2 DEF x, c
    <3>. QED BY <3>1, <3>2
  <2>. QED BY <2>3, <2>4, <2>5, <2>6 DEF LinkOK, y
<1>. DEFINE Wrong == {m \in 0..n : ~ LinkOK(rules, s, g, m)}
<1>. SUFFICES ASSUME Wrong # {} PROVE FALSE
    OBVIOUS
<1>3. PICK m \in Wrong : \A i \in Wrong : m <= i
  <2>1. Wrong \subseteq Nat
      OBVIOUS
  <2>. HIDE DEF Wrong
  <2>. QED BY <2>1, LeastNumber
<1>4. m # 0
    BY <1>1
<1>5. m \in 1..n /\ m - 1 \in 0..n /\ m - 1 \notin Wrong
    BY <1>3, <1>4
<1>6. LinkOK(rules, s, g, m - 1)
    BY <1>5
<1>. QED BY <1>2, <1>5, <1>6

\* What the implications leave: the store with the targets of those that fired,
\* among them each whose trigger was supplied or set by one before it.
ImpliesOf(rules) == {i \in DOMAIN rules : rules[i].kind = "implies"}
FiredOnly(rules, s, t, M) ==
    /\ M \subseteq ImpliesOf(rules)
    /\ \A i \in M : Holds(t, Target(rules[i]), <<rules[i].value>>)
    /\ \A i \in ImpliesOf(rules) :
        Provided(s, Trigger(rules[i])) \/ (\E j \in M : j < i /\ Target(rules[j]) = Trigger(rules[i]))
        => i \in M

\* The store implications leave is the last of a chain of stores.
LEMMA ImpliedIsAChain ==
    ASSUME NEW cmd, NEW n \in Nat, n = Len(cmd.constraints), NEW s
    PROVE  \E g : Chain(cmd.constraints, s, n, g) /\ Implied(cmd, s) = g[n]
<1>. DEFINE rules == cmd.constraints
            last == Implied(cmd, s)
<1>1. \E g : Chain(rules, s, n, g)
    BY ChainsExist
<1>. DEFINE after == CHOOSE g : g = [k \in 0..n |->
                        IF k = 0 THEN [ok |-> TRUE, store |-> s] ELSE Imply(g[k - 1], rules[k])]
<1>2. Chain(rules, s, n, after)
  <2>1. \E g : g = [k \in 0..n |-> IF k = 0 THEN [ok |-> TRUE, store |-> s] ELSE Imply(g[k - 1], rules[k])]
      BY <1>1 DEF Chain
  <2>. QED BY <2>1 DEF Chain
<1>3. last = after[n]
    BY DEF Implied
<1>. HIDE DEF after, last
<1>. QED BY <1>2, <1>3 DEF last

LEMMA ImpliedAdds ==
    ASSUME NEW cmd, NEW n \in Nat, DOMAIN cmd.constraints = 1..n, n = Len(cmd.constraints),
           NEW s, Implied(cmd, s).ok,
           \A i \in ImpliesOf(cmd.constraints) : Target(cmd.constraints[i]) \in DOMAIN s =>
                s[Target(cmd.constraints[i])].via \in ProvidedSources
    PROVE  LET t == Implied(cmd, s).store
               rules == cmd.constraints
           IN  /\ Extends(t, s)
               /\ \A m \in DOMAIN t \ DOMAIN s : \E i \in ImpliesOf(rules) :
                    m = Target(rules[i]) /\ t[m] = Sourced(<<rules[i].value>>, "implied")
               /\ \E M : FiredOnly(rules, s, t, M)
<1>. DEFINE rules == cmd.constraints
            last == Implied(cmd, s)
            t == last.store
<1>1. \E g : Chain(rules, s, n, g) /\ last = g[n]
  <2>1. PICK k, c, x : k = n /\ c = cmd /\ x = s
      OBVIOUS
  <2>2. k \in Nat /\ k = Len(c.constraints)
      BY <2>1
  <2>3. \E g : Chain(c.constraints, x, k, g) /\ Implied(c, x) = g[k]
      BY <2>2, ImpliedIsAChain
  <2>. QED BY <2>1, <2>3
<1>2. PICK g : Chain(rules, s, n, g) /\ last = g[n]
    BY <1>1
<1>3. \A k \in 0..n : LinkOK(rules, s, g, k)
    BY <1>2, LinksAreOK
<1>4. \A i \in 1..n : i - 1 \in 0..n /\ i \in 0..n /\ g[i] = Imply(g[i - 1], rules[i])
  <2>1. \A i \in 0..n : g[i] = IF i = 0 THEN [ok |-> TRUE, store |-> s] ELSE Imply(g[i - 1], rules[i])
      BY <1>2 DEF Chain
  <2>2. \A i \in 1..n : i - 1 \in 0..n /\ i \in 0..n /\ i # 0
      OBVIOUS
  <2>. QED BY <2>1, <2>2
<1>. DEFINE implies == ImpliesOf(rules)
            M == {i \in implies : Provided(g[i - 1].store, Trigger(rules[i]))}
<1>5. g[n].ok /\ t = g[n].store /\ n \in 0..n
    BY <1>2
<1>6. implies \subseteq 1..n /\ \A i \in implies : rules[i].kind = "implies"
    BY DEF ImpliesOf
<1>. HIDE DEF last, t, rules, implies
<1>7. \A k \in 0..n : g[k].ok /\ Extends(t, g[k].store) /\ Extends(g[k].store, s)
    BY <1>3, <1>5 DEF LinkOK
<1>8. Extends(t, s)
    BY <1>5, <1>7
<1>9. \A m \in DOMAIN t \ DOMAIN s : \E i \in implies :
        m = Target(rules[i]) /\ t[m] = Sourced(<<rules[i].value>>, "implied")
  <2>1. ASSUME NEW m \in DOMAIN t \ DOMAIN s
        PROVE  \E i \in implies : m = Target(rules[i]) /\ t[m] = Sourced(<<rules[i].value>>, "implied")
    <3>1. PICK i \in 1..n : /\ Fires(g[i - 1], rules[i]) /\ m = Target(rules[i])
                            /\ t[m] = Sourced(<<rules[i].value>>, "implied")
        BY <1>3, <1>5 DEF LinkOK
    <3>2. i \in implies
        BY <3>1 DEF Fires, implies, ImpliesOf, rules
    <3>. QED BY <3>1, <3>2
  <2>. QED BY <2>1
<1>10. \A i \in M : Holds(g[i].store, Target(rules[i]), <<rules[i].value>>)
  <2>1. ASSUME NEW i \in M
        PROVE  Holds(g[i].store, Target(rules[i]), <<rules[i].value>>)
    <3>1. i \in 1..n /\ i \in 0..n /\ i - 1 \in 0..n
        BY <1>4, <1>6
    <3>2. IsAcc(g[i - 1]) /\ g[i - 1].ok /\ g[i].ok
        BY <1>3, <1>7, <3>1 DEF LinkOK
    <3>3. Fires(g[i - 1], rules[i])
        BY <1>6, <3>2 DEF Fires
    <3>4. g[i] = Imply(g[i - 1], rules[i])
        BY <1>4, <3>1
    <3>. QED BY <3>2, <3>3, <3>4, ImplyStep
  <2>. QED BY <2>1
<1>11. \A i \in M : Holds(t, Target(rules[i]), <<rules[i].value>>)
  <2>1. \A i \in M : i \in 0..n
      BY <1>6
  <2>. QED BY <1>7, <1>10, <2>1 DEF Holds, Has, Extends
<1>12. ASSUME NEW i \in implies, Provided(s, Trigger(rules[i]))
       PROVE  i \in M
  <2>1. Extends(g[i - 1].store, s)
      BY <1>4, <1>6, <1>7
  <2>. QED BY <1>12, <2>1 DEF Provided, Has, Extends
<1>13. ASSUME NEW i \in implies, NEW j \in M, j < i, Target(rules[j]) = Trigger(rules[i])
       PROVE  i \in M
  <2>. DEFINE m == Target(rules[j])
              u == g[j].store
  <2>1. j \in 0..n /\ i - 1 \in 0..n /\ j \in 0..(i - 1)
      BY <1>6, <1>13
  <2>2. Extends(g[i - 1].store, u)
      BY <1>3, <2>1 DEF LinkOK
  <2>3. m \in DOMAIN u
      BY <1>10 DEF Holds, Has
  <2>4. u[m].via \in ProvidedSources
    <3>1. CASE m \in DOMAIN s
      <4>1. u[m] = s[m]
          BY <1>7, <2>1, <3>1 DEF Extends
      <4>. QED BY <3>1, <4>1 DEF implies, rules
    <3>2. CASE m \notin DOMAIN s
      <4>1. \E k \in 1..j : u[m] = Sourced(<<rules[k].value>>, "implied")
          BY <1>3, <2>1, <2>3, <3>2 DEF LinkOK
      <4>. QED BY <4>1 DEF Sourced, ProvidedSources
    <3>. QED BY <3>1, <3>2
  <2>. HIDE DEF u, m
  <2>5. Provided(g[i - 1].store, m)
      BY <2>2, <2>3, <2>4 DEF Provided, Has, Extends
  <2>. QED BY <1>13, <2>5 DEF m
<1>14. FiredOnly(rules, s, t, M)
    BY <1>11, <1>12, <1>13 DEF FiredOnly, implies
<1>. QED BY <1>8, <1>9, <1>14 DEF t, last, rules, implies

-----------------------------------------------------------------------------
(* What registration leaves of a command.                                    *)

InCommand == path \in DOMAIN app.commands /\ Command.kind = "command"
RootNames == Names(RootDecls(Command))

LEMMA RegisteredCommand ==
    ASSUME Registered(app), InCommand
    PROVE  /\ Command \in CommandType /\ Len(Command.update) <= 1 /\ IsTree(Command.decls)
           /\ \A d \in ToSet(Command.decls) : d \in DeclarationType
           /\ \A d \in ToSet(Command.decls) : IsSelector(d) => SelectorOK(Command, d)
           /\ NamesOK(Command) /\ ArgsOK(Command) /\ UpdateOK(Command) /\ ConstraintsOK(Command)
           /\ Names(Flags(Command)) \cap NamesOf(app.globals) = {}
           /\ app.globals \in Seq(DeclarationType) /\ GlobalsOK(app.globals)
<1>1. Command \in CommandType /\ Len(Command.update) <= 1 /\ IsTree(Command.decls)
    BY DEF Registered, IsProgram, InCommand, Command
<1>2. RegisterOK(Command, app.globals) /\ GlobalsOK(app.globals) /\ app.globals \in Seq(DeclarationType)
    BY DEF Registered, IsProgram, InCommand, Command
<1>3. CommandOK(Command) /\ Names(Flags(Command)) \cap NamesOf(app.globals) = {}
    BY <1>2 DEF RegisterOK
<1>4. /\ \A d \in ToSet(Command.decls) : ~IsFlag(d) => SelectorOK(Command, d)
      /\ NamesOK(Command) /\ ArgsOK(Command) /\ UpdateOK(Command) /\ ConstraintsOK(Command)
    BY <1>3 DEF CommandOK, InCommand
<1>5. \A d \in ToSet(Command.decls) : d \in DeclarationType
  <2>1. Command.decls \in Seq(DeclarationType)
      BY <1>1 DEF CommandType
  <2>. QED BY <2>1 DEF ToSet
<1>. QED BY <1>1, <1>2, <1>3, <1>4, <1>5 DEF IsFlag, IsSelector

\* Of the root declarations a name is either a flag's or a selector's.
LEMMA RootDeclarations ==
    ASSUME Registered(app), InCommand
    PROVE  /\ \A d, e \in RootDecls(Command) : d.name = e.name => d = e
           /\ \A d \in RootDecls(Command) : IsFlag(d) \/ IsSelector(d)
           /\ \A d \in RootDecls(Command) : IsFlag(d) <=> d \in Flags(Command)
           /\ RootNames = Names(Flags(Command)) \cup Names({d \in RootDecls(Command) : IsSelector(d)})
<1>. DEFINE decls == Command.decls
<1>1. /\ \A d \in ToSet(decls) : d \in DeclarationType
      /\ \A i, j \in DOMAIN decls :
            decls[i].path = <<>> /\ decls[j].path = <<>> /\ decls[i].name = decls[j].name => i = j
    BY RegisteredCommand DEF NamesOK
<1>2. \A d \in ToSet(decls) : \E i \in DOMAIN decls : d = decls[i]
  <2>1. decls \in Seq(DeclarationType)
      BY RegisteredCommand DEF CommandType
  <2>. QED BY <2>1 DEF ToSet
<1>3. \A d, e \in RootDecls(Command) : d.name = e.name => d = e
  <2>1. ASSUME NEW d \in RootDecls(Command), NEW e \in RootDecls(Command), d.name = e.name
        PROVE  d = e
    <3>1. d \in ToSet(decls) /\ e \in ToSet(decls) /\ d.path = <<>> /\ e.path = <<>>
        BY DEF RootDecls
    <3>2. PICK i \in DOMAIN decls : d = decls[i]
        BY <1>2, <3>1
    <3>3. PICK j \in DOMAIN decls : e = decls[j]
        BY <1>2, <3>1
    <3>. HIDE DEF decls
    <3>. QED BY <1>1, <2>1, <3>1, <3>2, <3>3
  <2>. QED BY <2>1
<1>4. \A d \in RootDecls(Command) : IsFlag(d) \/ IsSelector(d)
  <2>1. \A d \in RootDecls(Command) : d.kind \in {"flag", "token", "member"}
    <3>1. \A d \in RootDecls(Command) : d \in DeclarationType
        BY <1>1 DEF RootDecls
    <3>. QED BY <3>1 DEF DeclarationType
  <2>. QED BY <2>1 DEF IsFlag, IsSelector
<1>5. \A d \in RootDecls(Command) : IsFlag(d) <=> d \in Flags(Command)
    BY DEF RootDecls, Flags, AtRoot
<1>6. Flags(Command) \subseteq RootDecls(Command)
    BY DEF RootDecls, Flags, AtRoot
<1>. QED BY <1>3, <1>4, <1>5, <1>6 DEF Names, RootNames

\* Where every constraint is one the command declares, its members are named.
LEMMA MembersAreNamed ==
    ASSUME Registered(app), InCommand, NEW c \in ToSet(Command.constraints)
    PROVE  /\ c \in ConstraintType /\ Len(c.members) >= 2
           /\ DOMAIN c.members = 1..Len(c.members) /\ Len(c.members) \in Nat
           /\ \A i \in DOMAIN c.members : c.members[i] \in ToSet(c.members)
           /\ \A m \in ToSet(c.members) : m.name \in ToSet(MemberNames(c)) /\ m.when \in {"", "true", "non_empty"}
           /\ ConstraintOK(Command, c)
           /\ c.name \in ConstraintNames(Command)
<1>1. Command.constraints \in Seq(ConstraintType) /\ ConstraintOK(Command, c)
    BY RegisteredCommand DEF CommandType, ConstraintsOK
<1>2. c \in ConstraintType /\ c.name \in ConstraintNames(Command)
    BY <1>1 DEF ToSet, ConstraintNames, NamesOf
<1>3. c.members \in Seq(MemberType) /\ Len(c.members) >= 2
    BY <1>1, <1>2 DEF ConstraintType, ConstraintOK
<1>4. \A m \in ToSet(c.members) : m.name \in ToSet(MemberNames(c)) /\ m \in MemberType
    BY <1>3 DEF ToSet, MemberNames
<1>5. \A m \in ToSet(c.members) : m.when \in {"", "true", "non_empty"}
    BY <1>4 DEF MemberType
<1>6. DOMAIN c.members = 1..Len(c.members) /\ Len(c.members) \in Nat
    BY <1>3
<1>7. \A i \in DOMAIN c.members : c.members[i] \in ToSet(c.members)
    BY DEF ToSet
<1>. QED BY <1>1, <1>2, <1>3, <1>4, <1>5, <1>6, <1>7

\* A requirement and an implication are between root declarations, and what an
\* implication sets is a flag.
LEMMA PairsAreOfTheRoot ==
    ASSUME Registered(app), InCommand, NEW c \in ToSet(Command.constraints), ~CoOccurrence(c)
    PROVE  /\ Trigger(c) \in RootNames /\ Target(c) \in RootNames
           /\ c.kind = "implies" =>
                /\ c.value \in {"true", "false"}
                /\ \A d \in RootDecls(Command) : d.name = Target(c) => IsFlag(d)
<1>1. /\ ToSet(MemberNames(c)) \subseteq Names(RootDecls(Command))
      /\ c.kind = "implies" =>
            /\ c.value \in {"true", "false"}
            /\ \A d \in RootDecls(Command) : d.name \in ToSet(MemberNames(c)) =>
                    IsFlag(d) /\ d.schema = "bool"
    BY MembersAreNamed DEF ConstraintOK
<1>2. Trigger(c) \in ToSet(MemberNames(c)) /\ Target(c) \in ToSet(MemberNames(c))
  <2>1. 1 \in DOMAIN c.members /\ 2 \in DOMAIN c.members
    <3>1. Len(c.members) >= 2 /\ DOMAIN c.members = 1..Len(c.members) /\ Len(c.members) \in Nat
        BY ZenonT(60), MembersAreNamed
    <3>. QED BY <3>1
  <2>. QED BY <2>1, MembersAreNamed DEF Trigger, Target
<1>. QED BY <1>1, <1>2 DEF RootNames

\* The words each argument was given: from its place on, or the one there.
Taken(i) == i <= Len(positionals) \/ Command.args[i].variadic
WordsFrom(i) ==
    IF Command.args[i].variadic THEN SubSeq(positionals, i, Len(positionals)) ELSE <<positionals[i]>>

LEMMA ArgumentsByPlace ==
    ASSUME Registered(app), InCommand, positionals \in Seq(Said)
    PROVE  LET given == GivenArgs(Command, positionals)
               args == Command.args
           IN  /\ DOMAIN args = 1..Len(args) /\ Len(args) \in Nat
               /\ \A i, j \in DOMAIN args : args[i].name = args[j].name => i = j
               /\ DOMAIN given = {args[i].name : i \in {j \in DOMAIN args : Taken(j)}}
               /\ \A i \in DOMAIN args : Taken(i) => given[args[i].name] = WordsFrom(i)
<1>. DEFINE given == GivenArgs(Command, positionals)
            args == Command.args
            taken == {i \in DOMAIN args : i <= Len(positionals) \/ args[i].variadic}
            At(a) == CHOOSE i \in taken : args[i].name = a
<1>1. /\ DOMAIN args = 1..Len(args) /\ Len(args) \in Nat
      /\ \A i, j \in DOMAIN args : args[i].name = args[j].name => i = j
  <2>1. args \in Seq(ArgType)
      BY RegisteredCommand DEF CommandType
  <2>2. ArgsOK(Command)
      BY RegisteredCommand
  <2>. QED BY <2>1, <2>2 DEF ArgsOK
<1>2. given = [a \in {args[i].name : i \in taken} |->
                IF args[At(a)].variadic THEN SubSeq(positionals, At(a), Len(positionals))
                ELSE <<positionals[At(a)]>>]
    BY DEF GivenArgs
<1>3. \A i \in taken : At(args[i].name) = i
    BY <1>1
<1>4. \A i \in taken : given[args[i].name] = WordsFrom(i)
  <2>. DEFINE By(i) == IF args[i].variadic THEN SubSeq(positionals, i, Len(positionals))
                       ELSE <<positionals[i]>>
  <2>1. given = [a \in {args[i].name : i \in taken} |-> By(At(a))]
      BY <1>2
  <2>2. \A i \in taken : By(i) = WordsFrom(i)
      BY DEF WordsFrom
  <2>. HIDE DEF At, By, given, taken
  <2>3. \A i \in taken : args[i].name \in {args[j].name : j \in taken}
      OBVIOUS
  <2>. QED BY <1>3, <2>1, <2>2, <2>3
<1>5. taken = {j \in DOMAIN args : Taken(j)}
    BY DEF Taken
<1>. QED BY ZenonT(60), <1>1, <1>2, <1>4, <1>5

LEMMA WordsOfAnArgument ==
    ASSUME positionals \in Seq(Said), NEW i \in Nat \ {0}, Taken(i)
    PROVE  /\ WordsFrom(i) \in Seq(Said)
           /\ (WordsFrom(i) # <<>> <=> i <= Len(positionals))
           /\ ~Command.args[i].variadic => WordsFrom(i) = <<positionals[i]>> /\ i <= Len(positionals)
<1>1. CASE Command.args[i].variadic
  <2>1. WordsFrom(i) = SubSeq(positionals, i, Len(positionals))
      BY <1>1 DEF WordsFrom
  <2>2. SubSeq(positionals, i, Len(positionals)) \in Seq(Said)
      OBVIOUS
  <2>3. Len(SubSeq(positionals, i, Len(positionals))) =
            IF i <= Len(positionals) THEN Len(positionals) - i + 1 ELSE 0
      OBVIOUS
  <2>4. SubSeq(positionals, i, Len(positionals)) # <<>> <=> i <= Len(positionals)
    <3>1. \A t \in Seq(Said) : t # <<>> <=> Len(t) # 0
        OBVIOUS
    <3>2. i <= Len(positionals) => Len(positionals) - i + 1 # 0
        OBVIOUS
    <3>. QED BY <2>2, <2>3, <3>1, <3>2
  <2>. QED BY <1>1, <2>1, <2>2, <2>4
<1>2. CASE ~Command.args[i].variadic
  <2>1. i <= Len(positionals) /\ WordsFrom(i) = <<positionals[i]>>
      BY <1>2 DEF Taken, WordsFrom
  <2>2. positionals[i] \in Said
      BY <2>1
  <2>. QED BY <1>2, <2>1, <2>2
<1>. QED BY <1>1, <1>2

\* Of a member that is no root declaration the constraint asks of the words
\* given by place what a reader of the command line would.
LEMMA ArgumentsEngage ==
    ASSUME Registered(app), InCommand, positionals \in Seq(Said),
           NEW m, m.name \notin RootNames, m.when \in {"", "true", "non_empty"}, NEW s,
           NEW given, given = GivenArgs(Command, positionals)
    PROVE  EngagedMember(Command, m, s, given) <=> ArgGiven(m)
<1>. DEFINE args == Command.args
            asked == {i \in DOMAIN args : args[i].name = m.name}
<1>1. /\ DOMAIN args = 1..Len(args) /\ Len(args) \in Nat
      /\ \A i, j \in DOMAIN args : args[i].name = args[j].name => i = j
      /\ DOMAIN given = {args[i].name : i \in {j \in DOMAIN args : Taken(j)}}
      /\ \A i \in DOMAIN args : Taken(i) => given[args[i].name] = WordsFrom(i)
    BY ArgumentsByPlace
<1>2. EngagedMember(Command, m, s, given) <=>
        /\ m.name \in DOMAIN given /\ given[m.name] # <<>>
        /\ m.when = "non_empty" => Sized(Command, m.name, given[m.name])
    BY DEF EngagedMember, RootNames
<1>3. ArgGiven(m) <=> \E i \in asked :
        /\ i <= Len(positionals)
        /\ (m.when = "non_empty" /\ ~args[i].variadic) => positionals[i] # ""
    BY DEF ArgGiven
<1>4. CASE asked = {}
  <2>1. m.name \notin DOMAIN given
      BY <1>1, <1>4
  <2>2. ~ArgGiven(m)
      BY <1>3, <1>4
  <2>. QED BY <1>2, <2>1, <2>2
<1>5. CASE asked # {}
  <2>1. PICK i \in asked : TRUE
      BY <1>5
  <2>2. i \in DOMAIN args /\ args[i].name = m.name
      BY <2>1
  <2>3. \A j \in asked : j = i
      BY <1>1, <2>2
  <2>4. i \in Nat \ {0}
    <3>. DEFINE n == Len(args)
    <3>1. i \in 1..n /\ n \in Nat
        BY <1>1, <2>2
    <3>. HIDE DEF n
    <3>. QED BY <3>1, PlacesArePositive
  <2>5. m.name \in DOMAIN given <=> Taken(i)
      BY ZenonT(60), <1>1, <2>2
  <2>6. ArgGiven(m) <=> /\ i <= Len(positionals)
                        /\ (m.when = "non_empty" /\ ~args[i].variadic) => positionals[i] # ""
      BY <1>3, <2>1, <2>3
  <2>7. CASE ~Taken(i)
    <3>1. ~ (i <= Len(positionals))
        BY <2>7 DEF Taken
    <3>. QED BY <1>2, <2>5, <2>6, <2>7, <3>1
  <2>8. CASE Taken(i)
    <3>1. given[m.name] = WordsFrom(i)
        BY <1>1, <2>2, <2>8
    <3>2. /\ WordsFrom(i) \in Seq(Said)
          /\ (WordsFrom(i) # <<>> <=> i <= Len(positionals))
          /\ ~args[i].variadic => WordsFrom(i) = <<positionals[i]>> /\ i <= Len(positionals)
        BY <2>4, <2>8, WordsOfAnArgument
    <3>3. WordsFrom(i) # Absent
      <4>. HIDE DEF args, asked
      <4>. QED BY <3>2, AbsentIsNotSaid
    <3>4. Sized(Command, m.name, WordsFrom(i)) <=>
            /\ WordsFrom(i) # <<>>
            /\ WordsFrom(i) = <<"">> => args[i].variadic
      <4>1. m.name \notin Names({f \in Flags(Command) : ~IsScalar(f)})
          BY DEF Names, Flags, AtRoot, RootNames, RootDecls
      <4>2. m.name \in Names({a \in ToSet(args) : a.variadic}) <=> args[i].variadic
        <5>1. ToSet(args) = {args[j] : j \in DOMAIN args}
            BY DEF ToSet
        <5>2. \A j \in DOMAIN args : args[j].name = m.name => j = i
            BY <2>3
        <5>. HIDE DEF args, asked
        <5>3. \A a \in ToSet(args) : a.name = m.name => a = args[i]
            BY <5>1, <5>2
        <5>4. args[i] \in ToSet(args)
            BY <2>2, <5>1
        <5>. QED BY <2>2, <5>3, <5>4 DEF Names
      <4>. QED BY <3>3, <4>1, <4>2 DEF Sized
    <3>5. ~args[i].variadic => (WordsFrom(i) = <<"">> <=> positionals[i] = "")
      <4>. DEFINE p == positionals[i]
      <4>1. ~args[i].variadic => WordsFrom(i) = <<p>>
          BY <3>2
      <4>. HIDE DEF p, args, asked
      <4>2. <<p>> = <<"">> <=> p = ""
          OBVIOUS
      <4>3. ~args[i].variadic => (WordsFrom(i) = <<"">> <=> p = "")
          BY <4>1, <4>2
      <4>. QED BY <4>3 DEF p
    <3>. HIDE DEF args, asked
    <3>6. EngagedMember(Command, m, s, given) <=>
            /\ WordsFrom(i) # <<>>
            /\ m.when = "non_empty" => Sized(Command, m.name, WordsFrom(i))
        BY <1>2, <2>5, <2>8, <3>1
    <3>7. CASE args[i].variadic
        BY <2>6, <3>2, <3>4, <3>6, <3>7
    <3>8. CASE ~args[i].variadic
        BY <2>6, <3>2, <3>4, <3>5, <3>6, <3>8
    <3>. QED BY <3>7, <3>8
  <2>. QED BY <2>7, <2>8
<1>. QED BY <1>4, <1>5

-----------------------------------------------------------------------------
(* What a handler is handed: the invariant of a run that reached one.        *)

Read == Ambient(Flags(Command), store, stdin, app, [env |-> Env, config |-> Config])
Chosen == SelectorStore(Command, scopes.elected)
Gathered == Over(Chosen, Read.store)
Words0 == GivenArgs(Command, positionals)
Built == Build(Command, Gathered, Words0, DOMAIN Chosen, Unsets)
Settled == Implied(Command, Gathered).store
Later == [n \in DOMAIN Over(Chosen, store) \cap NamesOf(app.globals) |-> Over(Chosen, store)[n]]
AllGlobals == Over(Later, globals)

HandedOver ==
    /\ Read.ok /\ Built.ok /\ ~TooMany(Command, positionals)
    /\ outcome.kwargs = Over([g \in DOMAIN AllGlobals |-> AllGlobals[g].value], Built.kwargs)
    /\ outcome.via = Over(Built.via, [g \in DOMAIN AllGlobals |-> AllGlobals[g].via])
    /\ outcome.scoped = Over(scopes.values, ScopedOf(scopes.elected))
    /\ outcome.provided = scopes.provided \cup ProvidedOf(scopes.elected)
    /\ outcome.writes = Built.writes /\ outcome.skipped = Skipped
    /\ outcome.reserved = pre.words

\* The store of the command's own tokens: a cleared property, or the words of
\* a flag; of a global repeated after the command word no more is said here.
StoreOK ==
    /\ Unsets \subseteq DOMAIN store
    /\ \A n \in Unsets : store[n] = Sourced(Absent, "cli")
    /\ \A n \in DOMAIN store : store[n].via = "cli"
    /\ \A n \in DOMAIN store \ Unsets : n \in Names(Flags(Command)) => store[n].value \in Seq(Said)

Handing ==
    /\ Registered(app) /\ InCommand
    /\ positionals \in Seq(Said) /\ Bindings(Env) /\ Bindings(Config)
    /\ DOMAIN globals \subseteq NamesOf(app.globals)
    /\ StoreOK /\ HandedOver

SelectorNames == Names({d \in RootDecls(Command) : IsSelector(d)})

\* What is gathered of a flag is what was said on the line or by a layer.
LEMMA GatheredFlags ==
    ASSUME Handing
    PROVE  /\ DOMAIN Chosen = SelectorNames /\ SelectorNames \subseteq DOMAIN Gathered
           /\ \A n \in SelectorNames : Gathered[n] = Chosen[n]
           /\ \A n \in Names(Flags(Command)) : n \notin SelectorNames
           /\ Unsets \cap Names(Flags(Command)) \subseteq DOMAIN Gathered
           /\ \A n \in Names(Flags(Command)) \cap DOMAIN Gathered :
                /\ Gathered[n].via \in {"cli", "env", "config"}
                /\ n \in Unsets => Gathered[n].value = Absent
                /\ n \notin Unsets => Gathered[n].value \in Seq(Said)
<1>. DEFINE layers == [env |-> Env, config |-> Config]
<1>1. Registered(app) /\ InCommand /\ StoreOK /\ Bindings(layers.env) /\ Bindings(layers.config)
    BY DEF Handing
<1>2. DOMAIN Chosen = SelectorNames
    BY DEF Chosen, SelectorStore, SelectorNames
<1>3. /\ Extends(Read.store, store)
      /\ \A n \in DOMAIN Read.store \ DOMAIN store : FromLayers(Read.store[n])
    BY <1>1, AmbientAdds DEF Read
<1>4. \A n \in Names(Flags(Command)) : n \notin SelectorNames
    BY <1>1, RootDeclarations DEF Names, SelectorNames, Flags, RootDecls, AtRoot, IsFlag, IsSelector
<1>5. /\ DOMAIN Gathered = DOMAIN Chosen \cup DOMAIN Read.store
      /\ \A n \in DOMAIN Chosen : Gathered[n] = Chosen[n]
      /\ \A n \in DOMAIN Read.store \ DOMAIN Chosen : Gathered[n] = Read.store[n]
    BY ZenonT(60), OverExtends DEF Gathered, Extends
<1>6. Unsets \cap Names(Flags(Command)) \subseteq DOMAIN Gathered
    BY <1>1, <1>3, <1>5 DEF StoreOK, Extends
<1>7. ASSUME NEW n \in Names(Flags(Command)) \cap DOMAIN Gathered
      PROVE  /\ Gathered[n].via \in {"cli", "env", "config"}
             /\ n \in Unsets => Gathered[n].value = Absent
             /\ n \notin Unsets => Gathered[n].value \in Seq(Said)
  <2>1. n \in DOMAIN Read.store /\ Gathered[n] = Read.store[n]
      BY <1>2, <1>4, <1>5
  <2>2. CASE n \in DOMAIN store
    <3>1. Gathered[n] = store[n]
        BY <1>3, <2>1, <2>2 DEF Extends
    <3>. QED BY <1>1, <2>2, <3>1 DEF StoreOK, Sourced
  <2>3. CASE n \notin DOMAIN store
    <3>1. FromLayers(Read.store[n])
        BY <1>3, <2>1, <2>3
    <3>2. n \notin Unsets
        BY SMTT(60), <1>1, <2>3 DEF StoreOK
    <3>. QED BY <2>1, <3>1, <3>2 DEF FromLayers
  <2>. QED BY <2>2, <2>3
<1>. QED BY <1>2, <1>4, <1>5, <1>6, <1>7

LEMMA BuiltHere ==
    ASSUME Built.ok
    PROVE  LET full == Defaulted(Flags(Command), Settled).store
               named == Names(Flags(Command)) \cup DOMAIN Chosen
           IN  /\ Implied(Command, Gathered).ok /\ ConstraintsHold(Command, Settled, Words0)
               /\ Built.writes = Writes(Command, Settled, Unsets)
               /\ WritesSomething(Command, Built.writes)
               /\ Built.via = [n \in named |-> full[n].via]
               /\ Built.kwargs = Over([n \in NamesOf(Command.args) |->
                                        ArgValue(Named(ToSet(Command.args), n), Words0)],
                                  [n \in named |-> full[n].value])
BY DEF Built, Build, Refused, Settled

\* The implications of the command add only flags, and set what they imply.
LEMMA SettledFlags ==
    ASSUME Handing
    PROVE  /\ Extends(Settled, Gathered)
           /\ \A n \in DOMAIN Settled \ DOMAIN Gathered :
                /\ n \in Names(Flags(Command)) /\ Settled[n].via = "implied"
                /\ Settled[n].value # Absent
           /\ \E M : FiredOnly(Command.constraints, Gathered, Settled, M)
           /\ ConstraintsHold(Command, Settled, Words0)
           /\ outcome.writes = Writes(Command, Settled, Unsets)
           /\ WritesSomething(Command, outcome.writes)
<1>. DEFINE rules == Command.constraints
            n == Len(rules)
<1>1. Registered(app) /\ InCommand /\ Built.ok /\ outcome.writes = Built.writes
    BY DEF Handing, HandedOver
<1>2. /\ Implied(Command, Gathered).ok /\ ConstraintsHold(Command, Settled, Words0)
      /\ Built.writes = Writes(Command, Settled, Unsets) /\ WritesSomething(Command, Built.writes)
    BY <1>1, BuiltHere
<1>3. n \in Nat /\ DOMAIN rules = 1..n
    BY <1>1, RegisteredCommand DEF CommandType
<1>4. ASSUME NEW i \in ImpliesOf(rules)
      PROVE  /\ Target(rules[i]) \in Names(Flags(Command))
             /\ rules[i].value \in {"true", "false"}
  <2>. DEFINE c == rules[i]
  <2>1. c \in ToSet(rules) /\ c.kind = "implies"
      BY DEF ToSet, ImpliesOf
  <2>. HIDE DEF c, rules
  <2>2. ~CoOccurrence(c)
      BY <2>1 DEF CoOccurrence
  <2>3. /\ Target(c) \in RootNames /\ c.value \in {"true", "false"}
        /\ \A d \in RootDecls(Command) : d.name = Target(c) => IsFlag(d)
      BY <1>1, <2>1, <2>2, PairsAreOfTheRoot DEF rules
  <2>4. Target(c) \in Names(Flags(Command))
      BY <1>1, <2>3, RootDeclarations DEF RootNames, Names
  <2>. QED BY <2>3, <2>4 DEF c
<1>5. \A i \in ImpliesOf(rules) : Target(rules[i]) \in DOMAIN Gathered =>
            Gathered[Target(rules[i])].via \in ProvidedSources
    BY <1>4, GatheredFlags DEF ProvidedSources
<1>6. /\ Extends(Settled, Gathered)
      /\ \A m \in DOMAIN Settled \ DOMAIN Gathered : \E i \in ImpliesOf(rules) :
            m = Target(rules[i]) /\ Settled[m] = Sourced(<<rules[i].value>>, "implied")
      /\ \E M : FiredOnly(rules, Gathered, Settled, M)
    BY <1>2, <1>3, <1>5, ImpliedAdds DEF Settled
<1>7. ASSUME NEW m \in DOMAIN Settled \ DOMAIN Gathered
      PROVE  /\ m \in Names(Flags(Command)) /\ Settled[m].via = "implied"
             /\ Settled[m].value # Absent
  <2>1. PICK i \in ImpliesOf(rules) :
            m = Target(rules[i]) /\ Settled[m] = Sourced(<<rules[i].value>>, "implied")
      BY <1>6
  <2>2. Settled[m].value = <<rules[i].value>> /\ Settled[m].via = "implied"
      BY <2>1 DEF Sourced
  <2>3. rules[i].value \in {"true", "false"}
      BY <1>4
  <2>4. <<rules[i].value>> # Absent
      BY <2>3 DEF Absent
  <2>. QED BY <1>4, <2>1, <2>2, <2>4
<1>. QED BY <1>1, <1>2, <1>6, <1>7

\* Of a root declaration the handler is told where it settled, and no argument
\* hides its value from the handler unless it has its name.
LEMMA HandedValues ==
    ASSUME Handing
    PROVE  /\ \A n \in RootNames : SuppliedNow(n) <=> Provided(Settled, n)
           /\ \A n \in RootNames \cap DOMAIN Settled :
                /\ outcome.via[n] = Settled[n].via
                /\ n \notin NamesOf(Command.args) \/ (n \in SelectorNames /\ n \in NamesOf(app.globals)) =>
                        outcome.kwargs[n] = Settled[n].value
<1>. DEFINE full == Defaulted(Flags(Command), Settled).store
<1>1. /\ Registered(app) /\ InCommand /\ Built.ok
      /\ DOMAIN globals \subseteq NamesOf(app.globals)
      /\ outcome.kwargs = Over([g \in DOMAIN AllGlobals |-> AllGlobals[g].value], Built.kwargs)
      /\ outcome.via = Over(Built.via, [g \in DOMAIN AllGlobals |-> AllGlobals[g].via])
    BY DEF Handing, HandedOver
<1>2. /\ DOMAIN Chosen = SelectorNames /\ SelectorNames \subseteq DOMAIN Gathered
      /\ \A n \in SelectorNames : Gathered[n] = Chosen[n]
    BY GatheredFlags
<1>3. /\ Extends(Settled, Gathered)
      /\ \A n \in DOMAIN Settled \ DOMAIN Gathered : n \in Names(Flags(Command))
    BY SettledFlags
<1>4. /\ Extends(full, Settled) /\ DOMAIN full = DOMAIN Settled \cup Names(Flags(Command))
      /\ \A n \in DOMAIN full \ DOMAIN Settled : full[n].via = "default"
    BY DefaultsAdd
<1>5. RootNames = Names(Flags(Command)) \cup SelectorNames
    BY <1>1, RootDeclarations DEF SelectorNames
<1>6. /\ Built.via = [n \in RootNames |-> full[n].via]
      /\ Built.kwargs = Over([n \in NamesOf(Command.args) |->
                                ArgValue(Named(ToSet(Command.args), n), Words0)],
                             [n \in RootNames |-> full[n].value])
    BY <1>1, <1>2, <1>5, BuiltHere
<1>. HIDE DEF full
<1>7. \A n \in RootNames : n \in DOMAIN full /\ outcome.via[n] = full[n].via
  <2>1. DOMAIN Built.via = RootNames /\ \A n \in RootNames : Built.via[n] = full[n].via
      BY <1>6
  <2>2. \A n \in DOMAIN Built.via : outcome.via[n] = Built.via[n]
      BY <1>1 DEF Over
  <2>3. RootNames \subseteq DOMAIN full
      BY <1>2, <1>3, <1>4, <1>5 DEF Extends
  <2>. QED BY <2>1, <2>2, <2>3
<1>8. ASSUME NEW n \in RootNames
      PROVE  SuppliedNow(n) <=> Provided(Settled, n)
  <2>1. CASE n \in DOMAIN Settled
      BY <1>4, <1>7, <2>1 DEF SuppliedNow, Provided, Has, Extends
  <2>2. CASE n \notin DOMAIN Settled
    <3>1. outcome.via[n] = "default"
        BY <1>4, <1>7, <2>2
    <3>. QED BY <2>2, <3>1 DEF SuppliedNow, Provided, Has, ProvidedSources
  <2>. QED BY <2>1, <2>2
<1>9. ASSUME NEW n \in RootNames \cap DOMAIN Settled,
             n \notin NamesOf(Command.args) \/ (n \in SelectorNames /\ n \in NamesOf(app.globals))
      PROVE  outcome.kwargs[n] = Settled[n].value
  <2>1. full[n] = Settled[n]
      BY <1>4 DEF Extends
  <2>2. DOMAIN AllGlobals = DOMAIN Later \cup DOMAIN globals
      BY OverExtends DEF AllGlobals
  <2>3. CASE n \in DOMAIN AllGlobals
    <3>1. n \in NamesOf(app.globals)
        BY <1>1, <2>2, <2>3 DEF Later
    <3>2. n \in SelectorNames
        BY <1>1, <1>5, <3>1, RegisteredCommand
    <3>3. n \in DOMAIN Later /\ Later[n] = Chosen[n]
        BY <1>2, <3>1, <3>2 DEF Later, Over
    <3>4. AllGlobals[n] = Settled[n]
      <4>1. AllGlobals[n] = Later[n]
          BY <3>3 DEF AllGlobals, Over
      <4>2. Settled[n] = Gathered[n]
          BY <1>2, <1>3, <3>2 DEF Extends
      <4>. QED BY <1>2, <3>2, <3>3, <4>1, <4>2
    <3>5. outcome.kwargs[n] = AllGlobals[n].value
        BY <1>1, <2>3 DEF Over
    <3>. QED BY <3>4, <3>5
  <2>4. CASE n \notin DOMAIN AllGlobals
    <3>1. n \notin NamesOf(Command.args)
      <4>1. SUFFICES ASSUME n \in SelectorNames, n \in NamesOf(app.globals) PROVE FALSE
          BY <1>9
      <4>2. n \in DOMAIN Later
          BY <1>2, <4>1 DEF Later, Over
      <4>. QED BY <2>2, <2>4, <4>2
    <3>2. n \in DOMAIN Built.kwargs /\ Built.kwargs[n] = full[n].value
      <4>. DEFINE A == [a \in NamesOf(Command.args) |-> ArgValue(Named(ToSet(Command.args), a), Words0)]
                  B == [m \in RootNames |-> full[m].value]
      <4>1. Built.kwargs = Over(A, B) /\ DOMAIN A = NamesOf(Command.args) /\ DOMAIN B = RootNames
            /\ B[n] = full[n].value
          BY <1>6
      <4>. HIDE DEF A, B
      <4>. QED BY <3>1, <4>1 DEF Over
    <3>3. outcome.kwargs[n] = Built.kwargs[n]
        BY <1>1, <2>4, <3>2 DEF Over
    <3>. QED BY <2>1, <3>2, <3>3
  <2>. QED BY <2>3, <2>4
<1>10. \A n \in RootNames \cap DOMAIN Settled : outcome.via[n] = Settled[n].via
    BY <1>4, <1>7 DEF Extends
<1>. QED BY <1>8, <1>9, <1>10

\* An implication a reader of the result takes to have fired did fire.
LEMMA FiredHold ==
    ASSUME Handing, NEW c \in Fired
    PROVE  Target(c) \in RootNames /\ Holds(Settled, Target(c), <<c.value>>)
<1>. DEFINE rules == Command.constraints
            implies == {i \in DOMAIN rules : rules[i].kind = "implies"}
<1>1. Registered(app) /\ InCommand
    BY DEF Handing
<1>2. PICK M : FiredOnly(rules, Gathered, Settled, M)
    BY SettledFlags
<1>3. M \in SUBSET implies
    BY <1>2 DEF FiredOnly, ImpliesOf
<1>4. \A i \in implies : Trigger(rules[i]) \in RootNames /\ Target(rules[i]) \in RootNames
  <2>1. \A i \in implies : rules[i] \in ToSet(rules) /\ ~CoOccurrence(rules[i])
      BY DEF ToSet, CoOccurrence
  <2>. QED BY <1>1, <2>1, PairsAreOfTheRoot
<1>5. ASSUME NEW i \in implies, outcome.via[Trigger(rules[i])] \in ProvidedSources \ {"implied"}
      PROVE  i \in M
  <2>. DEFINE t == Trigger(rules[i])
  <2>1. t \in RootNames /\ outcome.via[t] \in ProvidedSources \ {"implied"}
      BY <1>4, <1>5
  <2>. HIDE DEF t
  <2>2. Provided(Settled, t)
      BY <2>1, HandedValues DEF SuppliedNow
  <2>3. t \in DOMAIN Settled /\ Settled[t].via # "implied"
      BY <2>1, <2>2, HandedValues DEF Provided, Has
  <2>4. t \in DOMAIN Gathered /\ Settled[t] = Gathered[t]
      BY <2>3, SettledFlags DEF Extends
  <2>5. Provided(Gathered, t)
      BY <2>2, <2>4 DEF Provided, Has
  <2>. QED BY <1>2, <2>5 DEF t, FiredOnly, ImpliesOf
<1>6. ASSUME NEW i \in implies, NEW j \in M, j < i, Target(rules[j]) = Trigger(rules[i])
      PROVE  i \in M
    BY <1>2, <1>6 DEF FiredOnly, ImpliesOf
<1>7. \E i \in M : c = rules[i]
  <2>. DEFINE trigger(i) == rules[i].members[1].name
              Onward(S) == \A i \in implies :
                (\/ outcome.via[trigger(i)] \in ProvidedSources \ {"implied"}
                 \/ \E j \in S : j < i /\ rules[j].members[2].name = trigger(i)) => i \in S
  <2>1. c \in {rules[i] : i \in {j \in implies : \A S \in SUBSET implies : Onward(S) => j \in S}}
      BY SMTT(60) DEF Fired
  <2>2. Onward(M)
      BY <1>5, <1>6 DEF Trigger, Target
  <2>. HIDE DEF Onward, rules
  <2>. QED BY SMTT(60), <1>3, <2>1, <2>2
<1>8. PICK i \in M : c = rules[i]
    BY <1>7
<1>. QED BY <1>2, <1>3, <1>4, <1>8 DEF FiredOnly

\* A member of a constraint on several is engaged when a reader finds it present.
LEMMA MembersEngage ==
    ASSUME Handing, NEW c \in ToSet(Command.constraints), CoOccurrence(c),
           NEW m \in ToSet(c.members)
    PROVE  /\ EngagedMember(Command, m, Settled, Words0) <=> Present(m)
           /\ m.name \in ConstraintNames(Command) => ~Present(m)
<1>1. Registered(app) /\ InCommand /\ positionals \in Seq(Said)
    BY DEF Handing
<1>2. m.name \in ToSet(MemberNames(c)) /\ m.when \in {"", "true", "non_empty"} /\ ConstraintOK(Command, c)
    BY <1>1, MembersAreNamed
<1>3. m.name \in RootNames => m.name \notin NamesOf(Command.args)
    BY <1>2 DEF ConstraintOK, RootNames
<1>4. m.name \in ConstraintNames(Command) =>
        m.name \notin RootNames /\ m.name \notin NamesOf(Command.args)
  <2>1. ASSUME m.name \in ConstraintNames(Command)
        PROVE  m.name \notin RootNames /\ m.name \notin NamesOf(Command.args)
    <3>1. \E d \in ToSet(Command.constraints) : d.name = m.name
        BY <2>1 DEF ConstraintNames, NamesOf, ToSet
    <3>2. PICK d \in ToSet(Command.constraints) : d.name = m.name
        BY <3>1
    <3>3. ConstraintOK(Command, d)
        BY <1>1, MembersAreNamed
    <3>. QED BY <3>2, <3>3 DEF ConstraintOK, RootNames
  <2>. QED BY <2>1
<1>5. CASE m.name \in RootNames
  <2>1. SuppliedNow(m.name) <=> Provided(Settled, m.name)
      BY <1>5, HandedValues
  <2>2. Provided(Settled, m.name) => outcome.kwargs[m.name] = Settled[m.name].value
      BY <1>3, <1>5, HandedValues DEF Provided, Has
  <2>3. Present(m) <=>
            /\ SuppliedNow(m.name)
            /\ m.when = "true" => outcome.kwargs[m.name] = <<"true">>
            /\ m.when = "non_empty" => Sized(Command, m.name, outcome.kwargs[m.name])
      BY <1>5 DEF Present, RootNames
  <2>4. EngagedMember(Command, m, Settled, Words0) <=>
            /\ Provided(Settled, m.name)
            /\ m.when = "true" => Holds(Settled, m.name, <<"true">>)
            /\ m.when = "non_empty" => Sized(Command, m.name, Settled[m.name].value)
      BY <1>5 DEF EngagedMember, RootNames
  <2>5. Provided(Settled, m.name) =>
            (Holds(Settled, m.name, <<"true">>) <=> Settled[m.name].value = <<"true">>)
      BY DEF Provided, Holds
  <2>. QED BY <1>4, <1>5, <2>1, <2>2, <2>3, <2>4, <2>5
<1>6. CASE m.name \notin RootNames
  <2>1. EngagedMember(Command, m, Settled, Words0) <=> ArgGiven(m)
      BY <1>1, <1>2, <1>6, ArgumentsEngage DEF Words0
  <2>2. Present(m) <=> ArgGiven(m)
      BY <1>6 DEF Present, RootNames
  <2>3. m.name \notin NamesOf(Command.args) => ~ArgGiven(m)
      BY DEF ArgGiven, NamesOf
  <2>. QED BY <1>4, <2>1, <2>2, <2>3
<1>. QED BY <1>5, <1>6

LEMMA ConstraintsEngage ==
    ASSUME Handing, NEW c \in ToSet(Command.constraints), CoOccurrence(c),
           NEW m \in ToSet(c.members)
    PROVE  Engaged(Command, m, Settled, Words0) <=> Engages(m)
<1>. DEFINE names == ConstraintNames(Command)
            Upward(S) == \A d \in ToSet(Command.constraints) :
                (/\ CoOccurrence(d)
                 /\ \E n \in ToSet(d.members) :
                        n.name \in S \/ EngagedMember(Command, n, Settled, Words0)) => d.name \in S
            Closed(S) == \A d \in ToSet(Command.constraints) :
                (CoOccurrence(d) /\ (\E n \in ToSet(d.members) : n.name \in S \/ Present(n)))
                    => d.name \in S
<1>1. \A S : Upward(S) <=> Closed(S)
    BY MembersEngage
<1>2. EngagedConstraints(Command, Settled, Words0) =
        {n \in names : \A S \in SUBSET names : Upward(S) => n \in S}
    BY DEF EngagedConstraints
<1>3. Engages(m) <=> IF m.name \in names
                     THEN \A S \in SUBSET names : Closed(S) => m.name \in S
                     ELSE Present(m)
    BY DEF Engages
<1>. HIDE DEF Upward, Closed, names
<1>4. CASE m.name \in names
  <2>1. ~EngagedMember(Command, m, Settled, Words0)
      BY <1>4, MembersEngage DEF names
  <2>2. m.name \in EngagedConstraints(Command, Settled, Words0) <=>
            \A S \in SUBSET names : Closed(S) => m.name \in S
      BY <1>1, <1>2, <1>4
  <2>. QED BY <1>3, <1>4, <2>1, <2>2 DEF Engaged
<1>5. CASE m.name \notin names
  <2>1. m.name \notin EngagedConstraints(Command, Settled, Words0)
      BY <1>2, <1>5
  <2>2. EngagedMember(Command, m, Settled, Words0) <=> Present(m)
      BY MembersEngage
  <2>. QED BY <1>3, <1>5, <2>1, <2>2 DEF Engaged
<1>. QED BY <1>4, <1>5

\* Of a property of the update set the result says one thing.
LEMMA PropertiesAreAccountedFor ==
    ASSUME Handing, NEW u \in ToSet(Command.update), NEW p \in ToSet(u.properties)
    PROVE  /\ p \in outcome.writes.written <=> SuppliedNow(p) /\ outcome.kwargs[p] # Absent
           /\ p \in outcome.writes.cleared <=> SuppliedNow(p) /\ outcome.kwargs[p] = Absent
           /\ p \in outcome.writes.rest <=> ~SuppliedNow(p)
           /\ outcome.writes.written # {} \/ outcome.writes.cleared # {}
<1>. DEFINE props == UNION {ToSet(v.properties) : v \in ToSet(Command.update)}
            written == {x \in props \ Unsets : Provided(Settled, x)}
<1>1. Registered(app) /\ InCommand
    BY DEF Handing
<1>2. outcome.writes = [written |-> written, cleared |-> props \cap Unsets,
                        rest |-> (props \ Unsets) \ written]
    BY SettledFlags DEF Writes
<1>3. p \in props
    OBVIOUS
<1>4. p \in Names(Flags(Command)) /\ p \in RootNames /\ p \notin NamesOf(Command.args)
  <2>1. UpdateOK(Command)
      BY <1>1, RegisteredCommand
  <2>2. /\ ToSet(u.identity \o u.properties) \subseteq Names(RootDecls(Command)) \cup NamesOf(Command.args)
        /\ \A f \in RootDecls(Command) : f.name \in props => IsFlag(f)
        /\ props \cap NamesOf(Command.args) = {}
      BY <2>1 DEF UpdateOK
  <2>3. p \in ToSet(u.identity \o u.properties)
    <3>1. u \in UpdateType
      <4>1. Command.update \in Seq(UpdateType)
          BY <1>1, RegisteredCommand DEF CommandType
      <4>. QED BY <4>1 DEF ToSet
    <3>2. u.identity \in Seq(STRING) /\ u.properties \in Seq(STRING)
        BY <3>1 DEF UpdateType
    <3>. DEFINE a == u.identity
                b == u.properties
    <3>3. PICK i \in DOMAIN b : p = b[i]
        BY DEF ToSet
    <3>4. a \in Seq(STRING) /\ b \in Seq(STRING)
        BY <3>2
    <3>. HIDE DEF a, b
    <3>5. Len(a) + i \in DOMAIN (a \o b) /\ (a \o b)[Len(a) + i] = p
        BY <3>3, <3>4
    <3>6. p \in ToSet(a \o b)
        BY <3>5 DEF ToSet
    <3>. QED BY <3>6 DEF a, b
  <2>4. p \in RootNames /\ p \notin NamesOf(Command.args)
      BY <1>3, <2>2, <2>3 DEF RootNames
  <2>5. \E f \in RootDecls(Command) : f.name = p /\ IsFlag(f)
      BY <1>3, <2>2, <2>4 DEF RootNames, Names
  <2>6. p \in Names(Flags(Command))
      BY <1>1, <2>5, RootDeclarations DEF Names
  <2>. QED BY <2>4, <2>6
<1>5. /\ SuppliedNow(p) <=> Provided(Settled, p)
      /\ Provided(Settled, p) => outcome.kwargs[p] = Settled[p].value
    BY <1>4, HandedValues DEF Provided, Has
<1>6. p \in Unsets => Provided(Settled, p) /\ Settled[p].value = Absent
  <2>1. ASSUME p \in Unsets
        PROVE  p \in DOMAIN Gathered /\ Gathered[p].via \in {"cli", "env", "config"}
               /\ Gathered[p].value = Absent
      BY <1>4, <2>1, GatheredFlags
  <2>. QED BY <2>1, SettledFlags DEF Extends, Provided, Has, ProvidedSources
<1>7. p \notin Unsets /\ Provided(Settled, p) => Settled[p].value # Absent
  <2>1. ASSUME p \notin Unsets, Provided(Settled, p)
        PROVE  Settled[p].value # Absent
    <3>1. CASE p \in DOMAIN Gathered
      <4>1. Gathered[p].value \in Seq(Said)
          BY <1>4, <2>1, <3>1, GatheredFlags
      <4>2. Settled[p] = Gathered[p]
          BY <3>1, SettledFlags DEF Extends
      <4>. QED BY <4>1, <4>2, AbsentIsNotSaid
    <3>2. CASE p \notin DOMAIN Gathered
        BY <2>1, <3>2, SettledFlags DEF Provided, Has
    <3>. QED BY <3>1, <3>2
  <2>. QED BY <2>1
<1>8. outcome.writes.written # {} \/ outcome.writes.cleared # {}
  <2>1. Command.update # <<>>
      BY DEF ToSet
  <2>. QED BY <2>1, SettledFlags DEF WritesSomething
<1>. HIDE DEF props
<1>9. /\ p \in outcome.writes.written <=> (p \notin Unsets /\ Provided(Settled, p))
      /\ p \in outcome.writes.cleared <=> p \in Unsets
      /\ p \in outcome.writes.rest <=> (p \notin Unsets /\ ~Provided(Settled, p))
    BY <1>2, <1>3
<1>. QED BY <1>5, <1>6, <1>7, <1>8, <1>9

LEMMA ContractFollows ==
    ASSUME Handing
    PROVE  ContractHolds
<1>1. Registered(app) /\ InCommand /\ ConstraintsHold(Command, Settled, Words0)
    BY SettledFlags DEF Handing
<1>2. ASSUME NEW c \in ToSet(Command.constraints)
      PROVE  /\ (c.kind = "requires" /\ SuppliedNow(c.members[1].name)) =>
                    SuppliedNow(c.members[2].name)
             /\ (c \in Fired /\ c.members[2].name \notin NamesOf(Command.args)) =>
                    outcome.kwargs[c.members[2].name] = <<c.value>>
             /\ c.kind = "at-least-one" => \E m \in ToSet(c.members) : Engages(m)
             /\ c.kind = "all-or-none" => \A m, n \in ToSet(c.members) : Engages(m) <=> Engages(n)
  <2>. DEFINE engaged == {m \in ToSet(c.members) : Engaged(Command, m, Settled, Words0)}
  <2>1. /\ c.kind = "requires" => (Provided(Settled, Trigger(c)) => Provided(Settled, Target(c)))
        /\ c.kind = "at-least-one" => engaged # {}
        /\ c.kind = "all-or-none" => engaged \in {{}, ToSet(c.members)}
      BY <1>1 DEF ConstraintsHold, ConstraintHolds, Trigger, Target
  <2>2. (c.kind = "requires" /\ SuppliedNow(Trigger(c))) => SuppliedNow(Target(c))
    <3>1. ASSUME c.kind = "requires", SuppliedNow(Trigger(c))
          PROVE  SuppliedNow(Target(c))
      <4>1. ~CoOccurrence(c)
          BY <3>1 DEF CoOccurrence
      <4>2. Trigger(c) \in RootNames /\ Target(c) \in RootNames
          BY <1>1, <4>1, PairsAreOfTheRoot
      <4>. QED BY <2>1, <3>1, <4>2, HandedValues
    <3>. QED BY <3>1
  <2>3. (c \in Fired /\ Target(c) \notin NamesOf(Command.args)) => outcome.kwargs[Target(c)] = <<c.value>>
    <3>1. ASSUME c \in Fired, Target(c) \notin NamesOf(Command.args)
          PROVE  outcome.kwargs[Target(c)] = <<c.value>>
      <4>1. Target(c) \in RootNames /\ Holds(Settled, Target(c), <<c.value>>)
          BY <3>1, FiredHold
      <4>. QED BY <3>1, <4>1, HandedValues DEF Holds, Has
    <3>. QED BY <3>1
  <2>4. CASE CoOccurrence(c)
    <3>1. \A m \in ToSet(c.members) : m \in engaged <=> Engages(m)
        BY <2>4, ConstraintsEngage
    <3>. HIDE DEF engaged
    <3>2. engaged \subseteq ToSet(c.members)
        BY DEF engaged
    <3>3. c.kind = "at-least-one" => \E m \in ToSet(c.members) : Engages(m)
        BY <2>1, <3>1, <3>2
    <3>4. c.kind = "all-or-none" => \A m, n \in ToSet(c.members) : Engages(m) <=> Engages(n)
        BY <2>1, <3>1
    <3>. QED BY <2>2, <2>3, <3>3, <3>4 DEF Trigger, Target
  <2>5. CASE ~CoOccurrence(c)
      BY <2>2, <2>3, <2>5 DEF Trigger, Target, CoOccurrence
  <2>. QED BY <2>4, <2>5
<1>. QED BY <1>2, PropertiesAreAccountedFor DEF ContractHolds

-----------------------------------------------------------------------------
(* The invariant: what has been read, and where the parse stands.            *)

WordsRead ==
    /\ rest \in Seq(ToSet(argv)) /\ kept \in Seq(ToSet(argv))
    /\ positionals \in Seq(Said)
    /\ typed \in Seq(ToSet(typed)) /\ SaidAll(typed)

Parsing == phase \in {"tokens", "scopes", "deliver"} \/ Ran
Stored == phase \in {"scopes", "deliver"} \/ Ran

HandInv ==
    /\ InputsOK /\ WordsRead
    /\ DOMAIN globals \subseteq NamesOf(app.globals)
    /\ Parsing => InCommand
    /\ Stored => StoreOK
    /\ Ran => HandedOver

LEMMA InputFacts ==
    ASSUME InputsOK
    PROVE  /\ Registered(app) /\ Bindings(Env) /\ Bindings(Config)
           /\ \A t \in ToSet(argv) : Text(t) \in Said /\ t.val \in Said
<1>1. Raw \subseteq Said
    BY AbsentIsNotSaid
<1>2. Seq(Raw) \subseteq Seq(Said)
    BY <1>1
<1>3. Bindings(Env)
    BY <1>2 DEF InputsOK, Env, Bindings
<1>4. Bindings(Config)
    BY <1>2 DEF InputsOK, Config, Bindings
<1>. QED BY <1>1, <1>3, <1>4 DEF InputsOK

LEMMA FinishesAs ==
    ASSUME NEW stage, NEW kind
    PROVE  /\ Refuse(stage) => phase' = "done" /\ outcome'.kind = "parse-error"
           /\ Show(kind) => phase' = "done" /\ outcome'.kind = kind
<1>1. PICK x : x = NoOutcome
    OBVIOUS
<1>2. DOMAIN x = {"kind", "kwargs", "via", "scoped", "provided", "skipped", "writes", "unsets",
                  "args", "reserved", "stage"}
    BY <1>1 DEF NoOutcome
<1>3. Refuse(stage) => phase' = "done" /\ outcome'.kind = "parse-error"
    BY <1>1, <1>2 DEF Refuse, Finish
<1>4. Show(kind) => phase' = "done" /\ outcome'.kind = kind
    BY <1>1, <1>2 DEF Show, Finish
<1>. QED BY <1>3, <1>4

LEMMA ShowsText ==
    ASSUME NEW kind, kind # "command", ShowText(kind)
    PROVE  phase' = "done" /\ outcome'.kind # "command"
BY FinishesAs DEF ShowText

\* The entries of a sequence with one more.
LEMMA ReadsOneMore ==
    ASSUME NEW s, s \in Seq(ToSet(s)), SaidAll(s), NEW e, e.raw \in Said
    PROVE  /\ Append(s, e) \in Seq(ToSet(Append(s, e)))
           /\ SaidAll(Append(s, e))
<1>. DEFINE n == Len(s)
            t == Append(s, e)
            S == ToSet(s)
<1>1. s \in Seq(S) /\ n \in Nat /\ DOMAIN s = 1..n
    OBVIOUS
<1>. HIDE DEF S
<1>2. t \in Seq(S \cup {e}) /\ Len(t) = n + 1 /\ DOMAIN t = 1..(n + 1) /\ t[n + 1] = e
      /\ \A i \in 1..n : t[i] = s[i]
    BY <1>1
<1>. HIDE DEF t, n
<1>3. \A i \in 1..(n + 1) : i \in 1..n \/ i = n + 1
    BY <1>1
<1>4. SaidAll(t)
    BY <1>1, <1>2, <1>3 DEF SaidAll
<1>5. t \in [1..(n + 1) -> ToSet(t)]
    BY <1>2 DEF ToSet
<1>6. t \in Seq(ToSet(t))
  <2>1. n + 1 \in Nat
      BY <1>1
  <2>. QED BY <1>5, <2>1
<1>. QED BY <1>4, <1>6 DEF t

LEMMA FlagsAreFound ==
    ASSUME NEW flags, NEW t, NEW f \in ByToken(flags, t) \cup ByNegation(flags, t) \cup ByUnset(flags, t)
    PROVE  \E i \in DOMAIN flags : f = flags[i] /\ AtRoot(f)
BY DEF ByToken, ByNegation, ByUnset, Latest

LEMMA SequencesShrink ==
    ASSUME NEW S, NEW s \in Seq(S), NEW n \in 1..3
    PROVE  /\ SubSeq(s, n, Len(s)) \in Seq(S)
           /\ n <= Len(s) => s[n] \in S
           /\ SubSeq(s, 1, IF n <= Len(s) THEN n ELSE Len(s)) \in Seq(S)
           /\ s # <<>> => Len(s) \in Nat \ {0} /\ s[1] \in S /\ Tail(s) \in Seq(S)
OBVIOUS

-----------------------------------------------------------------------------
(* The steps before the command's own tokens.                                *)

ArgvPhases == {"start", "scan", "region", "scanned", "globals", "route"}

\* What each of them keeps, and that none of them runs a command.
ArgvInv == InputsOK /\ WordsRead /\ DOMAIN globals \subseteq NamesOf(app.globals)

ArgvStepOK ==
    /\ UNCHANGED input
    /\ rest' \in Seq(ToSet(argv)) /\ kept' \in Seq(ToSet(argv))
    /\ typed' \in Seq(ToSet(typed')) /\ SaidAll(typed')
    /\ DOMAIN globals' \subseteq NamesOf(app.globals)
    /\ \/ phase' \in ArgvPhases
       \/ phase' = "done" /\ outcome'.kind # "command"
       \/ phase' = "tokens" /\ path' \in DOMAIN app.commands /\ app.commands[path'].kind = "command"

\* A step that leaves the words and the store of the globals alone.
LEMMA QuietStep ==
    ASSUME ArgvInv, UNCHANGED <<input, rest, kept, typed, globals>>,
           phase' \in ArgvPhases \/ (phase' = "done" /\ outcome'.kind # "command")
    PROVE  ArgvStepOK
BY DEF ArgvInv, WordsRead, ArgvStepOK

LEMMA DropKeeps ==
    ASSUME ArgvInv, NEW n \in 1..2, Drop(n)
    PROVE  rest' \in Seq(ToSet(argv))
<1>. DEFINE S == ToSet(argv)
<1>1. rest \in Seq(S) /\ rest' = SubSeq(rest, n + 1, Len(rest)) /\ n + 1 \in 1..3
    BY DEF ArgvInv, WordsRead, Drop
<1>. HIDE DEF S
<1>2. SubSeq(rest, n + 1, Len(rest)) \in Seq(S)
    BY <1>1, SequencesShrink
<1>. QED BY <1>1, <1>2 DEF S

LEMMA ScanSteps ==
    ASSUME ArgvInv,
           Begin \/ ScanReserved \/ ScanConfig \/ ScanExit \/ ScanSkip \/ ScanEnd
    PROVE  ArgvStepOK
<1>1. CASE Begin
  <2>1. UNCHANGED <<input, rest, kept, typed, globals>>
      BY <1>1 DEF Begin
  <2>2. phase' \in ArgvPhases \/ (phase' = "done" /\ outcome'.kind # "command")
      BY <1>1, FinishesAs DEF Begin, ArgvPhases
  <2>. QED BY <2>1, <2>2, QuietStep
<1>2. CASE ScanReserved
  <2>1. Drop(1) /\ UNCHANGED <<input, kept, typed, globals, phase>> /\ phase \in ArgvPhases
      BY <1>2 DEF ScanReserved, ScanFrame, Scanning, ArgvPhases
  <2>2. rest' \in Seq(ToSet(argv))
      BY <2>1, DropKeeps
  <2>. QED BY <2>1, <2>2 DEF ArgvStepOK, ArgvInv, WordsRead
<1>3. CASE ScanConfig
  <2>1. UNCHANGED <<input, kept, typed, globals>> /\ phase \in ArgvPhases
      BY <1>3 DEF ScanConfig, ScanFrame, Scanning, ArgvPhases
  <2>2. \/ Refuse("usage") /\ UNCHANGED rest
        \/ (Drop(1) \/ Drop(2)) /\ UNCHANGED phase
      BY <1>3 DEF ScanConfig
  <2>3. CASE Refuse("usage") /\ UNCHANGED rest
      BY <2>1, <2>3, FinishesAs, QuietStep
  <2>4. CASE (Drop(1) \/ Drop(2)) /\ UNCHANGED phase
    <3>1. rest' \in Seq(ToSet(argv))
        BY <2>4, DropKeeps
    <3>. QED BY <2>1, <2>4, <3>1 DEF ArgvStepOK, ArgvInv, WordsRead
  <2>. QED BY <2>2, <2>3, <2>4
<1>4. CASE ScanExit
  <2>1. UNCHANGED <<input, rest, kept, typed, globals>>
      BY <1>4 DEF ScanExit, ScanFrame
  <2>2. phase' = "done" /\ outcome'.kind # "command"
      BY <1>4, FinishesAs DEF ScanExit
  <2>. QED BY <2>1, <2>2, QuietStep
<1>5. CASE ScanSkip
  <2>1. UNCHANGED <<input, typed, globals, phase>> /\ phase \in ArgvPhases /\ rest # <<>>
      BY <1>5 DEF ScanSkip, ScanFrame, Scanning, ArgvPhases
  <2>2. \E width \in 1..2 : Drop(width) /\ kept' = kept \o SubSeq(rest, 1, width) /\ width <= Len(rest)
    <3>1. rest \in Seq(ToSet(argv))
        BY DEF ArgvInv, WordsRead
    <3>2. Len(rest) >= 1
        BY <2>1, <3>1
    <3>. QED BY SMTT(60), <1>5, <3>2 DEF ScanSkip
  <2>3. PICK width \in 1..2 : Drop(width) /\ kept' = kept \o SubSeq(rest, 1, width) /\ width <= Len(rest)
      BY <2>2
  <2>4. rest' \in Seq(ToSet(argv))
      BY <2>3, DropKeeps
  <2>5. kept' \in Seq(ToSet(argv))
    <3>. DEFINE S == ToSet(argv)
    <3>1. rest \in Seq(S) /\ kept \in Seq(S)
        BY DEF ArgvInv, WordsRead
    <3>. HIDE DEF S
    <3>2. SubSeq(rest, 1, width) \in Seq(S)
        BY <2>3, <3>1
    <3>3. kept \o SubSeq(rest, 1, width) \in Seq(S)
        BY <3>1, <3>2
    <3>. QED BY <2>3, <3>3 DEF S
  <2>. QED BY <2>1, <2>4, <2>5 DEF ArgvStepOK, ArgvInv, WordsRead
<1>6. CASE ScanEnd
  <2>1. UNCHANGED <<input, rest, kept, typed, globals>> /\ phase' \in ArgvPhases
      BY <1>6 DEF ScanEnd, ScanFrame, ArgvPhases
  <2>. QED BY <2>1, QuietStep
<1>. QED BY <1>1, <1>2, <1>3, <1>4, <1>5, <1>6

LEMMA RegionSteps ==
    ASSUME ArgvInv, RegionToken \/ RegionEnd \/ Scanned
    PROVE  ArgvStepOK
<1>. DEFINE S == ToSet(argv)
<1>0. rest \in Seq(S) /\ kept \in Seq(S) /\ <<>> \in Seq(S)
    BY DEF ArgvInv, WordsRead
<1>1. CASE RegionToken
  <2>1. UNCHANGED <<input, typed, globals>> /\ Drop(1) /\ rest # <<>> /\ phase \in ArgvPhases
      BY <1>1 DEF RegionToken, RegionFrame, ArgvPhases
  <2>2. phase' \in ArgvPhases
      BY <1>1, <2>1 DEF RegionToken, ArgvPhases
  <2>3. kept' = Append(kept, rest[1]) \/ kept' = kept
      BY <1>1 DEF RegionToken
  <2>4. rest' \in Seq(S)
      BY <2>1, DropKeeps
  <2>5. kept' \in Seq(S)
    <3>. HIDE DEF S
    <3>. QED BY <1>0, <2>1, <2>3
  <2>. QED BY <2>1, <2>2, <2>4, <2>5 DEF ArgvStepOK, ArgvInv, WordsRead
<1>2. CASE RegionEnd
  <2>1. UNCHANGED <<input, rest, kept, typed, globals>> /\ phase' \in ArgvPhases
      BY <1>2 DEF RegionEnd, RegionFrame, ArgvPhases
  <2>. QED BY <2>1, QuietStep
<1>3. CASE Scanned
  <2>1. UNCHANGED <<input, typed, globals>> /\ rest' = kept \o rest /\ kept' = <<>>
      BY <1>3 DEF Scanned
  <2>2. rest' \in Seq(S) /\ kept' \in Seq(S)
    <3>. HIDE DEF S
    <3>. QED BY <1>0, <2>1
  <2>3. phase' \in ArgvPhases \/ (phase' = "done" /\ outcome'.kind # "command")
      BY <1>3, FinishesAs DEF Scanned, ArgvPhases
  <2>. QED BY <2>1, <2>2, <2>3 DEF ArgvStepOK, ArgvInv, WordsRead
<1>. QED BY <1>1, <1>2, <1>3

\* A global that is given is one the app declares.
LEMMA GivesGlobal ==
    ASSUME ArgvInv, UNCHANGED <<input, kept>>, phase = "globals",
           NEW f, \E i \in DOMAIN app.globals : f = app.globals[i],
           NEW raw \in Said, NEW got, NEW width \in 1..2, GiveGlobal(f, raw, got, width)
    PROVE  ArgvStepOK
<1>. DEFINE old == IF ~IsScalar(f) /\ Has(globals, f.name) THEN globals[f.name].value ELSE <<>>
            v == old \o got.value
<1>1. \/ Refuse("globals") /\ UNCHANGED <<rest, globals, typed>>
      \/ /\ globals' = Put(globals, f.name, Sourced(v, "cli"))
         /\ typed' = Append(typed, Entry("global", <<f.name>>, raw))
         /\ Drop(width) /\ UNCHANGED phase
    BY DEF GiveGlobal
<1>2. CASE Refuse("globals") /\ UNCHANGED <<rest, globals, typed>>
    BY SMTT(60), <1>2, FinishesAs, QuietStep
<1>3. CASE /\ globals' = Put(globals, f.name, Sourced(v, "cli"))
           /\ typed' = Append(typed, Entry("global", <<f.name>>, raw))
           /\ Drop(width) /\ UNCHANGED phase
  <2>. DEFINE e == Entry("global", <<f.name>>, raw)
  <2>1. e.raw \in Said
      BY DEF Entry
  <2>2. typed \in Seq(ToSet(typed)) /\ SaidAll(typed)
      BY DEF ArgvInv, WordsRead
  <2>. HIDE DEF e
  <2>3. typed' \in Seq(ToSet(typed')) /\ SaidAll(typed')
    <3>1. typed' = Append(typed, e)
        BY <1>3 DEF e
    <3>. QED BY <2>1, <2>2, <3>1, ReadsOneMore
  <2>4. rest' \in Seq(ToSet(argv))
      BY <1>3, DropKeeps
  <2>5. f.name \in NamesOf(app.globals)
      BY DEF NamesOf
  <2>6. DOMAIN globals' = DOMAIN globals \cup {f.name}
    <3>. HIDE DEF v
    <3>. QED BY <1>3 DEF Put
  <2>. QED BY <1>3, <2>3, <2>4, <2>5, <2>6 DEF ArgvStepOK, ArgvInv, WordsRead, ArgvPhases
<1>. QED BY <1>1, <1>2, <1>3

LEMMA GlobalSteps ==
    ASSUME ArgvInv, GlobalInline \/ GlobalNegation \/ GlobalFlag \/ GlobalsEnd
    PROVE  ArgvStepOK
<1>. DEFINE S == ToSet(argv)
<1>1. \A t \in S : Text(t) \in Said /\ t.val \in Said
    BY InputFacts DEF ArgvInv
<1>2. rest \in Seq(S)
    BY DEF ArgvInv, WordsRead
<1>3. "true" \in Said /\ "false" \in Said
    BY DEF Said
<1>4. GlobalNo => Refuse("globals") /\ UNCHANGED <<rest, globals, typed>>
    BY DEF GlobalNo
<1>5. CASE GlobalInline
  <2>1. UNCHANGED <<input, kept>> /\ phase = "globals" /\ rest # <<>>
      BY <1>5 DEF GlobalInline, GlobalFrame
  <2>2. rest[1].val \in Said
    <3>1. rest[1] \in S
      <4>. HIDE DEF S
      <4>. QED BY <1>2, <2>1
    <3>. QED BY <1>1, <3>1
  <2>3. \/ GlobalNo
        \/ \E f \in ByToken(app.globals, rest[1]) :
            GiveGlobal(f, rest[1].val, Words(f, <<rest[1].val>>, stdin), 1)
      BY <1>5 DEF GlobalInline
  <2>4. CASE GlobalNo
      BY <1>4, <2>1, <2>4, FinishesAs, QuietStep
  <2>5. CASE \E f \in ByToken(app.globals, rest[1]) :
                GiveGlobal(f, rest[1].val, Words(f, <<rest[1].val>>, stdin), 1)
    <3>1. PICK f \in ByToken(app.globals, rest[1]) :
                GiveGlobal(f, rest[1].val, Words(f, <<rest[1].val>>, stdin), 1)
        BY <2>5
    <3>2. \E i \in DOMAIN app.globals : f = app.globals[i]
        BY FlagsAreFound
    <3>. HIDE DEF S
    <3>. QED BY <2>1, <2>2, <3>1, <3>2, GivesGlobal
  <2>. QED BY <2>3, <2>4, <2>5
<1>6. CASE GlobalNegation
  <2>1. UNCHANGED <<input, kept>> /\ phase = "globals"
      BY <1>6 DEF GlobalNegation, GlobalFrame
  <2>2. PICK f \in ByNegation(app.globals, rest[1]) : GiveGlobal(f, "false", Plain("false"), 1)
      BY <1>6 DEF GlobalNegation
  <2>3. \E i \in DOMAIN app.globals : f = app.globals[i]
      BY FlagsAreFound
  <2>. QED BY <1>3, <2>1, <2>2, <2>3, GivesGlobal
<1>7. CASE GlobalFlag
  <2>1. UNCHANGED <<input, kept>> /\ phase = "globals" /\ rest # <<>>
      BY <1>7 DEF GlobalFlag, GlobalFrame
  <2>2. PICK f \in ByToken(app.globals, rest[1]) :
            IF ~TakesValue(f.schema) THEN GiveGlobal(f, "true", Plain("true"), 1)
            ELSE IF Len(rest) = 1 THEN GlobalNo
            ELSE GiveGlobal(f, Text(rest[2]), Words(f, <<Text(rest[2])>>, stdin), 2)
      BY <1>7 DEF GlobalFlag
  <2>3. \E i \in DOMAIN app.globals : f = app.globals[i]
      BY FlagsAreFound
  <2>4. CASE ~TakesValue(f.schema)
    <3>. DEFINE got == Plain("true")
    <3>1. GiveGlobal(f, "true", got, 1)
        BY <2>2, <2>4
    <3>. HIDE DEF got
    <3>2. "true" \in Said /\ 1 \in 1..2
        BY <1>3
    <3>3. UNCHANGED <<input, kept>> /\ phase = "globals"
        BY <2>1
    <3>. QED BY <2>3, <3>1, <3>2, <3>3, GivesGlobal
  <2>5. CASE TakesValue(f.schema) /\ Len(rest) = 1
    <3>1. GlobalNo
        BY <2>2, <2>5
    <3>. QED BY <1>4, <2>1, <3>1, FinishesAs, QuietStep
  <2>6. CASE TakesValue(f.schema) /\ Len(rest) # 1
    <3>. DEFINE raw == Text(rest[2])
                got == Words(f, <<raw>>, stdin)
    <3>1. GiveGlobal(f, raw, got, 2)
        BY <2>2, <2>6
    <3>2. rest[2] \in S
      <4>. HIDE DEF S
      <4>0. Len(rest) \in Nat /\ Len(rest) # 0
          BY <1>2, <2>1
      <4>1. Len(rest) >= 2
          BY SMTT(60), <2>6, <4>0
      <4>. QED BY <1>2, <4>1
    <3>3. raw \in Said
        BY <1>1, <3>2
    <3>. HIDE DEF raw, got, S
    <3>4. 2 \in 1..2
        OBVIOUS
    <3>5. UNCHANGED <<input, kept>> /\ phase = "globals"
        BY <2>1
    <3>. QED BY <2>3, <3>1, <3>3, <3>4, <3>5, GivesGlobal
  <2>. QED BY <2>4, <2>5, <2>6
<1>8. CASE GlobalsEnd
  <2>. DEFINE layers == [env |-> Env, config |-> Config]
              read == Ambient(ToSet(app.globals), globals, stdin, app, layers)
              full == Defaulted(ToSet(app.globals), read.store)
  <2>1. UNCHANGED <<input, kept, typed>> /\ phase = "globals"
      BY SMTT(60), <1>8 DEF GlobalsEnd, GlobalFrame
  <2>2. \/ /\ globals' = full.store
           /\ rest' = IF rest # <<>> /\ rest[1] = Stop THEN Tail(rest) ELSE rest
           /\ phase' = "route"
        \/ Refuse("globals") /\ UNCHANGED <<globals, rest>>
      BY <1>8 DEF GlobalsEnd
  <2>3. DOMAIN full.store \subseteq DOMAIN globals \cup Names(ToSet(app.globals))
    <3>1. Bindings(layers.env) /\ Bindings(layers.config)
        BY InputFacts DEF ArgvInv
    <3>. HIDE DEF layers
    <3>2. \A n \in DOMAIN read.store \ DOMAIN globals : n \in Names(ToSet(app.globals))
        BY <3>1, AmbientAdds
    <3>. HIDE DEF read
    <3>3. DOMAIN full.store = DOMAIN read.store \cup Names(ToSet(app.globals))
        BY DefaultsAdd
    <3>. QED BY <3>2, <3>3
  <2>4. Names(ToSet(app.globals)) = NamesOf(app.globals)
      BY DEF Names, NamesOf, ToSet
  <2>. HIDE DEF read, full, layers
  <2>5. CASE Refuse("globals") /\ UNCHANGED <<globals, rest>>
      BY <2>1, <2>5, FinishesAs, QuietStep
  <2>6. CASE /\ globals' = full.store
             /\ rest' = IF rest # <<>> /\ rest[1] = Stop THEN Tail(rest) ELSE rest
             /\ phase' = "route"
    <3>1. rest' \in Seq(S)
      <4>. HIDE DEF S
      <4>1. rest # <<>> => Tail(rest) \in Seq(S)
          BY <1>2
      <4>. QED BY <1>2, <2>6, <4>1
    <3>. QED BY <2>1, <2>3, <2>4, <2>6, <3>1 DEF ArgvStepOK, ArgvInv, WordsRead, ArgvPhases
  <2>. QED BY <2>2, <2>5, <2>6
<1>. QED BY <1>5, <1>6, <1>7, <1>8

\* The depth of the group a route ends in is a number of words.
LEMMA DepthOfGroups ==
    ASSUME NEW S, rest \in Seq(S)
    PROVE  GroupDepth \in 0..Len(rest)
<1>. DEFINE words(n) == [i \in 1..n |-> rest[i].name]
            depths == {n \in 0..Len(rest) : \A i \in 1..n :
                        rest[i].form = "word" /\ words(i) \in app.groups}
            left == {Len(rest) - n : n \in depths}
<1>0. Len(rest) \in Nat
    OBVIOUS
<1>1. 0 \in depths /\ depths \subseteq 0..Len(rest)
    BY <1>0
<1>2. GroupDepth = CHOOSE n \in depths : \A m \in depths : m <= n
    BY DEF GroupDepth
<1>. HIDE DEF depths
<1>3. left \subseteq Nat /\ left # {}
  <2>1. ASSUME NEW n \in depths
        PROVE  Len(rest) - n \in Nat
      BY <1>0, <1>1
  <2>. QED BY <1>1, <2>1
<1>4. PICK k \in left : \A j \in left : k <= j
    BY <1>3, LeastNumber
<1>5. PICK n \in depths : k = Len(rest) - n
    BY <1>4
<1>6. \A m \in depths : m <= n
  <2>1. ASSUME NEW m \in depths
        PROVE  m <= n
    <3>1. k <= Len(rest) - m
        BY <1>4
    <3>2. m \in Int /\ n \in Int
        BY <1>1
    <3>. QED BY <1>0, <1>5, <3>1, <3>2
  <2>. QED BY <2>1
<1>7. \E x \in depths : \A m \in depths : m <= x
    BY <1>6
<1>8. GroupDepth \in depths
    BY <1>2, <1>7
<1>. QED BY <1>1, <1>8

LEMMA RouteSteps ==
    ASSUME ArgvInv, RouteTop \/ RouteFramework \/ RouteCommand
    PROVE  ArgvStepOK
<1>1. UNCHANGED <<input, kept, typed, globals>>
    BY DEF RouteTop, RouteFramework, RouteCommand, RouteFrame
<1>2. CASE RouteTop
  <2>. DEFINE kind == IF rest # <<>> /\ rest[1] \in VersionTokens THEN "version" ELSE "help"
  <2>1. ShowText(kind) /\ UNCHANGED rest
      BY <1>2 DEF RouteTop
  <2>2. kind # "command"
      OBVIOUS
  <2>. HIDE DEF kind
  <2>. QED BY <1>1, <2>1, <2>2, ShowsText, QuietStep
<1>3. CASE RouteFramework
  <2>1. UNCHANGED rest /\ (Show("framework") \/ Refuse("usage") \/ ShowText("framework"))
      BY <1>3 DEF RouteFramework
  <2>. QED BY <1>1, <2>1, FinishesAs, ShowsText, QuietStep
<1>4. CASE RouteCommand
  <2>. DEFINE n == GroupDepth
              p == [i \in 1..(n + 1) |-> rest[i].name]
              after == SubSeq(rest, n + 2, Len(rest))
              passed == [NoOutcome EXCEPT !.kind = "passthrough", !.args = after,
                            !.kwargs = [g \in DOMAIN globals |-> globals[g].value]]
  <2>1. \/ ShowText("help") /\ UNCHANGED rest
        \/ Refuse("unknown") /\ UNCHANGED rest
        \/ Refuse("usage") /\ UNCHANGED rest
        \/ Finish(passed) /\ UNCHANGED rest
        \/ /\ p \in DOMAIN app.commands /\ app.commands[p].kind # "passthrough"
           /\ path' = p /\ rest' = after /\ phase' = "tokens"
      BY <1>4 DEF RouteCommand
  <2>2. Finish(passed) => phase' = "done" /\ outcome'.kind # "command"
    <3>. DEFINE args == after
                kwargs == [g \in DOMAIN globals |-> globals[g].value]
    <3>. HIDE DEF args, kwargs, n
    <3>1. PICK x : x = NoOutcome
        OBVIOUS
    <3>2. DOMAIN x = {"kind", "kwargs", "via", "scoped", "provided", "skipped", "writes", "unsets",
                      "args", "reserved", "stage"}
        BY <3>1 DEF NoOutcome
    <3>3. PICK y : y = [x EXCEPT !.kind = "passthrough", !.args = args, !.kwargs = kwargs]
        OBVIOUS
    <3>4. y = passed
        BY <3>1, <3>3 DEF args, kwargs
    <3>5. y.kind = "passthrough" /\ DOMAIN y = DOMAIN x
        BY <3>2, <3>3
    <3>. HIDE DEF passed
    <3>. QED BY <3>2, <3>4, <3>5 DEF Finish
  <2>3. after \in Seq(ToSet(argv))
    <3>. DEFINE S == ToSet(argv)
    <3>1. rest \in Seq(S)
        BY DEF ArgvInv, WordsRead
    <3>. HIDE DEF S
    <3>2. n \in Nat
        BY <3>1, DepthOfGroups
    <3>. HIDE DEF n
    <3>. QED BY <3>1, <3>2 DEF S
  <2>4. p \in DOMAIN app.commands /\ app.commands[p].kind # "passthrough" =>
            app.commands[p].kind = "command"
    <3>. HIDE DEF p
    <3>1. p \in DOMAIN app.commands => app.commands[p] \in CommandType
        BY DEF ArgvInv, InputsOK, Registered, IsProgram
    <3>. QED BY <3>1 DEF CommandType
  <2>. HIDE DEF n, p, after, passed
  <2>5. CASE phase' = "done" /\ outcome'.kind # "command" /\ UNCHANGED rest
      BY <1>1, <2>5, QuietStep
  <2>6. CASE /\ p \in DOMAIN app.commands /\ app.commands[p].kind # "passthrough"
             /\ path' = p /\ rest' = after /\ phase' = "tokens"
      BY <1>1, <2>3, <2>4, <2>6 DEF ArgvStepOK, ArgvInv, WordsRead
  <2>. QED BY SMTT(60), <2>1, <2>2, <2>5, <2>6, FinishesAs, ShowsText
<1>. QED BY <1>2, <1>3, <1>4

LEMMA ArgvSteps ==
    ASSUME HandInv, ArgvNext, UNCHANGED parseVars
    PROVE  HandInv'
<1>1. ArgvInv
    BY DEF HandInv, ArgvInv
<1>2. ArgvStepOK
    BY <1>1, ScanSteps, RegionSteps, GlobalSteps, RouteSteps DEF ArgvNext
<1>3. InputsOK' /\ WordsRead'
    BY <1>1, <1>2 DEF ArgvStepOK, ArgvInv, input, InputsOK, WordsRead, parseVars
<1>4. ~Ran' /\ ~Stored'
    BY <1>2 DEF ArgvStepOK, ArgvPhases, Ran, Stored
<1>5. (Parsing => InCommand)'
    BY <1>2, <1>4 DEF ArgvStepOK, ArgvPhases, Parsing, InCommand, Command, input
<1>. QED BY <1>2, <1>3, <1>4, <1>5 DEF HandInv, ArgvStepOK, input

-----------------------------------------------------------------------------
(* The steps of the token loop.                                              *)

\* What such a step reads is a word of the command line, or one made up for it.
LEMMA GivesWord ==
    ASSUME HandInv, NEW what, NEW names, NEW raw \in Said, Give(what, names, raw)
    PROVE  typed' \in Seq(ToSet(typed')) /\ SaidAll(typed')
<1>. DEFINE e == Entry(what, names, raw)
<1>1. e.raw \in Said
    BY DEF Entry
<1>2. typed \in Seq(ToSet(typed)) /\ SaidAll(typed) /\ typed' = Append(typed, e)
    BY DEF HandInv, WordsRead, Give
<1>. HIDE DEF e
<1>. QED BY <1>1, <1>2, ReadsOneMore

LEMMA TokenStep ==
    ASSUME HandInv, phase = "tokens",
           UNCHANGED <<input, phase, kept, pre, globals, path, outcome, store>>,
           Drop(1) \/ Drop(2), positionals' \in Seq(Said),
           typed' \in Seq(ToSet(typed')), SaidAll(typed')
    PROVE  HandInv'
<1>1. ArgvInv /\ InCommand
    BY DEF HandInv, ArgvInv, Parsing
<1>2. rest' \in Seq(ToSet(argv))
    BY <1>1, DropKeeps
<1>3. InputsOK' /\ WordsRead'
    BY <1>1, <1>2 DEF ArgvInv, input, InputsOK, WordsRead
<1>4. ~Ran' /\ ~Stored'
    BY DEF Ran, Stored
<1>. QED BY <1>1, <1>3, <1>4 DEF HandInv, ArgvInv, input, InCommand, Command

LEMMA TokenSteps ==
    ASSUME HandInv,
           \/ TakeWord \/ TakeStop \/ TakeInline \/ TakeNegation \/ TakeUnset \/ TakeFlag
           \/ TakeUnknown
    PROVE  HandInv'
<1>. DEFINE S == ToSet(argv)
            AllSaid(t) == t \in Seq(ToSet(t)) /\ SaidAll(t)
<1>1. /\ rest \in Seq(S) /\ positionals \in Seq(Said) /\ AllSaid(typed)
      /\ \A t \in S : Text(t) \in Said /\ t.val \in Said
    BY InputFacts DEF HandInv, WordsRead
<1>2. /\ phase = "tokens" /\ rest # <<>>
      /\ UNCHANGED <<input, phase, kept, pre, globals, path, outcome, store>>
    BY DEF TakeWord, TakeStop, TakeInline, TakeNegation, TakeUnset, TakeFlag, TakeUnknown,
           Reading, TokenFrame
<1>3. rest[1] \in S
  <2>. HIDE DEF S
  <2>. QED BY <1>1, <1>2
<1>4. "true" \in Said /\ "false" \in Said /\ "" \in Said
    BY DEF Said
<1>5. CASE TakeWord
  <2>1. positionals' = Append(positionals, Text(rest[1])) /\ Drop(1) /\ typed' = typed
      BY <1>5 DEF TakeWord
  <2>2. positionals' \in Seq(Said)
    <3>1. Text(rest[1]) \in Said
        BY <1>1, <1>3
    <3>. QED BY <1>1, <2>1, <3>1
  <2>. QED BY <1>1, <1>2, <2>1, <2>2, TokenStep
<1>6. CASE TakeStop
  <2>1. positionals' = positionals /\ Drop(1) /\ typed' = typed
      BY <1>6 DEF TakeStop
  <2>. QED BY <1>1, <1>2, <2>1, TokenStep
<1>7. CASE TakeInline
  <2>1. positionals' = positionals /\ Drop(1)
      BY <1>7 DEF TakeInline
  <2>2. \/ \E g \in Targets(rest[1]) : Give(g.what, g.names, rest[1].val)
        \/ typed' = typed
      BY <1>7 DEF TakeInline, Complain
  <2>3. AllSaid(typed')
    <3>1. rest[1].val \in Said
        BY <1>1, <1>3
    <3>. QED BY <1>1, <2>2, <3>1, GivesWord
  <2>. QED BY <1>1, <1>2, <2>1, <2>3, TokenStep
<1>8. CASE TakeNegation
  <2>1. positionals' = positionals /\ Drop(1)
      BY <1>8 DEF TakeNegation
  <2>2. \E what, names : Give(what, names, "false")
      BY <1>8 DEF TakeNegation
  <2>3. AllSaid(typed')
      BY <1>4, <2>2, GivesWord
  <2>. QED BY <1>1, <1>2, <2>1, <2>3, TokenStep
<1>9. CASE TakeUnset
  <2>1. positionals' = positionals /\ Drop(1)
      BY <1>9 DEF TakeUnset
  <2>2. \E what, names : Give(what, names, "")
      BY <1>9 DEF TakeUnset
  <2>3. AllSaid(typed')
      BY <1>4, <2>2, GivesWord
  <2>. QED BY <1>1, <1>2, <2>1, <2>3, TokenStep
<1>10. CASE TakeFlag
  <2>1. PICK g \in Targets(rest[1]) :
            \/ Give(g.what, g.names, "true") /\ Drop(1)
            \/ Len(rest) > 1 /\ Give(g.what, g.names, Text(rest[2])) /\ Drop(2)
            \/ typed' = typed /\ Drop(1)
    <3>1. PICK g \in Targets(rest[1]) :
            CASE ~g.takes -> Give(g.what, g.names, "true") /\ Drop(1) /\ UNCHANGED problems
              [] g.takes /\ Len(rest) > 1 ->
                    Give(g.what, g.names, Text(rest[2])) /\ Drop(2) /\ UNCHANGED problems
              [] OTHER -> Complain("shape") /\ Drop(1)
        BY <1>10 DEF TakeFlag
    <3>2. CASE ~g.takes
        BY <3>1, <3>2
    <3>3. CASE g.takes /\ Len(rest) > 1
        BY <3>1, <3>3
    <3>4. CASE g.takes /\ ~(Len(rest) > 1)
        BY <3>1, <3>4 DEF Complain
    <3>. QED BY <3>2, <3>3, <3>4
  <2>2. positionals' = positionals
      BY <1>10 DEF TakeFlag
  <2>3. Len(rest) > 1 => Text(rest[2]) \in Said
    <3>1. Len(rest) > 1 => rest[2] \in S
      <4>. HIDE DEF S
      <4>. QED BY <1>1
    <3>. QED BY <1>1, <3>1
  <2>4. AllSaid(typed')
    <3>1. CASE Give(g.what, g.names, "true")
        BY <1>4, <3>1, GivesWord
    <3>2. CASE Len(rest) > 1 /\ Give(g.what, g.names, Text(rest[2]))
        BY <2>3, <3>2, GivesWord
    <3>3. CASE typed' = typed
        BY <1>1, <3>3
    <3>. QED BY <2>1, <3>1, <3>2, <3>3
  <2>. QED BY <1>1, <1>2, <2>1, <2>2, <2>4, TokenStep
<1>11. CASE TakeUnknown
  <2>1. positionals' = positionals /\ Drop(1) /\ typed' = typed
      BY <1>11 DEF TakeUnknown, Complain
  <2>. QED BY <1>1, <1>2, <2>1, TokenStep
<1>. QED BY <1>5, <1>6, <1>7, <1>8, <1>9, <1>10, <1>11

-----------------------------------------------------------------------------
(* The end of the token loop, the declaration tree, and delivery.            *)

\* The words of a flag of the command's own become its value.
LEMMA RootWords ==
    ASSUME HandInv, InCommand, NEW f \in Flags(Command), Places("root", f.name) # {}
    PROVE  RootValue(f) \in Seq(Said)
<1>. DEFINE P == Places("root", f.name)
            raws == RootRaws(f)
            n == Len(typed)
<1>1. n \in Nat /\ DOMAIN typed = 1..n /\ SaidAll(typed) /\ P \in SUBSET DOMAIN typed
  <2>1. typed \in Seq(ToSet(typed)) /\ SaidAll(typed)
      BY DEF HandInv, WordsRead
  <2>2. n \in Nat /\ DOMAIN typed = 1..n
      BY <2>1
  <2>3. P \in SUBSET DOMAIN typed
      BY DEF Places
  <2>. QED BY <2>1, <2>2, <2>3
<1>2. raws \in Seq(Said) /\ Len(raws) = Cardinality(P)
  <2>. HIDE DEF P, n
  <2>. QED BY <1>1, WordsAtPlaces DEF RootRaws, P
<1>3. Len(raws) \in Nat \ {0}
  <2>1. IsFiniteSet(P) /\ P # {}
    <3>1. P # {}
        OBVIOUS
    <3>. HIDE DEF P, n
    <3>2. IsFiniteSet(1..n)
        BY <1>1, FS_Interval
    <3>. QED BY <1>1, <3>1, <3>2, FS_Subset
  <2>. HIDE DEF P
  <2>2. Cardinality(P) \in Nat /\ Cardinality(P) # 0
      BY <2>1, FS_CardinalityType, FS_EmptySet
  <2>. QED BY <1>2, <2>2
<1>4. f \notin ToSet(app.globals)
  <2>1. Registered(app)
      BY DEF HandInv, InputsOK
  <2>2. Names(Flags(Command)) \cap NamesOf(app.globals) = {}
      BY <2>1, RegisteredCommand
  <2>3. f \in ToSet(app.globals) => f.name \in NamesOf(app.globals)
      BY DEF ToSet, NamesOf
  <2>. QED BY <2>2, <2>3 DEF Names
<1>. DEFINE last == <<raws[Len(raws)]>>
<1>5. last \in Seq(Said)
  <2>1. raws[Len(raws)] \in Said
    <3>. HIDE DEF raws
    <3>. QED BY <1>2, <1>3
  <2>. HIDE DEF raws
  <2>. QED BY <2>1
<1>6. RootValue(f) = IF IsScalar(f) THEN FromWords(f, last) ELSE <<>> \o FromWords(f, raws)
    BY <1>4 DEF RootValue
<1>. HIDE DEF raws, last
<1>7. FromWords(f, last) \in Seq(Said) /\ FromWords(f, raws) \in Seq(Said)
    BY <1>2, <1>5, WordsOfAFlag
<1>8. <<>> \o FromWords(f, raws) \in Seq(Said)
  <2>. DEFINE w == FromWords(f, raws)
  <2>1. w \in Seq(Said)
      BY <1>7
  <2>. HIDE DEF w
  <2>2. <<>> \o w \in Seq(Said)
      BY <2>1
  <2>. QED BY <2>2 DEF w
<1>. QED BY <1>6, <1>7, <1>8

\* A step that leaves alone what an invocation has in store, and does not run it.
LEMMA LaterStep ==
    ASSUME HandInv, InCommand, StoreOK',
           UNCHANGED <<input, rest, kept, pre, globals, path, positionals>>,
           typed' \in Seq(ToSet(typed')), SaidAll(typed'),
           phase' \in {"scopes", "deliver"} \/ (phase' = "done" /\ outcome'.kind # "command")
    PROVE  HandInv'
<1>1. InputsOK' /\ WordsRead'
    BY DEF HandInv, InputsOK, WordsRead, input
<1>2. InCommand' /\ ~Ran'
    BY DEF InCommand, Command, input, Ran
<1>. QED BY <1>1, <1>2 DEF HandInv, input

LEMMA TokensEndStep ==
    ASSUME HandInv, TokensEnd
    PROVE  HandInv'
<1>. DEFINE read == {f \in RootFlags : Places("root", f.name) # {}}
            cleared == [n \in Unsets |-> Sourced(Absent, "cli")]
            given == [n \in Names(read) |-> Sourced(RootValue(Named(read, n)), "cli")]
<1>1. /\ store' = Over(cleared, given)
      /\ phase = "tokens" /\ phase' = "scopes"
      /\ UNCHANGED <<input, rest, kept, pre, globals, typed, path, positionals>>
    BY DEF TokensEnd
<1>2. InCommand /\ Registered(app)
    BY <1>1 DEF HandInv, Parsing, InputsOK
<1>3. Unsets' = Unsets /\ Flags(Command)' = Flags(Command)
    BY <1>1 DEF Unsets, Command, input
<1>4. /\ DOMAIN store' = Unsets \cup Names(read)
      /\ \A n \in Unsets : store'[n] = Sourced(Absent, "cli")
      /\ \A n \in Names(read) \ Unsets : store'[n] = Sourced(RootValue(Named(read, n)), "cli")
  <2>1. DOMAIN cleared = Unsets /\ \A n \in Unsets : cleared[n] = Sourced(Absent, "cli")
      OBVIOUS
  <2>2. DOMAIN given = Names(read)
        /\ \A n \in Names(read) : given[n] = Sourced(RootValue(Named(read, n)), "cli")
      OBVIOUS
  <2>. HIDE DEF cleared, given, read
  <2>3. /\ DOMAIN store' = DOMAIN cleared \cup DOMAIN given
        /\ \A n \in DOMAIN cleared : store'[n] = cleared[n]
        /\ \A n \in DOMAIN given \ DOMAIN cleared : store'[n] = given[n]
      BY <1>1 DEF Over
  <2>. QED BY <2>1, <2>2, <2>3
<1>5. ASSUME NEW n \in Names(read) \ Unsets, n \in Names(Flags(Command))
      PROVE  store'[n].value \in Seq(Said)
  <2>. DEFINE f == Named(read, n)
  <2>1. f \in read /\ f.name = n
      BY DEF Named, Names
  <2>. HIDE DEF f
  <2>2. f \in RootFlags /\ Places("root", f.name) # {}
      BY <2>1
  <2>3. f \in Flags(Command)
    <3>1. n \notin NamesOf(app.globals)
        BY <1>2, <1>5, RegisteredCommand
    <3>2. f \in ToSet(app.globals) => f.name \in NamesOf(app.globals)
        BY DEF ToSet, NamesOf
    <3>. QED BY <2>1, <2>2, <3>1, <3>2 DEF RootFlags
  <2>4. RootValue(f) \in Seq(Said)
      BY <1>2, <2>2, <2>3, RootWords
  <2>5. store'[n] = Sourced(RootValue(f), "cli")
      BY <1>4 DEF f
  <2>. QED BY <2>4, <2>5 DEF Sourced
<1>6. \A n \in DOMAIN store' : store'[n].via = "cli"
  <2>. HIDE DEF read
  <2>. QED BY <1>4 DEF Sourced
<1>. HIDE DEF read
<1>7. StoreOK'
    BY <1>3, <1>4, <1>5, <1>6 DEF StoreOK
<1>8. typed' \in Seq(ToSet(typed')) /\ SaidAll(typed')
    BY <1>1 DEF HandInv, WordsRead
<1>. QED BY <1>1, <1>2, <1>7, <1>8, LaterStep

\* Electing a choice names the scope of the entries it binds, and no more.
LEMMA BindKeeps ==
    ASSUME NEW e, NEW names
    PROVE  /\ Bind(e, names).raw = e.raw /\ Bind(e, names).what = e.what
           /\ e.what # "scoped" => Bind(e, names) = e
BY DEF Bind

LEMMA Rebound ==
    ASSUME typed \in Seq(ToSet(typed)), SaidAll(typed), NEW names,
           typed' = [i \in DOMAIN typed |-> Bind(typed[i], names)]
    PROVE  /\ typed' \in Seq(ToSet(typed')) /\ SaidAll(typed')
           /\ DOMAIN typed' = DOMAIN typed /\ Unsets' = Unsets
<1>. DEFINE n == Len(typed)
<1>1. n \in Nat /\ DOMAIN typed = 1..n
    OBVIOUS
<1>2. DOMAIN typed' = 1..n /\ \A i \in 1..n : typed'[i] = Bind(typed[i], names)
    BY <1>1
<1>3. \A i \in 1..n : /\ typed'[i].raw = typed[i].raw /\ typed'[i].what = typed[i].what
                      /\ typed[i].what = "unset" => typed'[i] = typed[i]
    BY <1>2, BindKeeps
<1>. HIDE DEF n
<1>4. SaidAll(typed')
    BY <1>1, <1>2, <1>3 DEF SaidAll
<1>5. typed' \in Seq(ToSet(typed'))
  <2>1. typed' = [i \in 1..n |-> typed'[i]]
      BY <1>1, <1>2
  <2>2. typed' \in [1..n -> ToSet(typed')]
      BY <1>2, <2>1 DEF ToSet
  <2>. QED BY <1>1, <2>2
<1>6. Unsets = {typed[i].names[1] : i \in {j \in 1..n : typed[j].what = "unset"}}
    BY <1>1 DEF Unsets, ToSet
<1>7. Unsets' = {typed'[i].names[1] : i \in {j \in 1..n : typed'[j].what = "unset"}}
    BY SMTT(60), <1>2 DEF Unsets, ToSet
<1>8. Unsets' = Unsets
  <2>. DEFINE A == {j \in 1..n : typed[j].what = "unset"}
              B == {j \in 1..n : typed'[j].what = "unset"}
  <2>1. A = B /\ \A i \in A : typed'[i].names[1] = typed[i].names[1]
      BY <1>3
  <2>2. {typed[i].names[1] : i \in A} = {typed'[i].names[1] : i \in B}
      BY ZenonT(60), <2>1
  <2>. QED BY <1>6, <1>7, <2>2
<1>. QED BY <1>1, <1>2, <1>4, <1>5, <1>8

LEMMA ScopeSteps ==
    ASSUME HandInv, PassOver \/ ElectByToken \/ ElectByMembers \/ ResolveScoped
    PROVE  HandInv'
<1>1. /\ phase = "scopes"
      /\ UNCHANGED <<input, phase, rest, kept, pre, globals, path, outcome, positionals, store>>
    BY DEF PassOver, ElectByToken, ElectByMembers, ResolveScoped, Scoping, ScopeFrame
<1>2. InCommand /\ StoreOK /\ typed \in Seq(ToSet(typed)) /\ SaidAll(typed)
    BY <1>1 DEF HandInv, Parsing, Stored, WordsRead
<1>3. \A stage : Undecided(stage) => typed' = typed
    BY DEF Undecided
<1>4. \A choice, via : Elect(choice, via) =>
            \E names : typed' = [i \in DOMAIN typed |-> Bind(typed[i], names)]
    BY DEF Elect
<1>5. \/ typed' = typed
      \/ \E names : typed' = [i \in DOMAIN typed |-> Bind(typed[i], names)]
  <2>1. CASE PassOver
      BY <2>1 DEF PassOver
  <2>2. \A choice, via : ElectNamed(choice, via) => \E stage : Undecided(stage) \/ Elect(choice, via)
      BY DEF ElectNamed
  <2>3. ElectDefault => \E stage, choice, via : Undecided(stage) \/ Elect(choice, via)
      BY DEF ElectDefault
  <2>4. CASE ElectByToken
    <3>1. \E stage, choice, via : Undecided(stage) \/ ElectNamed(choice, via) \/ ElectDefault
        BY <2>4 DEF ElectByToken
    <3>. QED BY <1>3, <1>4, <2>2, <2>3, <3>1
  <2>5. CASE ElectByMembers
    <3>1. \E stage, choice, via : Undecided(stage) \/ Elect(choice, via) \/ ElectDefault
        BY <2>5 DEF ElectByMembers
    <3>. QED BY <1>3, <1>4, <2>3, <3>1
  <2>6. CASE ResolveScoped
      BY <2>6 DEF ResolveScoped, Undecided, Keep
  <2>. QED BY <2>1, <2>4, <2>5, <2>6
<1>6. typed' \in Seq(ToSet(typed')) /\ SaidAll(typed') /\ Unsets' = Unsets
  <2>1. CASE typed' = typed
      BY <1>2, <2>1 DEF Unsets
  <2>2. CASE \E names : typed' = [i \in DOMAIN typed |-> Bind(typed[i], names)]
      BY <1>2, <2>2, Rebound
  <2>. QED BY <1>5, <2>1, <2>2
<1>7. StoreOK'
    BY <1>1, <1>2, <1>6 DEF StoreOK, Command, input
<1>. QED BY <1>1, <1>2, <1>6, <1>7, LaterStep

LEMMA ScopesEndStep ==
    ASSUME HandInv, ScopesEnd
    PROVE  HandInv'
<1>1. /\ phase = "scopes"
      /\ UNCHANGED <<input, rest, kept, pre, globals, typed, path, positionals, store>>
    BY DEF ScopesEnd
<1>2. InCommand /\ StoreOK /\ typed \in Seq(ToSet(typed)) /\ SaidAll(typed)
    BY <1>1 DEF HandInv, Parsing, Stored, WordsRead
<1>3. phase' = "deliver" \/ (phase' = "done" /\ outcome'.kind # "command")
  <2>1. phase' = "deliver" \/ \E stage : Refuse(stage)
      BY DEF ScopesEnd
  <2>. QED BY <2>1, FinishesAs
<1>4. StoreOK'
    BY <1>1, <1>2 DEF StoreOK, Command, Unsets, input
<1>. QED BY <1>1, <1>2, <1>3, <1>4, LaterStep

\* What the handler is handed is read from variables a delivery leaves alone.
LEMMA HandedOnly ==
    ASSUME UNCHANGED <<input, rest, kept, pre, globals, typed, stdin, path, parseVars>>
    PROVE  /\ Read' = Read /\ Built' = Built /\ AllGlobals' = AllGlobals /\ Skipped' = Skipped
           /\ TooMany(Command, positionals)' = TooMany(Command, positionals)
           /\ StoreOK' = StoreOK /\ InCommand' = InCommand
<1>1. Command' = Command /\ Env' = Env /\ Config' = Config /\ Unsets' = Unsets
    BY DEF Command, Env, Config, Unsets, input, parseVars
<1>2. Read' = Read
    BY <1>1 DEF Read, input, parseVars
<1>3. Chosen' = Chosen
    BY <1>1 DEF Chosen, input, parseVars
<1>4. Gathered' = Gathered /\ Words0' = Words0
    BY <1>1, <1>2, <1>3 DEF Gathered, Words0, parseVars
<1>5. Built' = Built
    BY <1>1, <1>3, <1>4 DEF Built
<1>6. Later' = Later
    BY <1>3 DEF Later, input, parseVars
<1>7. AllGlobals' = AllGlobals
    BY <1>6 DEF AllGlobals
<1>8. Skipped' = Skipped
    BY <1>1 DEF Skipped, Live, parseVars
<1>9. StoreOK' = StoreOK /\ InCommand' = InCommand
    BY <1>1 DEF StoreOK, InCommand, input, parseVars
<1>10. TooMany(Command, positionals)' = TooMany(Command, positionals)
    BY <1>1 DEF parseVars
<1>. QED BY <1>2, <1>5, <1>7, <1>8, <1>9, <1>10

\* The outcome of a delivery, field by field.
DeliveryOf(built, resolved, all, skipped, unsets) ==
    [Delivered(built, resolved, all) EXCEPT !.skipped = skipped, !.unsets = unsets]

LEMMA DeliveredFields ==
    ASSUME NEW built, NEW resolved, NEW all, NEW skipped, NEW unsets,
           Finish(DeliveryOf(built, resolved, all, skipped, unsets))
    PROVE  /\ phase' = "done" /\ outcome'.kind = "command"
           /\ outcome'.kwargs = Over([g \in DOMAIN all |-> all[g].value], built.kwargs)
           /\ outcome'.via = Over(built.via, [g \in DOMAIN all |-> all[g].via])
           /\ outcome'.scoped = Over(resolved.values, ScopedOf(resolved.elected))
           /\ outcome'.provided = resolved.provided \cup ProvidedOf(resolved.elected)
           /\ outcome'.writes = built.writes /\ outcome'.skipped = skipped
           /\ outcome'.unsets = unsets /\ outcome'.reserved = pre.words
<1>1. PICK kwargs : kwargs = Over([g \in DOMAIN all |-> all[g].value], built.kwargs)
    OBVIOUS
<1>2. PICK via : via = Over(built.via, [g \in DOMAIN all |-> all[g].via])
    OBVIOUS
<1>3. PICK scoped : scoped = Over(resolved.values, ScopedOf(resolved.elected))
    OBVIOUS
<1>4. PICK provided : provided = resolved.provided \cup ProvidedOf(resolved.elected)
    OBVIOUS
<1>5. PICK x : x = NoOutcome
    OBVIOUS
<1>6. DOMAIN x = {"kind", "kwargs", "via", "scoped", "provided", "skipped", "writes", "unsets",
                  "args", "reserved", "stage"}
    BY <1>5 DEF NoOutcome
<1>7. PICK y : y = [x EXCEPT !.kind = "command", !.kwargs = kwargs, !.via = via, !.scoped = scoped,
                        !.provided = provided, !.writes = built.writes]
    OBVIOUS
<1>8. y = Delivered(built, resolved, all)
    BY <1>1, <1>2, <1>3, <1>4, <1>5, <1>7 DEF Delivered
<1>9. /\ DOMAIN y = DOMAIN x /\ y.kind = "command" /\ y.kwargs = kwargs /\ y.via = via
      /\ y.scoped = scoped /\ y.provided = provided /\ y.writes = built.writes
    BY <1>6, <1>7
<1>10. PICK z : z = [y EXCEPT !.skipped = skipped, !.unsets = unsets]
    OBVIOUS
<1>11. /\ DOMAIN z = DOMAIN x /\ z.kind = "command" /\ z.kwargs = kwargs /\ z.via = via
       /\ z.scoped = scoped /\ z.provided = provided /\ z.writes = built.writes
       /\ z.skipped = skipped /\ z.unsets = unsets
    BY <1>6, <1>9, <1>10
<1>12. phase' = "done" /\ outcome' = [z EXCEPT !.reserved = pre.words]
    BY <1>8, <1>10 DEF Finish, DeliveryOf
<1>13. /\ outcome'.kind = "command" /\ outcome'.kwargs = kwargs /\ outcome'.via = via
       /\ outcome'.scoped = scoped /\ outcome'.provided = provided /\ outcome'.writes = built.writes
       /\ outcome'.skipped = skipped /\ outcome'.unsets = unsets /\ outcome'.reserved = pre.words
    BY <1>6, <1>11, <1>12
<1>. QED BY <1>1, <1>2, <1>3, <1>4, <1>12, <1>13

LEMMA DeliverStep ==
    ASSUME HandInv, Deliver
    PROVE  HandInv'
<1>1. phase = "deliver" /\ UNCHANGED <<input, rest, kept, pre, globals, typed, stdin, path, parseVars>>
    BY DEF Deliver
<1>2. InCommand /\ StoreOK
    BY <1>1 DEF HandInv, Parsing, Stored
<1>3. InputsOK' /\ WordsRead' /\ InCommand' /\ StoreOK'
    BY <1>1, <1>2, HandedOnly DEF HandInv, InputsOK, WordsRead, input, parseVars
<1>4. \/ Refuse("deliver")
      \/ /\ Read.ok /\ ~TooMany(Command, positionals) /\ Built.ok
         /\ Finish(DeliveryOf(Built, scopes, AllGlobals, Skipped, Unsets))
    BY DEF DeliveryOf, Deliver, Read, Built, Gathered, Chosen, Words0, AllGlobals, Later
<1>5. CASE Refuse("deliver")
  <2>1. ~Ran'
      BY <1>5, FinishesAs DEF Ran
  <2>. QED BY <1>1, <1>3, <2>1 DEF HandInv, input
<1>6. CASE /\ Read.ok /\ ~TooMany(Command, positionals) /\ Built.ok
           /\ Finish(DeliveryOf(Built, scopes, AllGlobals, Skipped, Unsets))
  <2>1. HandedOver'
    <3>1. scopes' = scopes /\ pre' = pre
        BY <1>1 DEF parseVars
    <3>2. /\ Read' = Read /\ Built' = Built /\ AllGlobals' = AllGlobals /\ Skipped' = Skipped
          /\ TooMany(Command, positionals)' = TooMany(Command, positionals)
        BY <1>1, HandedOnly
    <3>3. /\ outcome'.kwargs = Over([g \in DOMAIN AllGlobals |-> AllGlobals[g].value], Built.kwargs)
          /\ outcome'.via = Over(Built.via, [g \in DOMAIN AllGlobals |-> AllGlobals[g].via])
          /\ outcome'.scoped = Over(scopes.values, ScopedOf(scopes.elected))
          /\ outcome'.provided = scopes.provided \cup ProvidedOf(scopes.elected)
          /\ outcome'.writes = Built.writes /\ outcome'.skipped = Skipped
          /\ outcome'.reserved = pre.words
      <4>1. PICK all, built, skipped, unsets, resolved :
                /\ all = AllGlobals /\ built = Built /\ skipped = Skipped /\ unsets = Unsets
                /\ resolved = scopes
          OBVIOUS
      <4>2. Finish(DeliveryOf(built, resolved, all, skipped, unsets))
          BY <1>6, <4>1
      <4>3. /\ outcome'.kwargs = Over([g \in DOMAIN all |-> all[g].value], built.kwargs)
            /\ outcome'.via = Over(built.via, [g \in DOMAIN all |-> all[g].via])
            /\ outcome'.scoped = Over(resolved.values, ScopedOf(resolved.elected))
            /\ outcome'.provided = resolved.provided \cup ProvidedOf(resolved.elected)
            /\ outcome'.writes = built.writes /\ outcome'.skipped = skipped
            /\ outcome'.reserved = pre.words
          BY <4>2, DeliveredFields
      <4>. QED BY <4>1, <4>3
    <3>4. (Read.ok /\ Built.ok /\ ~TooMany(Command, positionals))'
      <4>1. (Read.ok /\ Built.ok)'
          BY <1>6, <3>2
      <4>2. Command' = Command /\ positionals' = positionals
          BY <1>1 DEF Command, input, parseVars
      <4>3. ~TooMany(Command, positionals)'
          BY <1>6, <4>2
      <4>. QED BY <4>1, <4>3
    <3>5. (outcome.kwargs = Over([g \in DOMAIN AllGlobals |-> AllGlobals[g].value], Built.kwargs))'
        BY <3>2, <3>3
    <3>6. (outcome.via = Over(Built.via, [g \in DOMAIN AllGlobals |-> AllGlobals[g].via]))'
        BY <3>2, <3>3
    <3>7. (/\ outcome.scoped = Over(scopes.values, ScopedOf(scopes.elected))
           /\ outcome.provided = scopes.provided \cup ProvidedOf(scopes.elected)
           /\ outcome.writes = Built.writes /\ outcome.skipped = Skipped
           /\ outcome.reserved = pre.words)'
        BY <3>1, <3>2, <3>3
    <3>. QED BY <3>4, <3>5, <3>6, <3>7 DEF HandedOver
  <2>. QED BY <1>1, <1>3, <2>1 DEF HandInv, input
<1>. QED BY <1>4, <1>5, <1>6

-----------------------------------------------------------------------------
(* The declaration tree, as far as it is resolved.                           *)

\* The key of the selector of a step of a path.
StepKey(p, k) == <<SubSeq(p, 1, k - 1), p[k][1]>>

LEMMA TreeOfTheCommand ==
    ASSUME Registered(app), InCommand
    PROVE  LET decls == Command.decls
           IN  /\ Len(decls) \in Nat /\ DOMAIN decls = 1..Len(decls)
               /\ ToSet(decls) = {decls[i] : i \in 1..Len(decls)}
               /\ \A i \in 1..Len(decls) :
                    decls[i].kind \in {"flag", "token", "member"} /\ decls[i].path \in Seq(STRING \X STRING)
               /\ \A i, j \in 1..Len(decls) : Key(decls[i]) = Key(decls[j]) => i = j
               /\ \A i \in 1..Len(decls) : \A k \in DOMAIN decls[i].path : \E j \in 1..(i - 1) :
                    /\ IsSelector(decls[j]) /\ Key(decls[j]) = StepKey(decls[i].path, k)
                    /\ decls[i].path[k][2] \in AltNames(decls[j])
<1>. DEFINE decls == Command.decls
            n == Len(decls)
<1>1. Command \in CommandType /\ IsTree(decls)
    BY RegisteredCommand
<1>2. decls \in Seq(DeclarationType)
    BY <1>1 DEF CommandType
<1>. HIDE DEF decls
<1>3. n \in Nat /\ DOMAIN decls = 1..n /\ \A i \in 1..n : decls[i] \in DeclarationType
    BY <1>2
<1>4. \A i \in 1..n : decls[i].kind \in {"flag", "token", "member"} /\ decls[i].path \in Seq(STRING \X STRING)
    BY <1>3 DEF DeclarationType
<1>. HIDE DEF n
<1>5. /\ \A i, j \in 1..n : Key(decls[i]) = Key(decls[j]) => i = j
      /\ \A i \in 1..n : \A k \in DOMAIN decls[i].path : \E j \in 1..(i - 1) :
            /\ IsSelector(decls[j]) /\ Key(decls[j]) = StepKey(decls[i].path, k)
            /\ decls[i].path[k][2] \in AltNames(decls[j])
    BY <1>1, <1>3 DEF IsTree, StepKey
<1>6. ToSet(decls) = {decls[i] : i \in 1..n}
    BY <1>3 DEF ToSet
<1>. QED BY <1>3, <1>4, <1>5, <1>6 DEF decls, n

\* The choice of a declaration decides nothing of the declarations before it,
\* nor of itself.
LEMMA LivenessIsSettled ==
    ASSUME Registered(app), InCommand, NEW n \in 1..Len(Command.decls), NEW j \in 1..n,
           NEW elected, NEW choice
    PROVE  LiveIn(Put(elected, Key(Command.decls[n]), choice), Command.decls[j].path)
                <=> LiveIn(elected, Command.decls[j].path)
<1>. DEFINE decls == Command.decls
            p == decls[j].path
            more == Put(elected, Key(decls[n]), choice)
<1>1. j \in 1..Len(decls) /\ n \in 1..Len(decls) /\ Len(decls) \in Nat
    BY TreeOfTheCommand
<1>2. \A k \in DOMAIN p : StepKey(p, k) # Key(decls[n])
  <2>1. ASSUME NEW k \in DOMAIN p
        PROVE  StepKey(p, k) # Key(decls[n])
    <3>1. PICK i \in 1..(j - 1) : Key(decls[i]) = StepKey(p, k)
        BY <1>1, TreeOfTheCommand
    <3>2. i \in 1..Len(decls) /\ i # n
        BY <1>1
    <3>. QED BY <1>1, <3>1, <3>2, TreeOfTheCommand
  <2>. QED BY <2>1
<1>3. \A key : key # Key(decls[n]) =>
            (key \in DOMAIN more <=> key \in DOMAIN elected)
            /\ (key \in DOMAIN elected => more[key] = elected[key])
    BY DEF Put
<1>4. \A e : LiveIn(e, p) <=>
        \A k \in DOMAIN p : StepKey(p, k) \in DOMAIN e /\ e[StepKey(p, k)].choice = p[k][2]
    BY DEF LiveIn, StepKey
<1>. HIDE DEF more, p, decls
<1>. QED BY <1>2, <1>3, <1>4 DEF more, p, decls

\* Where the first declarations of the tree are resolved: what is elected are
\* live selectors, what has a value is a live scoped flag or the payload of a
\* choice, and unless something was refused each live declaration is resolved.
ScopedFlag(d) == IsFlag(d) /\ d.path # <<>>
PayloadKey(d, c) == <<ScopeOf(d, c), "value">>

Resolved(next, elected, values, provided, sound) ==
    LET D(j) == Command.decls[j]
    IN  /\ next \in 1..(Len(Command.decls) + 1)
        /\ \A k \in DOMAIN elected : \E j \in 1..(next - 1) :
            IsSelector(D(j)) /\ k = Key(D(j)) /\ LiveIn(elected, D(j).path)
        /\ \A k \in DOMAIN values : \E j \in 1..(next - 1) :
            \/ ScopedFlag(D(j)) /\ k = Key(D(j)) /\ LiveIn(elected, D(j).path)
            \/ IsSelector(D(j)) /\ \E c : k = PayloadKey(D(j), c)
        /\ sound => \A j \in 1..(next - 1) : LiveIn(elected, D(j).path) =>
            /\ IsSelector(D(j)) => Key(D(j)) \in DOMAIN elected
            /\ ScopedFlag(D(j)) => Key(D(j)) \in DOMAIN values
        /\ provided \subseteq DOMAIN values

LEMMA PassingOn ==
    ASSUME Registered(app), InCommand, NEW n \in 1..Len(Command.decls),
           NEW elected, NEW values, NEW provided, NEW sound, NEW after,
           Resolved(n, elected, values, provided, sound),
           after => /\ sound
                    /\ \/ ~LiveIn(elected, Command.decls[n].path)
                       \/ ~IsSelector(Command.decls[n]) /\ ~ScopedFlag(Command.decls[n])
    PROVE  Resolved(n + 1, elected, values, provided, after)
<1>. DEFINE D(j) == Command.decls[j]
            len == Len(Command.decls)
<1>1. len \in Nat
    BY TreeOfTheCommand
<1>2. n \in 1..len /\ n + 1 \in 1..(len + 1) /\ n \in Int
    BY <1>1
<1>3. 1..(n - 1) \subseteq 1..((n + 1) - 1) /\ \A j \in 1..((n + 1) - 1) : j \in 1..(n - 1) \/ j = n
    BY <1>2
<1>. DEFINE S == 1..(n - 1)
            T == 1..((n + 1) - 1)
<1>4. S \subseteq T /\ \A j \in T : j \in S \/ j = n
    BY <1>3
<1>5. /\ \A k \in DOMAIN elected : \E j \in S :
            IsSelector(D(j)) /\ k = Key(D(j)) /\ LiveIn(elected, D(j).path)
      /\ \A k \in DOMAIN values : \E j \in S :
            \/ ScopedFlag(D(j)) /\ k = Key(D(j)) /\ LiveIn(elected, D(j).path)
            \/ IsSelector(D(j)) /\ \E c : k = PayloadKey(D(j), c)
      /\ sound => \A j \in S : LiveIn(elected, D(j).path) =>
            /\ IsSelector(D(j)) => Key(D(j)) \in DOMAIN elected
            /\ ScopedFlag(D(j)) => Key(D(j)) \in DOMAIN values
      /\ provided \subseteq DOMAIN values
    BY DEF Resolved
<1>6. after => /\ sound /\ (~LiveIn(elected, D(n).path) \/ (~IsSelector(D(n)) /\ ~ScopedFlag(D(n))))
    OBVIOUS
<1>. HIDE DEF S, T, D, len
<1>7. /\ \A k \in DOMAIN elected : \E j \in T :
            IsSelector(D(j)) /\ k = Key(D(j)) /\ LiveIn(elected, D(j).path)
      /\ \A k \in DOMAIN values : \E j \in T :
            \/ ScopedFlag(D(j)) /\ k = Key(D(j)) /\ LiveIn(elected, D(j).path)
            \/ IsSelector(D(j)) /\ \E c : k = PayloadKey(D(j), c)
      /\ after => \A j \in T : LiveIn(elected, D(j).path) =>
            /\ IsSelector(D(j)) => Key(D(j)) \in DOMAIN elected
            /\ ScopedFlag(D(j)) => Key(D(j)) \in DOMAIN values
    BY <1>4, <1>5, <1>6
<1>. QED BY <1>2, <1>5, <1>7 DEF Resolved, S, T, D, len

\* A choice opens a scope, and may bring its payload.
LEMMA Electing ==
    ASSUME Registered(app), InCommand, NEW n \in 1..Len(Command.decls),
           NEW elected, NEW values, NEW provided, NEW sound, NEW after, after => sound,
           Resolved(n, elected, values, provided, sound),
           IsSelector(Command.decls[n]), LiveIn(elected, Command.decls[n].path),
           NEW choice, NEW c, NEW more, NEW told,
           \/ more = values /\ told = provided
           \/ /\ DOMAIN more = DOMAIN values \cup {PayloadKey(Command.decls[n], c)}
              /\ told = provided \cup {PayloadKey(Command.decls[n], c)}
    PROVE  Resolved(n + 1, Put(elected, Key(Command.decls[n]), choice), more, told, after)
<1>. DEFINE D(j) == Command.decls[j]
            len == Len(Command.decls)
            now == Put(elected, Key(Command.decls[n]), choice)
            S == 1..(n - 1)
            T == 1..((n + 1) - 1)
<1>1. len \in Nat
    BY TreeOfTheCommand
<1>2. n \in 1..len /\ n + 1 \in 1..(len + 1) /\ n \in Int
    BY <1>1
<1>3. S \subseteq T /\ n \in T /\ \A j \in T : j \in S \/ j = n
    BY <1>2
<1>4. /\ \A k \in DOMAIN elected : \E j \in S :
            IsSelector(D(j)) /\ k = Key(D(j)) /\ LiveIn(elected, D(j).path)
      /\ \A k \in DOMAIN values : \E j \in S :
            \/ ScopedFlag(D(j)) /\ k = Key(D(j)) /\ LiveIn(elected, D(j).path)
            \/ IsSelector(D(j)) /\ \E x : k = PayloadKey(D(j), x)
      /\ sound => \A j \in S : LiveIn(elected, D(j).path) =>
            /\ IsSelector(D(j)) => Key(D(j)) \in DOMAIN elected
            /\ ScopedFlag(D(j)) => Key(D(j)) \in DOMAIN values
      /\ provided \subseteq DOMAIN values
    BY DEF Resolved
<1>5. \A j \in T : LiveIn(now, D(j).path) <=> LiveIn(elected, D(j).path)
  <2>1. \A j \in T : j \in 1..n
      BY <1>2
  <2>. HIDE DEF T
  <2>. QED BY <2>1, LivenessIsSettled
<1>6. DOMAIN now = DOMAIN elected \cup {Key(D(n))}
    BY DEF Put
<1>7. IsSelector(D(n)) /\ LiveIn(elected, D(n).path) /\ ~ScopedFlag(D(n))
    BY DEF IsSelector, ScopedFlag, IsFlag
<1>8. /\ DOMAIN values \subseteq DOMAIN more /\ told \subseteq DOMAIN more
      /\ \A k \in DOMAIN more \ DOMAIN values : k = PayloadKey(D(n), c)
    BY <1>4
<1>. HIDE DEF S, T, D, len, now
<1>9. \A k \in DOMAIN now : \E j \in T :
            IsSelector(D(j)) /\ k = Key(D(j)) /\ LiveIn(now, D(j).path)
    BY <1>3, <1>4, <1>5, <1>6, <1>7
<1>10. ASSUME NEW k \in DOMAIN more
       PROVE  \E j \in T :
            \/ ScopedFlag(D(j)) /\ k = Key(D(j)) /\ LiveIn(now, D(j).path)
            \/ IsSelector(D(j)) /\ \E x : k = PayloadKey(D(j), x)
  <2>1. CASE k \in DOMAIN values
      BY <1>3, <1>4, <1>5, <2>1
  <2>2. CASE k \notin DOMAIN values
      BY <1>3, <1>7, <1>8, <2>2
  <2>. QED BY <2>1, <2>2
<1>11. ASSUME after, NEW j \in T, LiveIn(now, D(j).path)
       PROVE  /\ IsSelector(D(j)) => Key(D(j)) \in DOMAIN now
              /\ ScopedFlag(D(j)) => Key(D(j)) \in DOMAIN more
  <2>1. CASE j \in S
      BY <1>4, <1>5, <1>6, <1>8, <1>11, <2>1
  <2>2. CASE j = n
      BY <1>6, <1>7, <2>2
  <2>. QED BY <1>3, <2>1, <2>2
<1>. QED BY <1>2, <1>8, <1>9, <1>10, <1>11 DEF Resolved, S, T, D, len, now

\* A scoped flag of a live scope takes a value.
LEMMA Valuing ==
    ASSUME Registered(app), InCommand, NEW n \in 1..Len(Command.decls),
           NEW elected, NEW values, NEW provided, NEW sound, NEW after, after => sound,
           Resolved(n, elected, values, provided, sound),
           ScopedFlag(Command.decls[n]), LiveIn(elected, Command.decls[n].path),
           NEW value, NEW told, told \subseteq provided \cup {Key(Command.decls[n])}
    PROVE  Resolved(n + 1, elected, Put(values, Key(Command.decls[n]), value), told, after)
<1>. DEFINE D(j) == Command.decls[j]
            len == Len(Command.decls)
            more == Put(values, Key(Command.decls[n]), value)
            S == 1..(n - 1)
            T == 1..((n + 1) - 1)
<1>1. len \in Nat
    BY TreeOfTheCommand
<1>2. n \in 1..len /\ n + 1 \in 1..(len + 1) /\ n \in Int
    BY <1>1
<1>3. S \subseteq T /\ n \in T /\ \A j \in T : j \in S \/ j = n
    BY <1>2
<1>4. /\ \A k \in DOMAIN elected : \E j \in S :
            IsSelector(D(j)) /\ k = Key(D(j)) /\ LiveIn(elected, D(j).path)
      /\ \A k \in DOMAIN values : \E j \in S :
            \/ ScopedFlag(D(j)) /\ k = Key(D(j)) /\ LiveIn(elected, D(j).path)
            \/ IsSelector(D(j)) /\ \E x : k = PayloadKey(D(j), x)
      /\ sound => \A j \in S : LiveIn(elected, D(j).path) =>
            /\ IsSelector(D(j)) => Key(D(j)) \in DOMAIN elected
            /\ ScopedFlag(D(j)) => Key(D(j)) \in DOMAIN values
      /\ provided \subseteq DOMAIN values
    BY DEF Resolved
<1>5. DOMAIN more = DOMAIN values \cup {Key(D(n))}
    BY DEF Put
<1>6. ScopedFlag(D(n)) /\ ~IsSelector(D(n)) /\ LiveIn(elected, D(n).path)
    BY DEF IsSelector, ScopedFlag, IsFlag
<1>7. told \subseteq DOMAIN more
    BY <1>4, <1>5
<1>. HIDE DEF S, T, D, len, more
<1>8. \A k \in DOMAIN elected : \E j \in T :
            IsSelector(D(j)) /\ k = Key(D(j)) /\ LiveIn(elected, D(j).path)
    BY <1>3, <1>4
<1>9. \A k \in DOMAIN more : \E j \in T :
            \/ ScopedFlag(D(j)) /\ k = Key(D(j)) /\ LiveIn(elected, D(j).path)
            \/ IsSelector(D(j)) /\ \E x : k = PayloadKey(D(j), x)
    BY <1>3, <1>4, <1>5, <1>6
<1>10. after => \A j \in T : LiveIn(elected, D(j).path) =>
            /\ IsSelector(D(j)) => Key(D(j)) \in DOMAIN elected
            /\ ScopedFlag(D(j)) => Key(D(j)) \in DOMAIN more
    BY <1>3, <1>4, <1>5, <1>6
<1>. QED BY <1>2, <1>7, <1>8, <1>9, <1>10 DEF Resolved, S, T, D, len, more

ScopesOK == Resolved(scopes.next, scopes.elected, scopes.values, scopes.provided, problems = {})

LEMMA ResolvedNext ==
    ASSUME UNCHANGED <<input, path>>, NEW elected, NEW values, NEW provided,
           Resolve(elected, values, provided),
           NEW after, after <=> problems' = {},
           Resolved(scopes.next + 1, elected, values, provided, after)
    PROVE  ScopesOK'
<1>1. Command' = Command
    BY DEF Command, input
<1>2. /\ scopes'.next = scopes.next + 1 /\ scopes'.elected = elected
      /\ scopes'.values = values /\ scopes'.provided = provided
    BY DEF Resolve
<1>. QED BY <1>1, <1>2 DEF ScopesOK, Resolved

LEMMA ElectionResolves ==
    ASSUME Registered(app), InCommand, ScopesOK, UNCHANGED <<input, path>>,
           scopes.next \in 1..Len(Command.decls), IsSelector(Decl), Live(Decl),
           NEW choice, NEW via, Elect(choice, via)
    PROVE  ScopesOK'
<1>. DEFINE n == scopes.next
            raws == RawsAt(Positive(choice))
            alt == CHOOSE a \in ToSet(Decl.alts) : a.name = choice
            payload == Decl.kind = "member" /\ TakesValue(alt.schema) /\ raws # <<>>
            entry == <<ScopeOf(Decl, choice), "value">>
            x == [choice |-> choice, via |-> via]
            more == IF payload THEN Put(scopes.values, entry, <<raws[1]>>) ELSE scopes.values
            told == IF payload THEN scopes.provided \cup {entry} ELSE scopes.provided
<1>1. Resolve(Put(scopes.elected, Key(Decl), x), more, told)
      /\ (problems' = {} => problems = {})
    BY DEF Elect
<1>2. Decl = Command.decls[n] /\ entry = PayloadKey(Decl, choice)
    BY DEF Decl, PayloadKey
<1>3. \/ more = scopes.values /\ told = scopes.provided
      \/ DOMAIN more = DOMAIN scopes.values \cup {entry} /\ told = scopes.provided \cup {entry}
    BY DEF Put
<1>. HIDE DEF more, told, x, entry
<1>4. PICK before \in BOOLEAN, after \in BOOLEAN :
            (before <=> problems = {}) /\ (after <=> problems' = {})
    OBVIOUS
<1>5. Resolved(n, scopes.elected, scopes.values, scopes.provided, before)
    BY <1>4 DEF ScopesOK, Resolved
<1>6. after => before
    BY <1>1, <1>4
<1>7. LiveIn(scopes.elected, Command.decls[n].path) /\ IsSelector(Command.decls[n])
    BY <1>2 DEF Live
<1>. HIDE DEF n
<1>8. n \in 1..Len(Command.decls)
    BY DEF n
<1>9. Resolved(n + 1, Put(scopes.elected, Key(Decl), x), more, told, after)
    BY <1>2, <1>3, <1>5, <1>6, <1>7, <1>8, Electing
<1>. QED BY <1>1, <1>4, <1>9, ResolvedNext DEF n

LEMMA ValueResolves ==
    ASSUME Registered(app), InCommand, ScopesOK, UNCHANGED <<input, path>>,
           scopes.next \in 1..Len(Command.decls), ScopedFlag(Decl), Live(Decl),
           NEW value, NEW told, told \subseteq scopes.provided \cup {Key(Decl)},
           Resolve(scopes.elected, Put(scopes.values, Key(Decl), value), told),
           UNCHANGED problems
    PROVE  ScopesOK'
<1>. DEFINE n == scopes.next
<1>1. Decl = Command.decls[n]
    BY DEF Decl
<1>2. PICK before \in BOOLEAN : before <=> problems = {}
    OBVIOUS
<1>3. Resolved(n, scopes.elected, scopes.values, scopes.provided, before)
    BY <1>2 DEF ScopesOK, Resolved
<1>4. LiveIn(scopes.elected, Command.decls[n].path) /\ ScopedFlag(Command.decls[n])
    BY <1>1 DEF Live
<1>. HIDE DEF n
<1>5. n \in 1..Len(Command.decls) /\ (before => before)
    BY DEF n
<1>6. Resolved(n + 1, scopes.elected, Put(scopes.values, Key(Decl), value), told, before)
    BY <1>1, <1>3, <1>4, <1>5, Valuing
<1>7. before <=> problems' = {}
    BY <1>2
<1>. QED BY <1>6, <1>7, ResolvedNext DEF n

\* A declaration that is passed is closed or a flag of the root, or was refused.
LEMMA PassResolves ==
    ASSUME Registered(app), InCommand, ScopesOK, UNCHANGED <<input, path>>,
           scopes.next \in 1..Len(Command.decls), PassDecl,
           problems' = {} => /\ problems = {}
                             /\ ~Live(Decl) \/ (~IsSelector(Decl) /\ ~ScopedFlag(Decl))
    PROVE  ScopesOK'
<1>. DEFINE n == scopes.next
<1>1. Decl = Command.decls[n]
    BY DEF Decl
<1>2. PICK before \in BOOLEAN, after \in BOOLEAN :
            (before <=> problems = {}) /\ (after <=> problems' = {})
    OBVIOUS
<1>3. Resolved(n, scopes.elected, scopes.values, scopes.provided, before)
    BY <1>2 DEF ScopesOK, Resolved
<1>4. after => /\ before
               /\ \/ ~LiveIn(scopes.elected, Command.decls[n].path)
                  \/ ~IsSelector(Command.decls[n]) /\ ~ScopedFlag(Command.decls[n])
    BY <1>1, <1>2 DEF Live
<1>. HIDE DEF n
<1>5. n \in 1..Len(Command.decls)
    BY DEF n
<1>6. Resolved(n + 1, scopes.elected, scopes.values, scopes.provided, after)
    BY <1>3, <1>4, <1>5, PassingOn
<1>7. Resolve(scopes.elected, scopes.values, scopes.provided)
    BY DEF PassDecl
<1>. QED BY <1>2, <1>6, <1>7, ResolvedNext DEF n

LEMMA ScopesResolve ==
    ASSUME HandInv, ScopesOK, PassOver \/ ElectByToken \/ ElectByMembers \/ ResolveScoped
    PROVE  ScopesOK'
<1>1. /\ phase = "scopes" /\ scopes.next <= Len(Command.decls)
      /\ UNCHANGED <<input, path>>
    BY DEF PassOver, ElectByToken, ElectByMembers, ResolveScoped, Scoping, ScopeFrame
<1>2. Registered(app) /\ InCommand
    BY <1>1 DEF HandInv, InputsOK, Parsing
<1>3. scopes.next \in 1..Len(Command.decls)
  <2>1. Len(Command.decls) \in Nat
      BY <1>2, TreeOfTheCommand
  <2>2. scopes.next \in 1..(Len(Command.decls) + 1)
      BY DEF ScopesOK, Resolved
  <2>. QED BY <1>1, <2>1, <2>2
<1>4. ASSUME NEW stage, Undecided(stage)
      PROVE  ScopesOK'
  <2>1. PassDecl /\ problems' # {}
      BY <1>4 DEF Undecided
  <2>. QED BY <1>1, <1>2, <1>3, <2>1, PassResolves
<1>5. ASSUME IsSelector(Decl), Live(Decl), NEW choice, NEW via, Elect(choice, via)
      PROVE  ScopesOK'
    BY <1>1, <1>2, <1>3, <1>5, ElectionResolves
<1>6. ASSUME IsSelector(Decl), Live(Decl), ElectDefault
      PROVE  ScopesOK'
  <2>1. \E stage, choice, via : Undecided(stage) \/ Elect(choice, via)
      BY <1>6 DEF ElectDefault
  <2>. QED BY <1>4, <1>5, <1>6, <2>1
<1>7. ASSUME IsSelector(Decl), Live(Decl), NEW choice, NEW via, ElectNamed(choice, via)
      PROVE  ScopesOK'
  <2>1. Undecided("election") \/ Elect(choice, via)
      BY <1>7 DEF ElectNamed
  <2>. QED BY <1>4, <1>5, <1>7, <2>1
<1>8. CASE PassOver
  <2>1. PassDecl /\ problems' = problems /\ (~Live(Decl) \/ (IsFlag(Decl) /\ Decl.path = <<>>))
      BY <1>8 DEF PassOver
  <2>2. IsFlag(Decl) /\ Decl.path = <<>> => ~IsSelector(Decl) /\ ~ScopedFlag(Decl)
      BY DEF IsFlag, IsSelector, ScopedFlag
  <2>. QED BY <1>1, <1>2, <1>3, <2>1, <2>2, PassResolves
<1>9. CASE ElectByToken
  <2>1. IsSelector(Decl) /\ Live(Decl)
      BY <1>9 DEF ElectByToken, IsSelector
  <2>2. \E stage, choice, via : Undecided(stage) \/ ElectNamed(choice, via) \/ ElectDefault
      BY <1>9 DEF ElectByToken
  <2>. QED BY <1>4, <1>6, <1>7, <2>1, <2>2
<1>10. CASE ElectByMembers
  <2>1. IsSelector(Decl) /\ Live(Decl)
      BY <1>10 DEF ElectByMembers, IsSelector
  <2>2. \E stage, choice, via : Undecided(stage) \/ Elect(choice, via) \/ ElectDefault
      BY <1>10 DEF ElectByMembers
  <2>. QED BY <1>4, <1>5, <1>6, <2>1, <2>2
<1>11. CASE ResolveScoped
  <2>1. ScopedFlag(Decl) /\ Live(Decl)
      BY <1>11 DEF ResolveScoped, ScopedFlag
  <2>2. ASSUME NEW got, Keep(got)
        PROVE  ScopesOK'
    <3>1. \/ /\ Resolve(scopes.elected, Put(scopes.values, Key(Decl), got.value),
                        scopes.provided \cup {Key(Decl)})
             /\ UNCHANGED problems
          \/ PassDecl /\ problems' # {}
        BY <2>2 DEF Keep
    <3>2. CASE /\ Resolve(scopes.elected, Put(scopes.values, Key(Decl), got.value),
                          scopes.provided \cup {Key(Decl)})
               /\ UNCHANGED problems
      <4>. DEFINE told == scopes.provided \cup {Key(Decl)}
                  value == got.value
      <4>1. told \subseteq scopes.provided \cup {Key(Decl)}
            /\ Resolve(scopes.elected, Put(scopes.values, Key(Decl), value), told)
          BY <3>2
      <4>. HIDE DEF told, value
      <4>. QED BY <1>1, <1>2, <1>3, <2>1, <3>2, <4>1, ValueResolves
    <3>3. CASE PassDecl /\ problems' # {}
        BY <1>1, <1>2, <1>3, <3>3, PassResolves
    <3>. QED BY <3>1, <3>2, <3>3
  <2>3. \/ \E stage : Undecided(stage)
        \/ \E got : Keep(got)
        \/ /\ Resolve(scopes.elected, Put(scopes.values, Key(Decl), Decl.dflt), scopes.provided)
           /\ UNCHANGED problems
      BY <1>11 DEF ResolveScoped
  <2>4. CASE /\ Resolve(scopes.elected, Put(scopes.values, Key(Decl), Decl.dflt), scopes.provided)
             /\ UNCHANGED problems
    <3>. DEFINE told == scopes.provided
                value == Decl.dflt
    <3>1. told \subseteq scopes.provided \cup {Key(Decl)}
          /\ Resolve(scopes.elected, Put(scopes.values, Key(Decl), value), told)
        BY <2>4
    <3>. HIDE DEF told, value
    <3>. QED BY <1>1, <1>2, <1>3, <2>1, <2>4, <3>1, ValueResolves
  <2>. QED BY <1>4, <2>2, <2>3, <2>4
<1>. QED BY <1>8, <1>9, <1>10, <1>11

-----------------------------------------------------------------------------
(* The scopes of a run: what is open when the handler is called.             *)

ScopesDone ==
    /\ scopes.next = Len(Command.decls) + 1 /\ problems = {}
    /\ \A e \in ToSet(typed) : IsScopedEntry(e) => e.names[1] \in LiveNames

EarlyPhases == ArgvPhases \cup {"tokens"}
Complete == phase = "deliver" \/ Ran

ScopeInv ==
    /\ HandInv
    /\ phase \in EarlyPhases => scopes = NoScopes
    /\ Stored => ScopesOK
    /\ Complete => ScopesDone

\* The resolution, and what it is read from, stay as they are.
LEMMA ScopesStay ==
    ASSUME UNCHANGED <<input, path, typed, scopes, problems>>
    PROVE  ScopesOK' = ScopesOK /\ ScopesDone' = ScopesDone
<1>1. Command' = Command
    BY DEF Command, input
<1>2. LiveNames' = LiveNames
    BY <1>1 DEF LiveNames, Live
<1>. QED BY <1>1, <1>2 DEF ScopesOK, Resolved, ScopesDone

\* Nothing is resolved yet.
LEMMA NothingResolved ==
    ASSUME Registered(app), InCommand, NEW sound
    PROVE  Resolved(NoScopes.next, NoScopes.elected, NoScopes.values, NoScopes.provided, sound)
<1>1. Len(Command.decls) \in Nat
    BY TreeOfTheCommand
<1>2. NoScopes.next = 1 /\ NoScopes.elected = <<>> /\ NoScopes.values = <<>> /\ NoScopes.provided = {}
    BY DEF NoScopes
<1>3. 1 \in 1..(Len(Command.decls) + 1) /\ 1..(1 - 1) = {}
    BY <1>1
<1>. QED BY <1>2, <1>3 DEF Resolved

LEMMA ScopeInvSteps ==
    ASSUME ScopeInv, [InvocationNext]_vars, HandInv'
    PROVE  ScopeInv'
<1>1. HandInv /\ InputsOK /\ Registered(app)
    BY DEF ScopeInv, HandInv, InputsOK
<1>2. CASE ArgvNext /\ UNCHANGED parseVars
  <2>1. phase \in ArgvPhases
      BY <1>2 DEF ArgvNext, ArgvPhases, Begin, ScanReserved, ScanConfig, ScanExit, ScanSkip, ScanEnd,
           Scanning, RegionToken, RegionEnd, Scanned, GlobalInline, GlobalNegation, GlobalFlag,
           GlobalsEnd, RouteTop, RouteFramework, RouteCommand
  <2>2. ArgvInv
      BY <1>1 DEF HandInv, ArgvInv
  <2>3. ArgvStepOK
      BY <1>2, <2>2, ScanSteps, RegionSteps, GlobalSteps, RouteSteps DEF ArgvNext
  <2>4. scopes' = NoScopes
      BY <1>2, <2>1 DEF ScopeInv, EarlyPhases, parseVars
  <2>5. ~Stored' /\ ~Complete'
      BY <2>3 DEF ArgvStepOK, ArgvPhases, Stored, Complete, Ran
  <2>. QED BY SMTT(60), <2>4, <2>5 DEF ScopeInv
<1>3. CASE \/ TakeWord \/ TakeStop \/ TakeInline \/ TakeNegation \/ TakeUnset \/ TakeFlag
           \/ TakeUnknown
  <2>1. phase = "tokens" /\ phase' = "tokens" /\ scopes' = scopes
      BY <1>3 DEF TakeWord, TakeStop, TakeInline, TakeNegation, TakeUnset, TakeFlag, TakeUnknown,
           Reading, TokenFrame
  <2>2. ~Stored' /\ ~Complete'
      BY <2>1 DEF Stored, Complete, Ran
  <2>. QED BY <2>1, <2>2 DEF ScopeInv, EarlyPhases
<1>4. CASE TokensEnd
  <2>1. phase = "tokens" /\ phase' = "scopes" /\ scopes' = scopes /\ UNCHANGED <<input, path>>
      BY <1>4 DEF TokensEnd
  <2>2. InCommand /\ scopes = NoScopes
      BY <1>1, <2>1 DEF ScopeInv, HandInv, Parsing, EarlyPhases
  <2>3. PICK after \in BOOLEAN : after <=> problems' = {}
      OBVIOUS
  <2>4. Resolved(scopes.next, scopes.elected, scopes.values, scopes.provided, after)
      BY <1>1, <2>2, NothingResolved
  <2>5. Command' = Command
      BY <2>1 DEF Command, input
  <2>6. ScopesOK'
      BY <2>1, <2>3, <2>4, <2>5 DEF ScopesOK, Resolved
  <2>7. ~Complete' /\ phase' \notin EarlyPhases
      BY <2>1 DEF Complete, Ran, EarlyPhases, ArgvPhases
  <2>. QED BY <2>6, <2>7 DEF ScopeInv
<1>5. CASE PassOver \/ ElectByToken \/ ElectByMembers \/ ResolveScoped
  <2>1. phase = "scopes" /\ phase' = "scopes"
      BY <1>5 DEF PassOver, ElectByToken, ElectByMembers, ResolveScoped, Scoping, ScopeFrame
  <2>2. ScopesOK
      BY <2>1 DEF ScopeInv, Stored
  <2>3. ScopesOK'
      BY <1>1, <1>5, <2>2, ScopesResolve
  <2>4. ~Complete' /\ phase' \notin EarlyPhases
      BY <2>1 DEF Complete, Ran, EarlyPhases, ArgvPhases
  <2>. QED BY <2>3, <2>4 DEF ScopeInv
<1>6. CASE ScopesEnd
  <2>1. /\ phase = "scopes" /\ scopes.next > Len(Command.decls)
        /\ UNCHANGED <<input, path, typed, scopes>>
      BY <1>6 DEF ScopesEnd
  <2>2. InCommand /\ ScopesOK
      BY <1>1, <2>1 DEF ScopeInv, HandInv, Parsing, Stored
  <2>3. \/ /\ phase' = "deliver" /\ problems = {} /\ problems' = {}
           /\ \A e \in ToSet(typed) : IsScopedEntry(e) => e.names[1] \in LiveNames
        \/ phase' = "done" /\ outcome'.kind # "command"
    <3>. DEFINE strayed == \E e \in ToSet(typed) : IsScopedEntry(e) /\ e.names[1] \notin LiveNames
                all == problems \cup (IF strayed THEN {"scope"} ELSE {})
    <3>1. problems' = all /\ (\/ all = {} /\ phase' = "deliver"
                              \/ all # {} /\ \E stage : Refuse(stage))
        BY <1>6 DEF ScopesEnd
    <3>2. all = {} => problems = {} /\ ~strayed
        OBVIOUS
    <3>. QED BY <3>1, <3>2, FinishesAs
  <2>4. CASE phase' = "done" /\ outcome'.kind # "command"
    <3>1. ~Stored' /\ ~Complete' /\ phase' \notin EarlyPhases
        BY <2>4 DEF Stored, Complete, Ran, EarlyPhases, ArgvPhases
    <3>. QED BY <3>1 DEF ScopeInv
  <2>5. CASE /\ phase' = "deliver" /\ problems = {} /\ problems' = {}
             /\ \A e \in ToSet(typed) : IsScopedEntry(e) => e.names[1] \in LiveNames
    <3>1. scopes.next = Len(Command.decls) + 1
      <4>1. Len(Command.decls) \in Nat /\ scopes.next \in 1..(Len(Command.decls) + 1)
          BY <1>1, <2>2, TreeOfTheCommand DEF ScopesOK, Resolved
      <4>. QED BY <2>1, <4>1
    <3>2. ScopesOK /\ ScopesDone
        BY <2>2, <2>5, <3>1 DEF ScopesDone
    <3>3. ScopesOK' /\ ScopesDone'
        BY <2>1, <2>5, <3>2, ScopesStay
    <3>4. phase' \notin EarlyPhases
        BY <2>5 DEF EarlyPhases, ArgvPhases
    <3>. QED BY <3>3, <3>4 DEF ScopeInv
  <2>. QED BY <2>3, <2>4, <2>5
<1>7. CASE Deliver
  <2>1. phase = "deliver" /\ UNCHANGED <<input, path, typed, scopes, problems>>
      BY <1>7 DEF Deliver, parseVars
  <2>2. ScopesOK' /\ ScopesDone'
      BY <2>1, ScopesStay DEF ScopeInv, Stored, Complete
  <2>3. phase' \notin EarlyPhases
      BY <1>7 DEF Deliver, Finish, Refuse, EarlyPhases, ArgvPhases
  <2>. QED BY <2>2, <2>3 DEF ScopeInv
<1>8. CASE UNCHANGED vars
  <2>1. UNCHANGED <<input, path, typed, scopes, problems, phase, outcome>>
      BY <1>8 DEF vars, argvVars, parseVars, input
  <2>2. ScopesOK' = ScopesOK /\ ScopesDone' = ScopesDone
      BY SMTT(60), <2>1, ScopesStay
  <2>. QED BY <2>1, <2>2 DEF ScopeInv, Stored, Complete, Ran
<1>. QED BY <1>2, <1>3, <1>4, <1>5, <1>6, <1>7, <1>8 DEF InvocationNext, CommandNext

-----------------------------------------------------------------------------
(* What a handler sees of the scopes.                                        *)

\* No declaration of a scope has the name of its payload.
LEMMA PayloadsAreApart ==
    ASSUME Registered(app), InCommand, NEW i \in 1..Len(Command.decls),
           NEW j \in 1..Len(Command.decls), IsSelector(Command.decls[j]), NEW c
    PROVE  Key(Command.decls[i]) # PayloadKey(Command.decls[j], c)
<1>. SUFFICES ASSUME Key(Command.decls[i]) = PayloadKey(Command.decls[j], c) PROVE FALSE
    OBVIOUS
<1>. DEFINE decls == Command.decls
            p == decls[i].path
            q == decls[j].path
            step == <<decls[j].name, c>>
            k == Len(q) + 1
<1>1. p = Append(q, step) /\ decls[i].name = "value"
    BY DEF Key, PayloadKey, ScopeOf
<1>2. q \in Seq(STRING \X STRING)
    BY TreeOfTheCommand
<1>3. k \in DOMAIN p /\ SubSeq(p, 1, k - 1) = q /\ p[k] = step
  <2>. HIDE DEF p, q, step
  <2>. DEFINE T == (STRING \X STRING) \cup {step}
  <2>1. q \in Seq(T) /\ step \in T
      BY <1>2
  <2>. HIDE DEF T
  <2>2. k \in DOMAIN p /\ p[k] = step /\ Len(q) \in Nat /\ k - 1 = Len(q)
      BY <1>1, <2>1
  <2>3. SubSeq(p, 1, Len(q)) = q
      BY SMTT(60), <1>1, <2>1
  <2>. QED BY <2>2, <2>3
<1>4. StepKey(p, k) = Key(decls[j]) /\ p[k][2] = c
  <2>1. p[k][1] = decls[j].name /\ p[k][2] = c
      BY SMTT(60), <1>3
  <2>. QED BY SMTT(60), <1>3, <2>1 DEF StepKey, Key
<1>5. PICK m \in 1..(i - 1) : Key(decls[m]) = StepKey(p, k) /\ p[k][2] \in AltNames(decls[m])
    BY <1>3, TreeOfTheCommand
<1>6. Len(decls) \in Nat
    BY TreeOfTheCommand
<1>7. m \in 1..Len(decls)
    BY <1>6
<1>8. m = j
    BY <1>4, <1>5, <1>7, TreeOfTheCommand
<1>9. c \in AltNames(decls[j])
    BY <1>4, <1>5, <1>8
<1>10. decls[j] \in ToSet(decls) /\ decls[i] \in ToSet(decls)
    BY TreeOfTheCommand
<1>11. SelectorOK(Command, decls[j])
    BY SMTT(60), <1>10, RegisteredCommand
<1>12. decls[i] \in ScopeContents(Command, ScopeOf(decls[j], c))
    BY <1>1, <1>10 DEF ScopeContents, ScopeOf
<1>13. decls[i].name # "value"
    BY <1>9, <1>11, <1>12 DEF SelectorOK
<1>. QED BY <1>1, <1>13

\* When the whole tree is resolved a selector is elected, and a scoped flag has
\* a value, exactly when it is live.
LEMMA LiveOnesAreResolved ==
    ASSUME Registered(app), InCommand, NEW elected, NEW values, NEW provided,
           Resolved(Len(Command.decls) + 1, elected, values, provided, TRUE),
           NEW j \in 1..Len(Command.decls)
    PROVE  LET d == Command.decls[j]
           IN  /\ IsSelector(d) => (Key(d) \in DOMAIN elected <=> LiveIn(elected, d.path))
               /\ ScopedFlag(d) => (Key(d) \in DOMAIN values <=> LiveIn(elected, d.path))
               /\ IsSelector(d) => Key(d) \notin DOMAIN values
               /\ ~IsSelector(d) => Key(d) \notin DOMAIN elected
<1>. DEFINE D(i) == Command.decls[i]
            n == Len(Command.decls)
<1>1. n \in Nat /\ \A i, m \in 1..n : Key(D(i)) = Key(D(m)) => i = m
    BY TreeOfTheCommand
<1>2. (n + 1) - 1 = n
    BY <1>1
<1>3. /\ \A k \in DOMAIN elected : \E i \in 1..((n + 1) - 1) :
            IsSelector(D(i)) /\ k = Key(D(i)) /\ LiveIn(elected, D(i).path)
      /\ \A k \in DOMAIN values : \E i \in 1..((n + 1) - 1) :
            \/ ScopedFlag(D(i)) /\ k = Key(D(i)) /\ LiveIn(elected, D(i).path)
            \/ IsSelector(D(i)) /\ \E c : k = PayloadKey(D(i), c)
      /\ \A i \in 1..((n + 1) - 1) : LiveIn(elected, D(i).path) =>
            /\ IsSelector(D(i)) => Key(D(i)) \in DOMAIN elected
            /\ ScopedFlag(D(i)) => Key(D(i)) \in DOMAIN values
    BY DEF Resolved
<1>4. \A i \in 1..n : IsSelector(D(i)) => \A c : Key(D(j)) # PayloadKey(D(i), c)
    BY PayloadsAreApart
<1>5. ScopedFlag(D(j)) => ~IsSelector(D(j))
    BY DEF ScopedFlag, IsFlag, IsSelector
<1>6. j \in 1..n
    OBVIOUS
<1>7. /\ \A k \in DOMAIN elected : \E i \in 1..n :
            IsSelector(D(i)) /\ k = Key(D(i)) /\ LiveIn(elected, D(i).path)
      /\ \A k \in DOMAIN values : \E i \in 1..n :
            \/ ScopedFlag(D(i)) /\ k = Key(D(i)) /\ LiveIn(elected, D(i).path)
            \/ IsSelector(D(i)) /\ \E c : k = PayloadKey(D(i), c)
      /\ \A i \in 1..n : LiveIn(elected, D(i).path) =>
            /\ IsSelector(D(i)) => Key(D(i)) \in DOMAIN elected
            /\ ScopedFlag(D(i)) => Key(D(i)) \in DOMAIN values
    BY <1>2, <1>3
<1>. HIDE DEF D, n
<1>8. Key(D(j)) \in DOMAIN elected => IsSelector(D(j)) /\ LiveIn(elected, D(j).path)
    BY <1>1, <1>6, <1>7
<1>9. Key(D(j)) \in DOMAIN values => ScopedFlag(D(j)) /\ LiveIn(elected, D(j).path)
    BY <1>1, <1>4, <1>6, <1>7
<1>10. LiveIn(elected, D(j).path) => /\ IsSelector(D(j)) => Key(D(j)) \in DOMAIN elected
                                     /\ ScopedFlag(D(j)) => Key(D(j)) \in DOMAIN values
    BY <1>6, <1>7
<1>. QED BY <1>5, <1>8, <1>9, <1>10 DEF D

Opening == Handing /\ ScopesOK /\ ScopesDone

LEMMA OpeningFacts ==
    ASSUME Opening
    PROVE  /\ Registered(app) /\ InCommand /\ Handing
           /\ Resolved(Len(Command.decls) + 1, scopes.elected, scopes.values, scopes.provided, TRUE)
           /\ scopes.provided \subseteq DOMAIN scopes.values
           /\ \A e \in ToSet(typed) : IsScopedEntry(e) => e.names[1] \in LiveNames
BY DEF Opening, Handing, ScopesOK, ScopesDone, Resolved

LEMMA LiveSelectors ==
    ASSUME Opening, NEW j \in 1..Len(Command.decls), IsSelector(Command.decls[j])
    PROVE  Key(Command.decls[j]) \in DOMAIN scopes.elected <=> Live(Command.decls[j])
BY OpeningFacts, LiveOnesAreResolved DEF Live

\* Below the root a handler sees of a declaration that it is live, and of a
\* selector its choice.
LEMMA ScopedSeen ==
    ASSUME Opening, NEW j \in 1..Len(Command.decls), Command.decls[j].path # <<>>
    PROVE  LET d == Command.decls[j]
           IN  /\ Key(d) \in DOMAIN outcome.scoped <=> Live(d)
               /\ IsSelector(d) /\ Live(d) => outcome.scoped[Key(d)] = <<scopes.elected[Key(d)].choice>>
               /\ ~Live(d) => Key(d) \notin outcome.provided
<1>. DEFINE d == Command.decls[j]
            below == {key \in DOMAIN scopes.elected : key[1] # <<>>}
<1>1. /\ IsSelector(d) => (Key(d) \in DOMAIN scopes.elected <=> Live(d))
      /\ ScopedFlag(d) => (Key(d) \in DOMAIN scopes.values <=> Live(d))
      /\ IsSelector(d) => Key(d) \notin DOMAIN scopes.values
      /\ ~IsSelector(d) => Key(d) \notin DOMAIN scopes.elected
    BY OpeningFacts, LiveOnesAreResolved DEF Live
<1>2. ScopedFlag(d) \/ IsSelector(d)
  <2>1. d.kind \in {"flag", "token", "member"}
      BY OpeningFacts, TreeOfTheCommand
  <2>. QED BY <2>1 DEF ScopedFlag, IsSelector, IsFlag
<1>3. /\ outcome.scoped = Over(scopes.values, ScopedOf(scopes.elected))
      /\ outcome.provided = scopes.provided \cup ProvidedOf(scopes.elected)
    BY DEF Opening, Handing, HandedOver
<1>4. Key(d)[1] # <<>>
    BY DEF Key
<1>5. /\ DOMAIN ScopedOf(scopes.elected) = below
      /\ \A k \in below : ScopedOf(scopes.elected)[k] = <<scopes.elected[k].choice>>
      /\ ProvidedOf(scopes.elected) \subseteq below
    BY DEF ScopedOf, ProvidedOf
<1>6. Key(d) \in below <=> Key(d) \in DOMAIN scopes.elected
    BY <1>4
<1>. HIDE DEF d, below
<1>7. Key(d) \in DOMAIN outcome.scoped <=> Key(d) \in DOMAIN scopes.values \cup below
    BY <1>3, <1>5 DEF Over
<1>8. Key(d) \in DOMAIN outcome.scoped <=> Live(d)
    BY <1>1, <1>2, <1>6, <1>7 DEF ScopedFlag, IsSelector, IsFlag
<1>9. ASSUME IsSelector(d), Live(d)
      PROVE  outcome.scoped[Key(d)] = <<scopes.elected[Key(d)].choice>>
    BY <1>1, <1>3, <1>5, <1>6, <1>9 DEF Over
<1>10. ASSUME ~Live(d)
       PROVE  Key(d) \notin outcome.provided
  <2>1. Key(d) \notin DOMAIN scopes.values /\ Key(d) \notin below
      BY <1>1, <1>2, <1>6, <1>10 DEF ScopedFlag, IsSelector, IsFlag
  <2>. QED BY <1>3, <1>5, <2>1, OpeningFacts
<1>. QED BY <1>8, <1>9, <1>10 DEF d

\* A handler that is shown the selector at the root of a path sees the path
\* open exactly when its scope is live.
Visible(p) == \A s \in RootSelectors : p # <<>> /\ s.name = p[1][1] => Shown(s)

LEMMA StepsAreSeen ==
    ASSUME Opening, NEW j \in 1..Len(Command.decls), NEW k \in DOMAIN Command.decls[j].path,
           Visible(Command.decls[j].path)
    PROVE  LET p == Command.decls[j].path
               key == StepKey(p, k)
           IN  SeenChoice(p, k) = <<p[k][2]>> <=>
                    key \in DOMAIN scopes.elected /\ scopes.elected[key].choice = p[k][2]
<1>. DEFINE p == Command.decls[j].path
            key == StepKey(p, k)
            n == Len(Command.decls)
<1>1. n \in Nat /\ p \in Seq(STRING \X STRING)
    BY OpeningFacts, TreeOfTheCommand
<1>2. PICK m \in 1..(j - 1) : /\ IsSelector(Command.decls[m]) /\ Key(Command.decls[m]) = key
                              /\ p[k][2] \in AltNames(Command.decls[m])
    BY OpeningFacts, TreeOfTheCommand
<1>. DEFINE s == Command.decls[m]
            want == p[k][2]
<1>3. m \in 1..n
    BY SMTT(60), <1>1
<1>4. s \in ToSet(Command.decls) /\ s.path = SubSeq(p, 1, k - 1) /\ s.name = p[k][1]
    BY <1>2, <1>3, OpeningFacts, TreeOfTheCommand DEF Key, StepKey
<1>5. want # "(absent)"
  <2>1. s \in DeclarationType
      BY <1>4, OpeningFacts, RegisteredCommand
  <2>2. s.alts \in Seq(AlternativeType)
      BY <2>1 DEF DeclarationType
  <2>3. \A i \in DOMAIN s.alts : s.alts[i].name \in Raw
    <3>. HIDE DEF s
    <3>1. \A i \in DOMAIN s.alts : s.alts[i] \in AlternativeType
        BY <2>2
    <3>. QED BY <3>1 DEF AlternativeType
  <2>4. want \in Raw
    <3>1. want \in NamesOf(s.alts)
        BY <1>2 DEF AltNames
    <3>. HIDE DEF want, s
    <3>. QED BY <2>3, <3>1 DEF NamesOf
  <2>. HIDE DEF want
  <2>. QED BY <2>4 DEF Raw
<1>6. k \in 1..Len(p) /\ Len(p) \in Nat /\ p # <<>>
    BY <1>1
<1>7. CASE k = 1
  <2>1. s.path = <<>> /\ key = <<<<>>, s.name>>
    <3>1. SubSeq(p, 1, 0) = <<>>
      <4>. HIDE DEF p
      <4>. QED BY <1>1
    <3>2. s.path = <<>>
        BY <1>4, <1>7, <3>1
    <3>3. key = <<s.path, s.name>>
        BY <1>2 DEF Key
    <3>. QED BY <3>2, <3>3
  <2>2. s \in RootSelectors /\ s.name \in SelectorNames /\ s.name \in RootNames
    <3>1. s \in RootDecls(Command)
        BY <1>4, <2>1 DEF RootDecls
    <3>. QED BY <1>2, <3>1 DEF RootSelectors, SelectorNames, RootNames, Names
  <2>3. Shown(s)
      BY <1>4, <1>6, <1>7, <2>2 DEF Visible
  <2>4. s.name \in DOMAIN Settled /\ Settled[s.name].value = <<scopes.elected[key].choice>>
    <3>1. /\ DOMAIN Chosen = SelectorNames /\ SelectorNames \subseteq DOMAIN Gathered
          /\ \A x \in SelectorNames : Gathered[x] = Chosen[x]
        BY OpeningFacts, GatheredFlags
    <3>2. Extends(Settled, Gathered)
        BY OpeningFacts, SettledFlags
    <3>3. Chosen[s.name] = Sourced(<<scopes.elected[<<<<>>, s.name>>].choice>>,
                                   scopes.elected[<<<<>>, s.name>>].via)
        BY SMTT(60), <2>2 DEF Chosen, SelectorStore, SelectorNames
    <3>4. Settled[s.name].value = <<scopes.elected[<<<<>>, s.name>>].choice>>
        BY <2>2, <3>1, <3>2, <3>3 DEF Extends, Sourced
    <3>5. s.name \in DOMAIN Settled
        BY <2>2, <3>1, <3>2 DEF Extends
    <3>. QED BY <2>1, <3>4, <3>5
  <2>5. outcome.kwargs[s.name] = <<scopes.elected[key].choice>>
    <3>1. s.name \notin NamesOf(Command.args) \/ (s.name \in SelectorNames /\ s.name \in NamesOf(app.globals))
        BY <1>2, <2>2, <2>3 DEF Shown
    <3>2. outcome.kwargs[s.name] = Settled[s.name].value
        BY <2>2, <2>4, <3>1, OpeningFacts, HandedValues
    <3>. QED BY <2>4, <3>2
  <2>6. key \in DOMAIN scopes.elected
    <3>1. Live(s)
        BY <2>1 DEF Live, LiveIn
    <3>2. Key(s) \in DOMAIN scopes.elected <=> Live(s)
        BY <1>2, <1>3, LiveSelectors
    <3>. QED BY <1>2, <3>1, <3>2
  <2>7. SeenChoice(p, k) = outcome.kwargs[s.name]
      BY <1>4, <1>7 DEF SeenChoice
  <2>. HIDE DEF want, key, p, s
  <2>8. SeenChoice(p, k) = <<want>> <=> scopes.elected[key].choice = want
      BY <2>5, <2>7
  <2>. QED BY <2>6, <2>8 DEF want, key, p, s
<1>8. CASE k # 1
  <2>1. s.path # <<>>
    <3>. DEFINE front == SubSeq(p, 1, k - 1)
    <3>1. Len(front) = k - 1 /\ k - 1 # 0
      <4>. HIDE DEF p
      <4>. QED BY <1>1, <1>6, <1>8
    <3>2. front # <<>>
      <4>. HIDE DEF front
      <4>. QED BY <3>1
    <3>. QED BY <1>4, <3>2
  <2>2. /\ key \in DOMAIN outcome.scoped <=> Live(s)
        /\ Live(s) => outcome.scoped[key] = <<scopes.elected[key].choice>>
      BY <1>2, <1>3, <2>1, ScopedSeen
  <2>3. key \in DOMAIN scopes.elected <=> Live(s)
    <3>1. Key(s) \in DOMAIN scopes.elected <=> Live(s)
        BY <1>2, <1>3, LiveSelectors
    <3>. QED BY <1>2, <3>1
  <2>4. SeenChoice(p, k) = IF key \in DOMAIN outcome.scoped THEN outcome.scoped[key] ELSE Absent
      BY <1>8 DEF SeenChoice, StepKey
  <2>. HIDE DEF want, key, p, s
  <2>5. Absent # <<want>>
      BY <1>5 DEF Absent
  <2>6. <<scopes.elected[key].choice>> = <<want>> <=> scopes.elected[key].choice = want
      OBVIOUS
  <2>7. SeenChoice(p, k) = <<want>> <=> key \in DOMAIN scopes.elected /\ scopes.elected[key].choice = want
      BY <2>2, <2>3, <2>4, <2>5, <2>6
  <2>. QED BY <2>7 DEF want, key, p, s
<1>. QED BY <1>7, <1>8

LEMMA OpenIsLive ==
    ASSUME Opening, NEW j \in 1..Len(Command.decls), Visible(Command.decls[j].path)
    PROVE  Open(Command.decls[j].path) <=> Live(Command.decls[j])
<1>1. \A k \in DOMAIN Command.decls[j].path :
        SeenChoice(Command.decls[j].path, k) = <<Command.decls[j].path[k][2]>> <=>
            /\ StepKey(Command.decls[j].path, k) \in DOMAIN scopes.elected
            /\ scopes.elected[StepKey(Command.decls[j].path, k)].choice = Command.decls[j].path[k][2]
    BY StepsAreSeen
<1>. QED BY <1>1 DEF Open, Live, LiveIn, StepKey

\* A name on the command line belongs to the declaration that puts it there.
LEMMA NamesOfADeclaration ==
    /\ \A d : \A x \in ToSet(SurfaceNames(d)) : x.decl = d
    /\ \A e \in Entries(Command) : e.decl \in ToSet(Command.decls)
<1>1. ASSUME NEW d, NEW x \in ToSet(SurfaceNames(d))
      PROVE  x.decl = d
  <2>1. CASE d.kind # "member"
    <3>1. PICK y : y = [name |-> d.name, schema |-> d.schema, elects |-> "",
                        short |-> d.short, decl |-> d]
        OBVIOUS
    <3>2. SurfaceNames(d) = <<y>>
        BY <2>1, <3>1 DEF SurfaceNames
    <3>3. x \in {<<y>>[i] : i \in DOMAIN <<y>>}
        BY <3>2 DEF ToSet
    <3>4. x = y
        BY <3>3
    <3>. QED BY <3>1, <3>4
  <2>2. CASE d.kind = "member"
    <3>1. PICK i \in DOMAIN d.alts :
            x = [name |-> d.alts[i].name, schema |-> d.alts[i].schema,
                 elects |-> d.alts[i].name, short |-> d.alts[i].short, decl |-> d]
        BY <2>2 DEF SurfaceNames, ToSet
    <3>. QED BY <3>1
  <2>. QED BY <2>1, <2>2
<1>2. ASSUME NEW e \in Entries(Command)
      PROVE  e.decl \in ToSet(Command.decls)
  <2>1. PICK d \in ToSet(Command.decls) : e \in ToSet(SurfaceNames(d))
      BY DEF Entries
  <2>. QED BY <1>1, <2>1
<1>. QED BY <1>1, <1>2

\* Two scopes that exclude each other are opened by the same selector at the root.
LEMMA ExclusiveScopesShareARoot ==
    ASSUME NEW a \in Seq(STRING \X STRING), NEW b \in Seq(STRING \X STRING),
           ~SimultaneouslyElectable(a, b)
    PROVE  a # <<>> /\ b # <<>> /\ a[1][1] = b[1][1]
<1>1. PICK i \in DOMAIN a \cap DOMAIN b : SubSeq(a, 1, i - 1) = SubSeq(b, 1, i - 1) /\ a[i][1] = b[i][1]
    BY DEF SimultaneouslyElectable
<1>2. i \in 1..Len(a) /\ i \in 1..Len(b) /\ Len(a) \in Nat /\ Len(b) \in Nat
    BY <1>1
<1>3. CASE i = 1
    BY <1>1, <1>2, <1>3
<1>4. CASE i # 1
  <2>1. i - 1 \in 1..Len(a) /\ i - 1 \in 1..Len(b) /\ 1 \in 1..(i - 1)
      BY <1>2, <1>4
  <2>2. SubSeq(a, 1, i - 1)[1] = a[1] /\ SubSeq(b, 1, i - 1)[1] = b[1]
      BY <2>1
  <2>3. a[1] = b[1]
      BY <1>1, <2>2
  <2>4. a # <<>> /\ b # <<>>
      BY <1>2
  <2>. QED BY <2>3, <2>4
<1>. QED BY <1>3, <1>4

\* Every scoped token read names a declaration that is live, and so, if it
\* also names one in a closed scope, one the handler sees open.
LEMMA TypedNamesAreOpen ==
    ASSUME Opening, NEW j \in 1..Len(Command.decls), Visible(Command.decls[j].path),
           ~Open(Command.decls[j].path),
           NEW x \in ToSet(SurfaceNames(Command.decls[j])), Given(x.name) # {}
    PROVE  \E e \in Entries(Command) : e.name = x.name /\ Open(e.decl.path)
<1>. DEFINE d == Command.decls[j]
<1>1. PICK t \in ToSet(typed) : IsScopedEntry(t) /\ t.names = <<x.name>>
    BY DEF Given, ToSet
<1>2. x.name \in LiveNames
  <2>1. t.names[1] = x.name
      BY <1>1
  <2>. QED BY <1>1, <2>1, OpeningFacts
<1>3. PICK e \in Entries(Command) : e.name = x.name /\ Live(e.decl)
    BY <1>2 DEF LiveNames, Names
<1>4. /\ ToSet(Command.decls) = {Command.decls[i] : i \in 1..Len(Command.decls)}
      /\ \A i \in 1..Len(Command.decls) : Command.decls[i].path \in Seq(STRING \X STRING)
    BY OpeningFacts, TreeOfTheCommand
<1>5. x.decl = d /\ x \in Entries(Command)
  <2>1. d \in ToSet(Command.decls)
      BY <1>4
  <2>. QED BY <2>1, NamesOfADeclaration DEF Entries
<1>6. e # x
    BY <1>3, <1>5, OpenIsLive
<1>7. ~SimultaneouslyElectable(e.decl.path, d.path)
  <2>1. \A a, b \in Entries(Command) : a.name = b.name /\ a # b =>
            ~SimultaneouslyElectable(a.decl.path, b.decl.path)
      BY OpeningFacts, RegisteredCommand DEF NamesOK
  <2>. QED BY <1>3, <1>5, <1>6, <2>1
<1>8. PICK m \in 1..Len(Command.decls) : e.decl = Command.decls[m]
    BY <1>4, NamesOfADeclaration
<1>9. e.decl.path # <<>> /\ d.path # <<>> /\ e.decl.path[1][1] = d.path[1][1]
    BY <1>4, <1>7, <1>8, ExclusiveScopesShareARoot
<1>10. Visible(Command.decls[m].path)
    BY <1>8, <1>9 DEF Visible
<1>11. Open(Command.decls[m].path)
    BY <1>3, <1>8, <1>10, OpenIsLive
<1>. QED BY <1>3, <1>8, <1>11

\* What is reported as skipped is what the layers bind of the scopes that did
\* not open.
LEMMA SkippedAreClosed ==
    ASSUME Opening, NEW j \in 1..Len(Command.decls)
    PROVE  LET d == Command.decls[j]
           IN  /\ (IsFlag(d) /\ ~Live(d) /\ ~pre.hermetic /\ d.env /\ d.name \in DOMAIN ambient.env)
                    => Key(d) \in outcome.skipped
               /\ Key(d) \in outcome.skipped => ~Live(d) /\ ~pre.hermetic
<1>. DEFINE d == Command.decls[j]
            Closed(f) == /\ IsFlag(f) /\ ~Live(f)
                         /\ (f.env /\ f.name \in DOMAIN Env) \/ f.name \in DOMAIN Config
<1>1. /\ ToSet(Command.decls) = {Command.decls[i] : i \in 1..Len(Command.decls)}
      /\ \A i, m \in 1..Len(Command.decls) : Key(Command.decls[i]) = Key(Command.decls[m]) => i = m
    BY OpeningFacts, TreeOfTheCommand
<1>2. outcome.skipped = {Key(f) : f \in {g \in ToSet(Command.decls) : Closed(g)}}
    BY DEF Opening, Handing, HandedOver, Skipped
<1>3. pre.hermetic => DOMAIN Env = {} /\ DOMAIN Config = {}
    BY DEF Env, Config
<1>4. ~pre.hermetic => Env = ambient.env
    BY DEF Env
<1>5. d \in ToSet(Command.decls)
    BY <1>1
<1>6. (IsFlag(d) /\ ~Live(d) /\ ~pre.hermetic /\ d.env /\ d.name \in DOMAIN ambient.env)
        => Key(d) \in outcome.skipped
    BY <1>2, <1>4, <1>5
<1>7. ASSUME Key(d) \in outcome.skipped
      PROVE  ~Live(d) /\ ~pre.hermetic
  <2>1. PICK i \in 1..Len(Command.decls) : Key(Command.decls[i]) = Key(d) /\ Closed(Command.decls[i])
      BY <1>1, <1>2, <1>7
  <2>2. i = j
      BY <1>1, <2>1
  <2>. QED BY <1>3, <2>1, <2>2
<1>. QED BY <1>6, <1>7

LEMMA OnlyLiveFollows ==
    ASSUME Opening
    PROVE  OnlyLiveScopes
<1>1. ASSUME NEW j \in 1..Len(Command.decls), Visible(Command.decls[j].path)
      PROVE  LET d == Command.decls[j]
             IN  /\ d.path # <<>> => (Open(d.path) <=> Key(d) \in DOMAIN outcome.scoped)
                 /\ ~Open(d.path) =>
                     /\ Key(d) \notin outcome.provided
                     /\ \A x \in ToSet(SurfaceNames(d)) : Given(x.name) = {}
                             \/ \E e \in Entries(Command) : e.name = x.name /\ Open(e.decl.path)
                     /\ (IsFlag(d) /\ ~pre.hermetic /\ d.env /\ d.name \in DOMAIN ambient.env) =>
                             Key(d) \in outcome.skipped
                 /\ Key(d) \in outcome.skipped => ~Open(d.path) /\ ~pre.hermetic
  <2>. DEFINE d == Command.decls[j]
  <2>1. Open(d.path) <=> Live(d)
      BY <1>1, OpenIsLive
  <2>2. d.path # <<>> => (Key(d) \in DOMAIN outcome.scoped <=> Live(d))
      BY ScopedSeen
  <2>3. ~Live(d) => d.path # <<>>
    <3>1. DOMAIN <<>> = {}
        OBVIOUS
    <3>. HIDE DEF d
    <3>. QED BY <3>1 DEF Live, LiveIn
  <2>4. ~Live(d) => Key(d) \notin outcome.provided
      BY <2>3, ScopedSeen
  <2>5. ~Open(d.path) => \A x \in ToSet(SurfaceNames(d)) : Given(x.name) = {}
            \/ \E e \in Entries(Command) : e.name = x.name /\ Open(e.decl.path)
      BY <1>1, TypedNamesAreOpen
  <2>6. /\ (IsFlag(d) /\ ~Live(d) /\ ~pre.hermetic /\ d.env /\ d.name \in DOMAIN ambient.env)
            => Key(d) \in outcome.skipped
        /\ Key(d) \in outcome.skipped => ~Live(d) /\ ~pre.hermetic
      BY SkippedAreClosed
  <2>. HIDE DEF d
  <2>7. /\ d.path # <<>> => (Open(d.path) <=> Key(d) \in DOMAIN outcome.scoped)
        /\ ~Open(d.path) => Key(d) \notin outcome.provided
        /\ (~Open(d.path) /\ IsFlag(d) /\ ~pre.hermetic /\ d.env /\ d.name \in DOMAIN ambient.env) =>
                Key(d) \in outcome.skipped
        /\ Key(d) \in outcome.skipped => ~Open(d.path) /\ ~pre.hermetic
      BY <2>1, <2>2, <2>4, <2>6
  <2>. QED BY <2>5, <2>7 DEF d
<1>2. ToSet(Command.decls) = {Command.decls[i] : i \in 1..Len(Command.decls)}
    BY OpeningFacts, TreeOfTheCommand
<1>. QED BY ZenonT(60), <1>1, <1>2 DEF OnlyLiveScopes, Visible

-----------------------------------------------------------------------------
(* Words at some places of a sequence.                                       *)

\* Two sequences with the same words at some places have them in common.
LEMMA WordsAgree ==
    ASSUME NEW S, IsFiniteSet(S), S \subseteq Nat, NEW s, NEW t,
           \A i \in S : s[i].raw = t[i].raw
    PROVE  RawsOf(Sublist(s, S)) = RawsOf(Sublist(t, S))
<1>1. \A k \in 1..Cardinality(S) : PlaceAt(S, k) \in S
    BY PlacesInOrder
<1>. DEFINE n == Cardinality(S)
            a == RawsOf(Sublist(s, S))
            b == RawsOf(Sublist(t, S))
<1>2. a = [k \in 1..n |-> a[k]] /\ b = [k \in 1..n |-> b[k]]
      /\ \A k \in 1..n : a[k] = s[PlaceAt(S, k)].raw /\ b[k] = t[PlaceAt(S, k)].raw
    BY SublistIs
<1>. HIDE DEF a, b
<1>3. \A k \in 1..n : a[k] = b[k]
    BY <1>1, <1>2
<1>. HIDE DEF n
<1>. QED BY <1>2, <1>3 DEF a, b

\* One place is one word.
LEMMA OnePlace ==
    ASSUME NEW m \in Nat, NEW s
    PROVE  RawsOf(Sublist(s, {m})) = <<s[m].raw>>
<1>1. IsFiniteSet({m}) /\ Cardinality({m}) = 1 /\ {m} \subseteq Nat
    BY FS_Singleton
<1>2. \A k \in 1..1 : PlaceAt({m}, k) = m
    BY <1>1, PlacesInOrder
<1>. DEFINE a == RawsOf(Sublist(s, {m}))
<1>3. a = [k \in 1..1 |-> a[k]] /\ \A k \in 1..1 : a[k] = s[PlaceAt({m}, k)].raw
    BY SMTT(60), <1>1, SublistIs
<1>. HIDE DEF a
<1>4. a = [k \in 1..1 |-> a[k]] /\ a[1] = s[m].raw
    BY <1>2, <1>3
<1>. QED BY <1>4 DEF a

\* A concatenation, place by place.
LEMMA JoinedIs ==
    ASSUME NEW m \in Nat, NEW n \in Nat, NEW a, NEW b,
           a = [k \in 1..m |-> a[k]], b = [k \in 1..n |-> b[k]]
    PROVE  a \o b = [k \in 1..(m + n) |-> IF k <= m THEN a[k] ELSE b[k - m]]
<1>. DEFINE S == {a[k] : k \in 1..m} \cup {b[k] : k \in 1..n}
<1>0. (\A k \in 1..m : a[k] \in S) /\ (\A k \in 1..n : b[k] \in S)
    OBVIOUS
<1>1. a \in [1..m -> S] /\ b \in [1..n -> S]
  <2>. HIDE DEF S
  <2>. QED BY <1>0
<1>. HIDE DEF S
<1>2. a \in Seq(S) /\ b \in Seq(S) /\ Len(a) = m /\ Len(b) = n
    BY <1>1
<1>. QED BY SMTT(60), <1>2

\* The words at places that come one after the other.
LEMMA WordsJoin ==
    ASSUME NEW S, IsFiniteSet(S), S \subseteq Nat, NEW T, IsFiniteSet(T), T \subseteq Nat,
           \A i \in S : \A j \in T : i < j, NEW s
    PROVE  /\ RawsOf(Sublist(s, S \cup T)) = RawsOf(Sublist(s, S)) \o RawsOf(Sublist(s, T))
           /\ Cardinality(S \cup T) = Cardinality(S) + Cardinality(T)
<1>. DEFINE U == S \cup T
            m == Cardinality(S)
            n == Cardinality(T)
            below(R, c) == {j \in R : j <= c}
<1>1. S \cap T = {}
  <2>1. \A i \in S \cap T : i \in Nat /\ i < i
      OBVIOUS
  <2>2. \A i \in Nat : ~ (i < i)
      OBVIOUS
  <2>. QED BY <2>1, <2>2
<1>2. m \in Nat /\ n \in Nat /\ IsFiniteSet(U) /\ U \subseteq Nat /\ Cardinality(U) = m + n
  <2>1. Cardinality({}) = 0
      BY FS_EmptySet
  <2>2. IsFiniteSet(U) /\ Cardinality(U) = m + n - Cardinality(S \cap T)
      BY FS_Union
  <2>3. m \in Nat /\ n \in Nat /\ U \subseteq Nat
      BY FS_CardinalityType
  <2>4. Cardinality(S \cap T) = 0
      BY <1>1, <2>1
  <2>. HIDE DEF m, n, U
  <2>. QED BY <2>2, <2>3, <2>4
<1>3. \A k \in 1..m : PlaceAt(U, k) = PlaceAt(S, k)
  <2>1. ASSUME NEW k \in 1..m
        PROVE  PlaceAt(U, k) = PlaceAt(S, k)
    <3>. DEFINE c == PlaceAt(S, k)
    <3>1. c \in S /\ Cardinality(below(S, c)) = k
        BY PlacesInOrder
    <3>. HIDE DEF c
    <3>2. below(U, c) = below(S, c)
      <4>1. \A j \in T : ~ (j <= c)
        <5>1. \A j \in T : j \in Nat /\ c \in Nat /\ c < j
            BY <3>1
        <5>. QED BY <5>1
      <4>. QED BY <4>1
    <3>3. c \in U /\ PlaceAt(U, Cardinality(below(U, c))) = c
        BY <1>2, <3>1, PlacesInOrder
    <3>. HIDE DEF U
    <3>. QED BY <3>1, <3>2, <3>3 DEF c
  <2>. QED BY <2>1
<1>4. \A k \in 1..n : PlaceAt(U, m + k) = PlaceAt(T, k)
  <2>1. ASSUME NEW k \in 1..n
        PROVE  PlaceAt(U, m + k) = PlaceAt(T, k)
    <3>. DEFINE c == PlaceAt(T, k)
                R == below(T, c)
    <3>1. c \in T /\ Cardinality(R) = k /\ IsFiniteSet(R)
        BY PlacesInOrder
    <3>. HIDE DEF c
    <3>2. below(U, c) = S \cup R
      <4>1. \A j \in S : j <= c
        <5>1. \A j \in S : j \in Nat /\ c \in Nat /\ j < c
            BY <3>1
        <5>. QED BY <5>1
      <4>. QED BY <4>1
    <3>3. Cardinality(S \cup R) = m + k
      <4>1. S \cap R = {} /\ Cardinality({}) = 0
          BY <1>1, FS_EmptySet
      <4>. HIDE DEF R
      <4>2. Cardinality(S \cup R) = m + Cardinality(R) - Cardinality(S \cap R)
          BY <3>1, FS_Union
      <4>. HIDE DEF m
      <4>. QED BY <1>2, <3>1, <4>1, <4>2
    <3>4. c \in U /\ PlaceAt(U, Cardinality(below(U, c))) = c
        BY <1>2, <3>1, PlacesInOrder
    <3>. HIDE DEF U, m, R
    <3>. QED BY <3>1, <3>2, <3>3, <3>4 DEF c
  <2>. QED BY <2>1
<1>. DEFINE a == RawsOf(Sublist(s, S))
            b == RawsOf(Sublist(s, T))
            c == RawsOf(Sublist(s, U))
<1>5. /\ a = [k \in 1..m |-> a[k]] /\ \A k \in 1..m : a[k] = s[PlaceAt(S, k)].raw
      /\ b = [k \in 1..n |-> b[k]] /\ \A k \in 1..n : b[k] = s[PlaceAt(T, k)].raw
      /\ c = [k \in 1..(m + n) |-> c[k]] /\ \A k \in 1..(m + n) : c[k] = s[PlaceAt(U, k)].raw
  <2>1. a = [k \in 1..m |-> a[k]] /\ \A k \in 1..m : a[k] = s[PlaceAt(S, k)].raw
      BY SublistIs
  <2>2. b = [k \in 1..n |-> b[k]] /\ \A k \in 1..n : b[k] = s[PlaceAt(T, k)].raw
      BY SublistIs
  <2>3. c = [k \in 1..(m + n) |-> c[k]] /\ \A k \in 1..(m + n) : c[k] = s[PlaceAt(U, k)].raw
    <3>1. m + n = Cardinality(U)
        BY <1>2
    <3>. HIDE DEF U, m, n
    <3>. QED BY <3>1, SublistIs
  <2>. HIDE DEF a, b, c, m, n, U
  <2>. QED BY <2>1, <2>2, <2>3
<1>. HIDE DEF a, b, c, m, n, U
<1>7. a \o b = [k \in 1..(m + n) |-> IF k <= m THEN a[k] ELSE b[k - m]]
    BY <1>2, <1>5, JoinedIs
<1>8. ASSUME NEW k \in 1..(m + n)
      PROVE  c[k] = IF k <= m THEN a[k] ELSE b[k - m]
  <2>1. CASE k <= m
    <3>1. k \in 1..m
        BY <1>2, <2>1
    <3>. QED BY <1>3, <1>5, <2>1, <3>1
  <2>2. CASE ~ (k <= m)
    <3>1. k - m \in 1..n /\ m + (k - m) = k
        BY <1>2, <2>2
    <3>2. PlaceAt(U, k) = PlaceAt(T, k - m)
        BY <1>4, <3>1
    <3>. QED BY <1>5, <2>2, <3>1, <3>2
  <2>. QED BY <2>1, <2>2
<1>9. c = a \o b
    BY <1>5, <1>7, <1>8
<1>. QED BY <1>2, <1>9 DEF a, b, c, m, n, U

\* The words of a flag become its value one by one.
LEMMA ValuesJoin ==
    ASSUME NEW f, NEW a \in Seq(Said), NEW b \in Seq(Said)
    PROVE  FromWords(f, a \o b) = FromWords(f, a) \o FromWords(f, b)
<1>. DEFINE m == Len(a)
            n == Len(b)
<1>1. /\ m \in Nat /\ n \in Nat /\ DOMAIN a = 1..m /\ DOMAIN b = 1..n
      /\ a = [k \in 1..m |-> a[k]] /\ b = [k \in 1..n |-> b[k]]
    OBVIOUS
<1>. HIDE DEF m, n
<1>. DEFINE w(x) == WordValue(f.schema, x)
            va == FromWords(f, a)
            vb == FromWords(f, b)
            ab == a \o b
<1>2. va = [k \in 1..m |-> w(a[k])] /\ vb = [k \in 1..n |-> w(b[k])]
    BY <1>1 DEF FromWords
<1>3. ab = [k \in 1..(m + n) |-> IF k <= m THEN a[k] ELSE b[k - m]]
    BY <1>1, JoinedIs
<1>. HIDE DEF va, vb, ab, w
<1>4. va = [k \in 1..m |-> va[k]] /\ vb = [k \in 1..n |-> vb[k]]
    BY <1>2
<1>5. va \o vb = [k \in 1..(m + n) |-> IF k <= m THEN va[k] ELSE vb[k - m]]
    BY <1>1, <1>4, JoinedIs
<1>6. FromWords(f, ab) = [k \in 1..(m + n) |-> w(ab[k])]
    BY <1>1, <1>3 DEF FromWords, w
<1>7. \A k \in 1..(m + n) : w(ab[k]) = IF k <= m THEN va[k] ELSE vb[k - m]
  <2>1. \A k \in 1..(m + n) : (k <= m => k \in 1..m) /\ (~(k <= m) => k - m \in 1..n)
      BY <1>1
  <2>. QED BY <1>2, <1>3, <2>1
<1>. QED BY <1>5, <1>6, <1>7 DEF va, vb, ab

-----------------------------------------------------------------------------
(* The entries read of one name, and the words they were read with.          *)

Spoken(entries, kinds, n) ==
    {i \in DOMAIN entries : entries[i].what \in kinds /\ entries[i].names = <<n>>}
SpokenWords(entries, kinds, n) == RawsOf(Sublist(entries, Spoken(entries, kinds, n)))

IsRead(entries) == entries \in Seq(ToSet(entries))

\* The places of a name are finitely many, and its words as many as they.
LEMMA SpokenPlaces ==
    ASSUME NEW s, IsRead(s), NEW V, NEW n
    PROVE  /\ Len(s) \in Nat /\ DOMAIN s = 1..Len(s)
           /\ IsFiniteSet(Spoken(s, V, n)) /\ Spoken(s, V, n) \subseteq Nat
           /\ Cardinality(Spoken(s, V, n)) \in Nat
           /\ (Spoken(s, V, n) = {} <=> Cardinality(Spoken(s, V, n)) = 0)
           /\ (Spoken(s, V, n) = {} <=> SpokenWords(s, V, n) = <<>>)
           /\ SpokenWords(s, V, n) =
                [k \in 1..Cardinality(Spoken(s, V, n)) |-> SpokenWords(s, V, n)[k]]
<1>. DEFINE m == Len(s)
            P == Spoken(s, V, n)
            w == SpokenWords(s, V, n)
<1>1. m \in Nat /\ DOMAIN s = 1..m
    BY DEF IsRead
<1>2. P \subseteq 1..m /\ 1..m \subseteq Nat
    BY <1>1 DEF Spoken
<1>. HIDE DEF m, P
<1>3. IsFiniteSet(P)
  <2>1. IsFiniteSet(1..m) /\ P \in SUBSET (1..m)
      BY <1>1, <1>2, FS_Interval
  <2>. QED BY <2>1, FS_Subset
<1>4. Cardinality(P) \in Nat /\ (P = {} <=> Cardinality(P) = 0)
    BY <1>3, FS_CardinalityType, FS_EmptySet
<1>. DEFINE c == Cardinality(P)
<1>5. w = [k \in 1..c |-> w[k]] /\ DOMAIN w = 1..c
    BY SublistIs DEF SpokenWords, P
<1>. HIDE DEF w, c
<1>6. w = <<>> <=> c = 0
  <2>1. c \in Nat
      BY <1>4 DEF c
  <2>2. c # 0 => 1 \in DOMAIN w
      BY <1>5, <2>1
  <2>3. DOMAIN <<>> = {} /\ (c = 0 => w = <<>>)
      BY <1>5
  <2>. QED BY <2>2, <2>3
<1>. QED BY <1>1, <1>2, <1>3, <1>4, <1>5, <1>6 DEF m, P, w, c

\* What was said of a name are words that can be said.
LEMMA SpokenAreWords ==
    ASSUME NEW s, IsRead(s), SaidAll(s), NEW V, NEW n
    PROVE  SpokenWords(s, V, n) \in Seq(Said)
<1>. DEFINE m == Len(s)
            P == Spoken(s, V, n)
<1>1. m \in Nat /\ DOMAIN s = 1..m /\ P \in SUBSET DOMAIN s
    BY SpokenPlaces DEF Spoken
<1>. HIDE DEF m, P
<1>2. RawsOf(Sublist(s, P)) \in Seq(Said)
    BY <1>1, WordsAtPlaces
<1>. QED BY <1>2 DEF SpokenWords, P

\* A step keeps the entries of some kinds when it adds none and changes none.
KeepsKinds(s, t, W) ==
    \A i \in DOMAIN s \cup DOMAIN t :
        (i \in DOMAIN s /\ s[i].what \in W) \/ (i \in DOMAIN t /\ t[i].what \in W) =>
            i \in DOMAIN s /\ i \in DOMAIN t /\ t[i] = s[i]

\* What was said with the kinds of entry that a step keeps is as before.
LEMMA KeptWords ==
    ASSUME NEW s, IsRead(s), NEW t, NEW W, KeepsKinds(s, t, W), NEW V, V \subseteq W, NEW n
    PROVE  /\ Spoken(t, V, n) = Spoken(s, V, n)
           /\ SpokenWords(t, V, n) = SpokenWords(s, V, n)
<1>1. Spoken(t, V, n) = Spoken(s, V, n)
    BY DEF Spoken, KeepsKinds
<1>2. \A i \in Spoken(s, V, n) : s[i].raw = t[i].raw
    BY DEF Spoken, KeepsKinds
<1>3. IsFiniteSet(Spoken(s, V, n)) /\ Spoken(s, V, n) \subseteq Nat
    BY SpokenPlaces
<1>. DEFINE P == Spoken(s, V, n)
<1>4. RawsOf(Sublist(s, P)) = RawsOf(Sublist(t, P))
  <2>. HIDE DEF P
  <2>. QED BY <1>2, <1>3, WordsAgree DEF P
<1>. QED BY <1>1, <1>4 DEF SpokenWords

\* Nothing changed keeps every kind,
LEMMA UnchangedKeeps ==
    ASSUME NEW s, NEW W
    PROVE  KeepsKinds(s, s, W)
BY DEF KeepsKinds

\* and another entry every kind but its own.
LEMMA MoreKeeps ==
    ASSUME NEW s, IsRead(s), NEW e, NEW W, e.what \notin W
    PROVE  KeepsKinds(s, Append(s, e), W)
<1>. DEFINE t == Append(s, e)
            m == Len(s)
<1>1. m \in Nat /\ DOMAIN s = 1..m
    BY DEF IsRead
<1>2. DOMAIN t = 1..(m + 1) /\ t[m + 1] = e /\ \A i \in 1..m : t[i] = s[i]
    BY <1>1 DEF IsRead
<1>. HIDE DEF t, m
<1>3. \A i \in 1..(m + 1) : i \in 1..m \/ i = m + 1
    BY <1>1
<1>. QED BY <1>1, <1>2, <1>3 DEF KeepsKinds, t

\* One more entry of a name adds its word to those of the name.
LEMMA OneMoreWord ==
    ASSUME NEW s, IsRead(s), NEW e, NEW V, NEW n, e.what \in V, e.names = <<n>>
    PROVE  /\ Spoken(Append(s, e), V, n) # {}
           /\ SpokenWords(Append(s, e), V, n) = SpokenWords(s, V, n) \o <<e.raw>>
           /\ Cardinality(Spoken(Append(s, e), V, n)) = Cardinality(Spoken(s, V, n)) + 1
<1>. DEFINE t == Append(s, e)
            m == Len(s)
            P == Spoken(s, V, n)
            T == {m + 1}
<1>1. m \in Nat /\ DOMAIN s = 1..m /\ IsFiniteSet(P) /\ P \subseteq Nat
    BY SpokenPlaces
<1>2. DOMAIN t = 1..(m + 1) /\ t[m + 1] = e /\ \A i \in 1..m : t[i] = s[i]
    BY <1>1 DEF IsRead
<1>3. P \subseteq 1..m /\ \A i \in P : i \in 1..m
    BY <1>1 DEF Spoken
<1>. HIDE DEF t, m
<1>4. \A i \in 1..(m + 1) : i \in 1..m \/ i = m + 1
    BY <1>1
<1>5. Spoken(t, V, n) = P \cup T
    BY <1>1, <1>2, <1>4 DEF Spoken
<1>6. IsFiniteSet(T) /\ T \subseteq Nat /\ Cardinality(T) = 1 /\ m + 1 \in Nat
  <2>. DEFINE k == m + 1
  <2>1. k \in Nat
      BY <1>1
  <2>. HIDE DEF k
  <2>2. IsFiniteSet({k}) /\ Cardinality({k}) = 1 /\ {k} \subseteq Nat
      BY <2>1, FS_Singleton
  <2>. QED BY <2>1, <2>2 DEF k
<1>7. \A i \in P : \A j \in T : i < j
    BY <1>1, <1>3
<1>8. RawsOf(Sublist(t, T)) = <<e.raw>>
    BY <1>2, <1>6, OnePlace
<1>9. RawsOf(Sublist(t, P)) = RawsOf(Sublist(s, P))
  <2>1. \A i \in P : t[i].raw = s[i].raw
      BY <1>2, <1>3
  <2>. HIDE DEF P
  <2>. QED BY <1>1, <2>1, WordsAgree
<1>. HIDE DEF P, T
<1>10. /\ RawsOf(Sublist(t, P \cup T)) = RawsOf(Sublist(t, P)) \o RawsOf(Sublist(t, T))
       /\ Cardinality(P \cup T) = Cardinality(P) + Cardinality(T)
    BY ZenonT(60), <1>1, <1>6, <1>7, WordsJoin
<1>. QED BY <1>5, <1>6, <1>8, <1>9, <1>10 DEF SpokenWords, P, T, t, m

\* A word of another kind or name changes nothing of this one.
LEMMA AsideWord ==
    ASSUME NEW s, IsRead(s), NEW e, NEW V, NEW n, e.what \notin V \/ e.names # <<n>>
    PROVE  /\ Spoken(Append(s, e), V, n) = Spoken(s, V, n)
           /\ SpokenWords(Append(s, e), V, n) = SpokenWords(s, V, n)
<1>. DEFINE t == Append(s, e)
            m == Len(s)
            P == Spoken(s, V, n)
<1>1. m \in Nat /\ DOMAIN s = 1..m /\ IsFiniteSet(P) /\ P \subseteq Nat
    BY SpokenPlaces
<1>2. DOMAIN t = 1..(m + 1) /\ t[m + 1] = e /\ \A i \in 1..m : t[i] = s[i]
    BY <1>1 DEF IsRead
<1>3. P \subseteq 1..m
    BY <1>1 DEF Spoken
<1>. HIDE DEF t, m
<1>4. \A i \in 1..(m + 1) : i \in 1..m \/ i = m + 1
    BY <1>1
<1>5. Spoken(t, V, n) = P
    BY <1>1, <1>2, <1>4 DEF Spoken
<1>6. RawsOf(Sublist(t, P)) = RawsOf(Sublist(s, P))
  <2>1. \A i \in P : t[i].raw = s[i].raw
      BY <1>2, <1>3
  <2>. HIDE DEF P
  <2>. QED BY <1>1, <2>1, WordsAgree
<1>. QED BY <1>5, <1>6 DEF SpokenWords, P, t

-----------------------------------------------------------------------------
(* The layers below the command line.                                        *)

Distinct(flags) == \A f, g \in flags : f.name = g.name => f = g

\* The flag of a name is the one that has it.
LEMMA NamedIs ==
    ASSUME NEW flags, Distinct(flags), NEW f \in flags
    PROVE  Named(flags, f.name) = f
BY DEF Named, Distinct

\* The ambient layers bind a flag that the store has not: the environment
\* before the configuration file.
LEMMA LayersBind ==
    ASSUME NEW flags, Distinct(flags), NEW s, NEW from, NEW a, NEW env, NEW config, NEW f \in flags
    PROVE  LET t == Ambient(flags, s, from, a, [env |-> env, config |-> config]).store
               n == f.name
           IN  /\ n \in DOMAIN s => n \in DOMAIN t /\ t[n] = s[n]
               /\ n \notin DOMAIN s =>
                    IF f.env /\ n \in DOMAIN env
                    THEN n \in DOMAIN t /\ t[n] = Sourced(FromWords(f, env[n]), "env")
                    ELSE IF n \in DOMAIN config
                    THEN n \in DOMAIN t /\ t[n] = Sourced(config[n], "config")
                    ELSE n \notin DOMAIN t
<1>. DEFINE n == f.name
            layers == [env |-> env, config |-> config]
            boundE == {g \in Unbound(flags, s, env) : g.env}
            addE == [m \in Names(boundE) |-> Sourced(FromWords(Named(boundE, m), env[m]), "env")]
            u == FromEnv(flags, s, from, env).store
            boundC == Unbound(flags, u, config)
            addC == [m \in Names(boundC) |-> Sourced(config[m], "config")]
            t == FromConfig(flags, u, a, config).store
<1>1. Ambient(flags, s, from, a, layers).store = t
    BY DEF Ambient
<1>2. u = Over(s, addE)
    BY DEF FromEnv
<1>3. t = Over(u, addC)
    BY DEF FromConfig
<1>4. n \in Names(boundE) <=> n \notin DOMAIN s /\ f.env /\ n \in DOMAIN env
  <2>1. f \in boundE <=> n \notin DOMAIN s /\ f.env /\ n \in DOMAIN env
      BY DEF Unbound, Has
  <2>2. n \in Names(boundE) <=> f \in boundE
    <3>1. \A g \in boundE : g \in flags
        BY DEF Unbound
    <3>2. \A g \in boundE : g.name = n => g = f
        BY <3>1 DEF Distinct
    <3>. HIDE DEF boundE
    <3>. QED BY <3>2 DEF Names
  <2>. QED BY <2>1, <2>2
<1>5. n \in Names(boundE) => Named(boundE, n) = f
  <2>1. \A g \in boundE : g \in flags
      BY DEF Unbound
  <2>. HIDE DEF boundE
  <2>. QED BY <2>1 DEF Named, Names, Distinct
<1>. HIDE DEF u
<1>6. n \in Names(boundC) <=> n \notin DOMAIN u /\ n \in DOMAIN config
    BY DEF Unbound, Has, Names
<1>7. /\ DOMAIN addE = Names(boundE) /\ DOMAIN addC = Names(boundC)
      /\ n \in Names(boundE) => addE[n] = Sourced(FromWords(f, env[n]), "env")
      /\ n \in Names(boundC) => addC[n] = Sourced(config[n], "config")
    BY <1>5
<1>. HIDE DEF addE, addC, boundE, boundC, t
<1>8. /\ n \in DOMAIN s => n \in DOMAIN u /\ u[n] = s[n]
      /\ n \notin DOMAIN s => (n \in DOMAIN u <=> n \in Names(boundE))
      /\ n \notin DOMAIN s /\ n \in Names(boundE) => u[n] = addE[n]
    BY <1>2, <1>7 DEF Over
<1>9. /\ n \in DOMAIN u => n \in DOMAIN t /\ t[n] = u[n]
      /\ n \notin DOMAIN u => (n \in DOMAIN t <=> n \in Names(boundC))
      /\ n \notin DOMAIN u /\ n \in Names(boundC) => t[n] = addC[n]
    BY <1>3, <1>7 DEF Over
<1>. HIDE DEF n
<1>10. n \in DOMAIN s => n \in DOMAIN t /\ t[n] = s[n]
    BY <1>8, <1>9
<1>11. ASSUME n \notin DOMAIN s
       PROVE  IF f.env /\ n \in DOMAIN env
              THEN n \in DOMAIN t /\ t[n] = Sourced(FromWords(f, env[n]), "env")
              ELSE IF n \in DOMAIN config
              THEN n \in DOMAIN t /\ t[n] = Sourced(config[n], "config")
              ELSE n \notin DOMAIN t
    BY <1>4, <1>6, <1>7, <1>8, <1>9, <1>11
<1>. QED BY <1>1, <1>10, <1>11 DEF n, layers

\* A flag that no layer binds gets its default.
LEMMA DefaultBinds ==
    ASSUME NEW flags, Distinct(flags), NEW s, NEW f \in flags
    PROVE  LET t == Defaulted(flags, s).store
           IN  /\ f.name \in DOMAIN t
               /\ t[f.name] = IF f.name \in DOMAIN s THEN s[f.name] ELSE Sourced(f.dflt, "default")
<1>. DEFINE n == f.name
            missing == {g \in flags : ~Has(s, g.name)}
            added == [m \in Names(missing) |-> Sourced(Named(missing, m).dflt, "default")]
            t == Defaulted(flags, s).store
<1>1. t = Over(s, added)
    BY DEF Defaulted
<1>2. n \notin DOMAIN s => n \in Names(missing) /\ Named(missing, n) = f
  <2>1. ASSUME n \notin DOMAIN s
        PROVE  f \in missing
      BY <2>1 DEF Has
  <2>. HIDE DEF missing
  <2>2. \A g \in missing : g \in flags
      BY DEF missing
  <2>. QED BY <2>1, <2>2 DEF Named, Names, Distinct
<1>3. DOMAIN added = Names(missing) /\ (n \notin DOMAIN s => added[n] = Sourced(f.dflt, "default"))
    BY <1>2
<1>. HIDE DEF added, missing, t
<1>. QED BY <1>1, <1>2, <1>3 DEF Over, t

-----------------------------------------------------------------------------
(* The globals before the command word.                                      *)

\* What the layers below the command line say of a declaration.
LayerOf(d) ==
    IF d.env /\ d.name \in DOMAIN Env THEN Sourced(FromWords(d, Env[d.name]), "env")
    ELSE IF d.name \in DOMAIN Config THEN Sourced(Config[d.name], "config")
    ELSE Sourced(d.dflt, "default")

GlobalSaid(g) == Spoken(typed, {"global"}, g.name)
GlobalValue(g) == Sourced(FromWords(g, SpokenWords(typed, {"global"}, g.name)), "cli")

IsGlobalWord(e) == e.what = "global" /\ \E n \in NamesOf(app.globals) : e.names = <<n>>
OnlyGlobals == \A i \in DOMAIN typed : IsGlobalWord(typed[i])

\* While they are read the store holds the globals given so far,
GlobalsRead ==
    \A g \in ToSet(app.globals) :
        /\ g.name \in DOMAIN globals <=> GlobalSaid(g) # {}
        /\ GlobalSaid(g) # {} => globals[g.name] = GlobalValue(g)
        /\ IsScalar(g) => Cardinality(GlobalSaid(g)) <= 1

\* and then each of them.
GlobalsKnown ==
    \A g \in ToSet(app.globals) :
        /\ g.name \in DOMAIN globals
        /\ globals[g.name] = IF GlobalSaid(g) # {} THEN GlobalValue(g) ELSE LayerOf(g)
        /\ IsScalar(g) => Cardinality(GlobalSaid(g)) <= 1

\* No two globals have one name.
LEMMA GlobalsAreDistinct ==
    ASSUME Registered(app)
    PROVE  Distinct(ToSet(app.globals))
<1>1. GlobalsOK(app.globals)
    BY DEF Registered
<1>2. \A i, j \in DOMAIN app.globals : app.globals[i].name = app.globals[j].name => i = j
    BY <1>1 DEF GlobalsOK
<1>. QED BY <1>2 DEF Distinct, ToSet

\* A global given before the command word adds what was said to what is known.
LEMMA GivesGlobalWord ==
    ASSUME Registered(app), IsRead(typed), SaidAll(typed), UNCHANGED input,
           NEW f \in ToSet(app.globals), NEW raw \in Said, NEW got, got.value = FromWords(f, <<raw>>),
           NEW width, OnlyGlobals, GlobalsRead, GiveGlobal(f, raw, got, width)
    PROVE  phase' = "done" \/ (phase' = phase /\ OnlyGlobals' /\ GlobalsRead')
<1>. DEFINE old == IF ~IsScalar(f) /\ Has(globals, f.name) THEN globals[f.name].value ELSE <<>>
            v == old \o got.value
            e == Entry("global", <<f.name>>, raw)
            K == {"global"}
            w == SpokenWords(typed, K, f.name)
            P == Spoken(typed, K, f.name)
<1>. SUFFICES ASSUME phase' # "done" PROVE phase' = phase /\ OnlyGlobals' /\ GlobalsRead'
    OBVIOUS
<1>1. ~Refuse("globals")
    BY FinishesAs
<1>2. /\ globals' = Put(globals, f.name, Sourced(v, "cli"))
      /\ typed' = Append(typed, e)
      /\ phase' = phase
      /\ ~(IsScalar(f) /\ Has(globals, f.name))
    BY <1>1 DEF GiveGlobal
<1>3. e.what = "global" /\ e.what \in K /\ e.names = <<f.name>> /\ e.raw = raw
    BY DEF Entry
<1>4. f.name \in NamesOf(app.globals)
    BY DEF ToSet, NamesOf
<1>. HIDE DEF e
<1>5. OnlyGlobals'
  <2>1. IsGlobalWord(e)
      BY <1>3, <1>4 DEF IsGlobalWord
  <2>2. \A i \in DOMAIN typed' : (i \in DOMAIN typed /\ typed'[i] = typed[i]) \/ typed'[i] = e
    <3>1. Len(typed) \in Nat /\ DOMAIN typed = 1..Len(typed)
        BY SpokenPlaces
    <3>. QED BY <1>2, <3>1 DEF IsRead
  <2>3. \A i \in DOMAIN typed' : IsGlobalWord(typed'[i])
      BY <2>1, <2>2 DEF OnlyGlobals
  <2>. QED BY <2>3 DEF OnlyGlobals, IsGlobalWord, input
<1>6. /\ Spoken(typed', K, f.name) # {}
      /\ SpokenWords(typed', K, f.name) = w \o <<raw>>
      /\ Cardinality(Spoken(typed', K, f.name)) = Cardinality(P) + 1
  <2>1. typed' = Append(typed, e)
      BY <1>2
  <2>. DEFINE n == f.name
  <2>2. e.what \in K /\ e.names = <<n>> /\ e.raw = raw
      BY <1>3
  <2>. HIDE DEF K, n
  <2>3. Spoken(Append(typed, e), K, n) # {}
      BY <2>2, OneMoreWord
  <2>4. SpokenWords(Append(typed, e), K, n) = SpokenWords(typed, K, n) \o <<e.raw>>
      BY <2>2, OneMoreWord
  <2>5. Cardinality(Spoken(Append(typed, e), K, n)) = Cardinality(Spoken(typed, K, n)) + 1
      BY <2>2, OneMoreWord
  <2>. QED BY <2>1, <2>2, <2>3, <2>4, <2>5 DEF n
<1>7. /\ f.name \in DOMAIN globals <=> P # {}
      /\ P # {} => globals[f.name] = Sourced(FromWords(f, w), "cli")
    BY DEF GlobalsRead, GlobalSaid, GlobalValue
<1>8. old = FromWords(f, w)
  <2>1. CASE P # {}
      BY <1>2, <1>7, <2>1 DEF Has, Sourced
  <2>2. CASE P = {}
    <3>1. w = <<>>
        BY <2>2, SpokenPlaces
    <3>2. FromWords(f, <<>>) = <<>>
        BY DEF FromWords
    <3>. QED BY <1>7, <2>2, <3>1, <3>2 DEF Has
  <2>. QED BY <2>1, <2>2
<1>9. v = FromWords(f, w \o <<raw>>)
  <2>. DEFINE r == <<raw>>
  <2>1. w \in Seq(Said) /\ r \in Seq(Said)
      BY SpokenAreWords
  <2>. HIDE DEF w, r, old
  <2>2. FromWords(f, w \o r) = FromWords(f, w) \o FromWords(f, r)
      BY <2>1, ValuesJoin
  <2>. QED BY <1>8, <2>2 DEF r
<1>10. IsScalar(f) => Cardinality(Spoken(typed', K, f.name)) <= 1
  <2>1. ASSUME IsScalar(f)
        PROVE  Cardinality(P) = 0
    <3>1. P = {}
        BY <1>2, <1>7, <2>1 DEF Has
    <3>. QED BY <3>1, FS_EmptySet
  <2>. HIDE DEF P
  <2>. QED BY <1>6, <2>1
<1>11. ASSUME NEW g \in ToSet(app.globals), g # f
       PROVE  /\ g.name # f.name
              /\ Spoken(typed', K, g.name) = Spoken(typed, K, g.name)
              /\ SpokenWords(typed', K, g.name) = SpokenWords(typed, K, g.name)
  <2>1. g.name # f.name
      BY <1>11, GlobalsAreDistinct DEF Distinct
  <2>2. e.names # <<g.name>>
      BY <1>3, <2>1
  <2>. QED BY <1>2, <2>1, <2>2, AsideWord
<1>12. /\ DOMAIN globals' = DOMAIN globals \cup {f.name}
       /\ globals'[f.name] = Sourced(v, "cli")
       /\ \A n \in DOMAIN globals : n # f.name => globals'[n] = globals[n]
  <2>. HIDE DEF v
  <2>. QED BY <1>2 DEF Put
<1>. HIDE DEF v, w, P, old
<1>13. ASSUME NEW g \in ToSet(app.globals)
       PROVE  /\ g.name \in DOMAIN globals' <=> Spoken(typed', K, g.name) # {}
              /\ Spoken(typed', K, g.name) # {} =>
                    globals'[g.name] = Sourced(FromWords(g, SpokenWords(typed', K, g.name)), "cli")
              /\ IsScalar(g) => Cardinality(Spoken(typed', K, g.name)) <= 1
  <2>1. CASE g = f
      BY <1>6, <1>9, <1>10, <1>12, <2>1
  <2>2. CASE g # f
    <3>1. /\ g.name \in DOMAIN globals <=> Spoken(typed, K, g.name) # {}
          /\ Spoken(typed, K, g.name) # {} =>
                globals[g.name] = Sourced(FromWords(g, SpokenWords(typed, K, g.name)), "cli")
          /\ IsScalar(g) => Cardinality(Spoken(typed, K, g.name)) <= 1
        BY DEF GlobalsRead, GlobalSaid, GlobalValue
    <3>. QED BY <1>11, <1>12, <2>2, <3>1
  <2>. QED BY <2>1, <2>2
<1>14. GlobalsRead'
    BY <1>13 DEF GlobalsRead, GlobalSaid, GlobalValue, input
<1>. QED BY <1>2, <1>5, <1>14

\* A word of a flag without a value is the value itself.
LEMMA PlainWord ==
    ASSUME NEW f, f.schema = "bool", NEW raw, NEW s, s = Plain(raw)
    PROVE  s.value = FromWords(f, <<raw>>)
<1>1. WordValue(f.schema, raw) = raw
    BY DEF WordValue, ReadsStdin
<1>2. FromWords(f, <<raw>>) = <<raw>>
    BY <1>1 DEF FromWords
<1>. QED BY <1>2 DEF Plain

\* What the layers say does not change during a parse.
LEMMA LayersAreRead ==
    ASSUME UNCHANGED <<input, pre>>
    PROVE  Env' = Env /\ Config' = Config /\ \A d : LayerOf(d)' = LayerOf(d)
BY DEF Env, Config, LayerOf, input

\* Whatever form a global is given in, it is read.
LEMMA GlobalReading ==
    ASSUME HandInv, OnlyGlobals, GlobalsRead, GlobalInline \/ GlobalNegation \/ GlobalFlag
    PROVE  phase' = "done" \/ (phase' = phase /\ OnlyGlobals' /\ GlobalsRead')
<1>. DEFINE S == ToSet(argv)
            Good == phase' = "done" \/ (phase' = phase /\ OnlyGlobals' /\ GlobalsRead')
<1>1. /\ Registered(app) /\ rest \in Seq(S) /\ IsRead(typed) /\ SaidAll(typed)
      /\ \A t \in S : Text(t) \in Said /\ t.val \in Said
    BY InputFacts DEF HandInv, WordsRead, InputsOK, IsRead
<1>2. UNCHANGED input /\ rest # <<>>
    BY DEF GlobalInline, GlobalNegation, GlobalFlag, GlobalFrame
<1>3. GlobalNo => Good
    BY FinishesAs DEF GlobalNo
<1>4. ASSUME NEW f \in ByToken(app.globals, rest[1]) \cup ByNegation(app.globals, rest[1]),
             NEW raw \in Said, NEW got, got.value = FromWords(f, <<raw>>), NEW width,
             GiveGlobal(f, raw, got, width)
      PROVE  Good
  <2>1. f \in ToSet(app.globals)
      BY FlagsAreFound DEF ToSet
  <2>. QED BY <1>1, <1>2, <1>4, <2>1, GivesGlobalWord
<1>. HIDE DEF Good
<1>5. ASSUME GlobalInline
      PROVE  Good
  <2>1. rest[1].val \in Said
    <3>1. rest[1] \in S
      <4>. HIDE DEF S
      <4>. QED BY <1>1, <1>2
    <3>. QED BY <1>1, <3>1
  <2>2. \/ GlobalNo
        \/ \E f \in ByToken(app.globals, rest[1]) :
            GiveGlobal(f, rest[1].val, Words(f, <<rest[1].val>>, stdin), 1)
      BY <1>5 DEF GlobalInline
  <2>3. CASE GlobalNo
      BY <1>3, <2>3
  <2>4. CASE \E f \in ByToken(app.globals, rest[1]) :
                GiveGlobal(f, rest[1].val, Words(f, <<rest[1].val>>, stdin), 1)
    <3>1. PICK f \in ByToken(app.globals, rest[1]) :
                GiveGlobal(f, rest[1].val, Words(f, <<rest[1].val>>, stdin), 1)
        BY <2>4
    <3>2. PICK raw : raw = rest[1].val
        OBVIOUS
    <3>3. PICK got : got = Words(f, <<raw>>, stdin)
        OBVIOUS
    <3>4. got.value = FromWords(f, <<raw>>)
        BY <3>3 DEF Words
    <3>5. GiveGlobal(f, raw, got, 1) /\ raw \in Said
        BY <2>1, <3>1, <3>2, <3>3
    <3>. QED BY <1>4, <3>4, <3>5
  <2>. QED BY <2>2, <2>3, <2>4
<1>6. ASSUME GlobalNegation
      PROVE  Good
  <2>1. PICK f \in ByNegation(app.globals, rest[1]) : GiveGlobal(f, "false", Plain("false"), 1)
      BY <1>6 DEF GlobalNegation
  <2>2. f.schema = "bool"
      BY DEF ByNegation, Latest
  <2>3. PICK got : got = Plain("false")
      OBVIOUS
  <2>4. got.value = FromWords(f, <<"false">>) /\ "false" \in Said
      BY <2>2, <2>3, PlainWord DEF Said
  <2>5. GiveGlobal(f, "false", got, 1)
      BY <2>1, <2>3
  <2>. QED BY <1>4, <2>4, <2>5
<1>7. ASSUME GlobalFlag
      PROVE  Good
  <2>1. PICK f \in ByToken(app.globals, rest[1]) :
            IF ~TakesValue(f.schema) THEN GiveGlobal(f, "true", Plain("true"), 1)
            ELSE IF Len(rest) = 1 THEN GlobalNo
            ELSE GiveGlobal(f, Text(rest[2]), Words(f, <<Text(rest[2])>>, stdin), 2)
      BY <1>7 DEF GlobalFlag
  <2>2. CASE ~TakesValue(f.schema)
    <3>1. PICK got : got = Plain("true")
        OBVIOUS
    <3>2. f.schema = "bool"
        BY <2>2 DEF TakesValue
    <3>3. got.value = FromWords(f, <<"true">>) /\ "true" \in Said
        BY <3>1, <3>2, PlainWord DEF Said
    <3>4. GiveGlobal(f, "true", got, 1)
        BY <2>1, <2>2, <3>1
    <3>. QED BY <1>4, <3>3, <3>4
  <2>3. CASE TakesValue(f.schema) /\ Len(rest) = 1
      BY <1>3, <2>1, <2>3
  <2>4. CASE TakesValue(f.schema) /\ Len(rest) # 1
    <3>1. rest[2] \in S
      <4>. HIDE DEF S
      <4>. DEFINE n == Len(rest)
      <4>1. n \in Nat /\ n # 0 /\ n # 1
          BY <1>1, <1>2, <2>4
      <4>. HIDE DEF n
      <4>2. 2 <= n /\ 2 \in 1..n
          BY <4>1
      <4>. QED BY <1>1, <4>2 DEF n
    <3>2. PICK raw : raw = Text(rest[2])
        OBVIOUS
    <3>3. PICK got : got = Words(f, <<raw>>, stdin)
        OBVIOUS
    <3>4. got.value = FromWords(f, <<raw>>) /\ raw \in Said
        BY <1>1, <3>1, <3>2, <3>3 DEF Words
    <3>5. GiveGlobal(f, raw, got, 2)
        BY <2>1, <2>4, <3>2, <3>3
    <3>. QED BY <1>4, <3>4, <3>5
  <2>. QED BY <2>2, <2>3, <2>4
<1>. QED BY <1>5, <1>6, <1>7 DEF Good

\* When they are all read, each has what was said or what its layer says.
LEMMA GlobalsEndReading ==
    ASSUME HandInv, OnlyGlobals, GlobalsRead, GlobalsEnd
    PROVE  phase' = "done" \/ (phase' = "route" /\ OnlyGlobals' /\ GlobalsKnown')
<1>. DEFINE flags == ToSet(app.globals)
            layers == [env |-> Env, config |-> Config]
            read == Ambient(flags, globals, stdin, app, layers)
            full == Defaulted(flags, read.store)
            t == full.store
<1>. SUFFICES ASSUME phase' # "done" PROVE phase' = "route" /\ OnlyGlobals' /\ GlobalsKnown'
    OBVIOUS
<1>1. /\ globals' = t /\ phase' = "route" /\ UNCHANGED <<input, pre, typed>>
  <2>1. ~Refuse("globals")
      BY FinishesAs
  <2>. QED BY <2>1 DEF GlobalsEnd, GlobalFrame
<1>2. Distinct(flags)
    BY GlobalsAreDistinct DEF HandInv, InputsOK
<1>3. ASSUME NEW g \in flags
      PROVE  /\ g.name \in DOMAIN t
             /\ t[g.name] = IF g.name \in DOMAIN globals THEN globals[g.name] ELSE LayerOf(g)
  <2>. DEFINE n == g.name
              s == read.store
  <2>1. /\ n \in DOMAIN globals => n \in DOMAIN s /\ s[n] = globals[n]
        /\ n \notin DOMAIN globals =>
            IF g.env /\ n \in DOMAIN Env
            THEN n \in DOMAIN s /\ s[n] = Sourced(FromWords(g, Env[n]), "env")
            ELSE IF n \in DOMAIN Config
            THEN n \in DOMAIN s /\ s[n] = Sourced(Config[n], "config")
            ELSE n \notin DOMAIN s
    <3>. HIDE DEF flags
    <3>. QED BY <1>2, LayersBind
  <2>. HIDE DEF read, flags
  <2>2. n \in DOMAIN t /\ t[n] = IF n \in DOMAIN s THEN s[n] ELSE Sourced(g.dflt, "default")
      BY <1>2, DefaultBinds
  <2>. HIDE DEF t, s
  <2>. QED BY <2>1, <2>2 DEF LayerOf
<1>. HIDE DEF t
<1>4. \A d : LayerOf(d)' = LayerOf(d)
    BY <1>1, LayersAreRead
<1>5. OnlyGlobals'
    BY <1>1 DEF OnlyGlobals, IsGlobalWord, input
<1>6. \A g \in flags : GlobalSaid(g)' = GlobalSaid(g) /\ GlobalValue(g)' = GlobalValue(g)
    BY <1>1 DEF GlobalSaid, GlobalValue
<1>7. GlobalsKnown'
    BY <1>1, <1>3, <1>4, <1>6 DEF GlobalsKnown, GlobalsRead, input
<1>. QED BY <1>1, <1>5, <1>7

-----------------------------------------------------------------------------
(* The invariant: what has been said of each declaration so far.             *)

\* What is known of an entry read after the command word.
WellShaped(e) ==
    /\ Len(e.names) \in Nat /\ DOMAIN e.names = 1..Len(e.names)
    /\ e.what # "scoped" => e.names = <<e.names[1]>>
    /\ e.what = "global" => e.names[1] \in NamesOf(app.globals)
    /\ e.what = "no" => \A x \in Entries(Command) : x.name = e.names[1] => x.schema = "bool"

\* Those read before it come first.
Shaped ==
    /\ \A i \in DOMAIN typed : WellShaped(typed[i])
    /\ \A i, j \in DOMAIN typed : i < j /\ typed[j].what = "global" => typed[i].what = "global"

RootSaid(n) == Spoken(typed, {"root"}, n)
AllSaid(f) == SpokenWords(typed, {"root", "global"}, f.name)

\* The store has what the command's own tokens said, with the words of the
\* globals that came before the command word.
StoreRead ==
    \A f \in RootFlags :
        /\ f.name \in DOMAIN store <=> f.name \in Unsets \/ RootSaid(f.name) # {}
        /\ problems = {} /\ f.name \notin Unsets /\ RootSaid(f.name) # {} =>
                store[f.name] = Sourced(FromWords(f, AllSaid(f)), "cli")

\* Of a live declaration that is resolved the highest layer that binds it says
\* what the resolution has.
AgreesWith(d, high, elected, values, provided) ==
    /\ IsSelector(d) =>
        high.via = elected[Key(d)].via /\ high.value = <<elected[Key(d)].choice>>
    /\ ScopedFlag(d) =>
        values[Key(d)] = high.value /\ (Key(d) \in provided <=> high.via # "default")
AgreesOn(d) == AgreesWith(d, Highest(d), scopes.elected, scopes.values, scopes.provided)
Agreed ==
    problems = {} => \A j \in 1..(scopes.next - 1) :
        Live(Command.decls[j]) => AgreesOn(Command.decls[j])

SourceInv ==
    /\ ScopeInv
    /\ phase \in ArgvPhases => OnlyGlobals
    /\ phase \in ArgvPhases \ {"route"} => GlobalsRead
    /\ phase = "route" \/ Parsing => GlobalsKnown
    /\ Parsing => Shaped
    /\ Stored => StoreRead /\ Agreed

-----------------------------------------------------------------------------
(* The names of the command line, in the order of declaration.               *)

Flattening(seqs, n, g) ==
    g = [i \in 1..n |-> IF i = 1 THEN seqs[i] ELSE g[i - 1] \o seqs[i]]

\* The concatenations of a sequence of sequences.
LEMMA FlatteningsExist ==
    ASSUME NEW seqs, NEW n \in Nat
    PROVE  \E g : Flattening(seqs, n, g)
<1>1. ASSUME NEW m \in Nat, NEW g, Flattening(seqs, m, g)
      PROVE  \E h : Flattening(seqs, m + 1, h)
  <2>. DEFINE last == IF m + 1 = 1 THEN seqs[m + 1] ELSE g[m] \o seqs[m + 1]
              h == [k \in 1..(m + 1) |-> IF k = m + 1 THEN last ELSE g[k]]
  <2>1. \A k \in 1..m : g[k] = IF k = 1 THEN seqs[k] ELSE g[k - 1] \o seqs[k]
      BY <1>1 DEF Flattening
  <2>2. \A k \in 1..m : h[k] = g[k]
    <3>1. \A k \in 1..m : k \in 1..(m + 1) /\ k # m + 1
        OBVIOUS
    <3>. HIDE DEF last
    <3>. QED BY <3>1
  <2>3. h[m + 1] = last /\ m + 1 \in 1..(m + 1) /\ (m + 1) - 1 = m
    <3>. HIDE DEF last
    <3>. QED OBVIOUS
  <2>4. ASSUME NEW k \in 1..(m + 1)
        PROVE  h[k] = IF k = 1 THEN seqs[k] ELSE h[k - 1] \o seqs[k]
    <3>. HIDE DEF h
    <3>1. CASE k = m + 1
      <4>1. CASE k = 1
          BY <2>3, <3>1, <4>1
      <4>2. CASE k # 1
        <5>1. m \in 1..m
            BY <3>1, <4>2
        <5>2. h[k - 1] = g[m]
            BY <2>2, <2>3, <3>1, <5>1
        <5>. QED BY <2>3, <3>1, <4>2, <5>2
      <4>. QED BY <4>1, <4>2
    <3>2. CASE k # m + 1
      <4>1. k \in 1..m /\ (k # 1 => k - 1 \in 1..m)
          BY <3>2
      <4>. QED BY <2>1, <2>2, <4>1
    <3>. QED BY <3>1, <3>2
  <2>5. h = [k \in 1..(m + 1) |-> h[k]]
    <3>. HIDE DEF last
    <3>. QED OBVIOUS
  <2>. HIDE DEF h
  <2>6. Flattening(seqs, m + 1, h)
      BY <2>4, <2>5 DEF Flattening
  <2>. QED BY <2>6
<1>2. \E g : Flattening(seqs, 0, g)
  <2>. DEFINE h == [k \in 1..0 |-> k]
  <2>1. Flattening(seqs, 0, h)
      BY DEF Flattening
  <2>. QED BY <2>1
<1>. DEFINE Missing == {m \in Nat : ~ \E g : Flattening(seqs, m, g)}
<1>. SUFFICES ASSUME Missing # {} PROVE FALSE
    OBVIOUS
<1>3. PICK m \in Missing : \A k \in Missing : m <= k
    BY LeastNumber
<1>4. m # 0
    BY <1>2
<1>5. m - 1 \in Nat /\ m - 1 \notin Missing
    BY <1>3, <1>4
<1>6. PICK g : Flattening(seqs, m - 1, g)
    BY <1>5
<1>7. \E h : Flattening(seqs, (m - 1) + 1, h)
    BY <1>1, <1>5, <1>6
<1>. QED BY <1>7

\* The elements of sequences put together are those of each.
LEMMA FlatHolds ==
    ASSUME NEW S, NEW seqs \in Seq(Seq(S))
    PROVE  /\ FlattenSeq(seqs) \in Seq(S)
           /\ ToSet(FlattenSeq(seqs)) = UNION {ToSet(seqs[i]) : i \in DOMAIN seqs}
<1>. DEFINE n == Len(seqs)
            flat == FlattenSeq(seqs)
<1>1. n \in Nat /\ DOMAIN seqs = 1..n /\ \A i \in 1..n : seqs[i] \in Seq(S)
    OBVIOUS
<1>2. CASE n = 0
  <2>1. seqs = <<>>
      BY <1>2
  <2>2. flat = <<>>
      BY <1>2, <2>1 DEF FlattenSeq
  <2>3. ToSet(<<>>) = {} /\ DOMAIN seqs = {}
      BY <1>1, <1>2 DEF ToSet
  <2>. QED BY <2>2, <2>3
<1>3. CASE n # 0
  <2>. DEFINE after == CHOOSE g : g = [i \in 1..n |->
                            IF i = 1 THEN seqs[i] ELSE g[i - 1] \o seqs[i]]
  <2>1. Flattening(seqs, n, after)
    <3>1. \E g : g = [i \in 1..n |-> IF i = 1 THEN seqs[i] ELSE g[i - 1] \o seqs[i]]
      <4>1. \E g : Flattening(seqs, n, g)
          BY <1>1, FlatteningsExist
      <4>. QED BY <4>1 DEF Flattening
    <3>. QED BY ZenonT(60), <3>1 DEF Flattening
  <2>2. flat = after[n]
      BY <1>3 DEF FlattenSeq
  <2>. HIDE DEF after, flat, n
  <2>3. \A i \in 1..n : after[i] = IF i = 1 THEN seqs[i] ELSE after[i - 1] \o seqs[i]
      BY <2>1 DEF Flattening
  <2>. DEFINE Good(i) == /\ after[i] \in Seq(S)
                         /\ ToSet(after[i]) = UNION {ToSet(seqs[j]) : j \in 1..i}
              Bad == {i \in 1..n : ~Good(i)}
  <2>4. Bad = {}
    <3>. SUFFICES ASSUME Bad # {} PROVE FALSE
        OBVIOUS
    <3>1. Bad \subseteq Nat
        BY <1>1
    <3>2. PICK i \in Bad : \A k \in Bad : i <= k
      <4>. HIDE DEF Bad
      <4>. QED BY <3>1, LeastNumber
    <3>3. i \in 1..n /\ ~Good(i)
        OBVIOUS
    <3>4. CASE i = 1
      <4>1. after[i] = seqs[1] /\ 1 \in 1..n
          BY <2>3, <3>3, <3>4
      <4>2. {ToSet(seqs[j]) : j \in 1..1} = {ToSet(seqs[1])}
          OBVIOUS
      <4>3. UNION {ToSet(seqs[1])} = ToSet(seqs[1])
          OBVIOUS
      <4>. QED BY <1>1, <3>3, <3>4, <4>1, <4>2, <4>3
    <3>5. CASE i # 1
      <4>1. i - 1 \in 1..n /\ i - 1 \notin Bad /\ i - 1 \in Nat
        <5>1. i - 1 \in 1..n /\ i - 1 \in Nat /\ ~(i <= i - 1)
            BY <1>1, <3>3, <3>5
        <5>. HIDE DEF Bad
        <5>. QED BY <3>2, <5>1
      <4>2. Good(i - 1)
          BY <4>1
      <4>. DEFINE a == after[i - 1]
                  b == seqs[i]
      <4>3. a \in Seq(S) /\ b \in Seq(S) /\ after[i] = a \o b
          BY <1>1, <2>3, <3>3, <3>5, <4>2
      <4>4. ToSet(a) = UNION {ToSet(seqs[j]) : j \in 1..(i - 1)}
          BY <4>2
      <4>5. \A j \in 1..i : j \in 1..(i - 1) \/ j = i
          BY <1>1, <3>3
      <4>6. 1..(i - 1) \subseteq 1..i /\ i \in 1..i
          BY <1>1, <3>3
      <4>. HIDE DEF a, b
      <4>7. a \o b \in Seq(S) /\ ToSet(a \o b) = ToSet(a) \cup ToSet(b)
        <5>. DEFINE k == Len(a)
                    l == Len(b)
                    c == a \o b
        <5>1. k \in Nat /\ l \in Nat /\ DOMAIN a = 1..k /\ DOMAIN b = 1..l
            BY <4>3
        <5>2. c \in Seq(S) /\ DOMAIN c = 1..(k + l)
              /\ \A j \in 1..(k + l) : c[j] = IF j <= k THEN a[j] ELSE b[j - k]
            BY <4>3
        <5>. HIDE DEF c, k, l
        <5>3. \A j \in 1..(k + l) : c[j] \in {a[x] : x \in 1..k} \cup {b[x] : x \in 1..l}
          <6>1. \A j \in 1..(k + l) : (j <= k => j \in 1..k) /\ (~(j <= k) => j - k \in 1..l)
              BY <5>1
          <6>. QED BY <5>2, <6>1
        <5>4. \A x \in 1..k : a[x] = c[x] /\ x \in 1..(k + l)
            BY <5>1, <5>2
        <5>5. \A x \in 1..l : b[x] = c[k + x] /\ k + x \in 1..(k + l)
          <6>1. \A x \in 1..l : k + x \in 1..(k + l) /\ ~(k + x <= k) /\ (k + x) - k = x
              BY <5>1
          <6>. QED BY <5>2, <6>1
        <5>6. ToSet(c) = {c[j] : j \in 1..(k + l)}
              /\ ToSet(a) = {a[x] : x \in 1..k} /\ ToSet(b) = {b[x] : x \in 1..l}
            BY <5>1, <5>2 DEF ToSet
        <5>7. ToSet(c) = ToSet(a) \cup ToSet(b)
          <6>1. \A x \in ToSet(c) : x \in ToSet(a) \cup ToSet(b)
              BY <5>3, <5>6
          <6>2. ToSet(a) \subseteq ToSet(c) /\ ToSet(b) \subseteq ToSet(c)
              BY <5>4, <5>5, <5>6
          <6>. QED BY <6>1, <6>2
        <5>. QED BY <5>2, <5>7 DEF c
      <4>8. UNION {ToSet(seqs[j]) : j \in 1..i} = ToSet(a) \cup ToSet(b)
          BY <4>4, <4>5, <4>6 DEF b
      <4>. QED BY <3>3, <4>3, <4>7, <4>8
    <3>. QED BY <3>4, <3>5
  <2>5. n \in 1..n
      BY <1>1, <1>3
  <2>6. Good(n)
      BY <2>4, <2>5
  <2>. QED BY SMTT(60), <1>1, <2>2, <2>6 DEF flat
<1>. QED BY <1>2, <1>3

\* The index of a command has its entries and no other.
LEMMA IndexHolds ==
    ASSUME Registered(app), InCommand
    PROVE  LET index == ScopeIndex(Command)
           IN  /\ index \in Seq(Entries(Command)) /\ ToSet(index) = Entries(Command)
               /\ Len(index) \in Nat /\ DOMAIN index = 1..Len(index)
<1>. DEFINE decls == Command.decls
            index == ScopeIndex(Command)
            S == Entries(Command)
            n == Len(decls)
            seqs == [i \in DOMAIN decls |-> SurfaceNames(decls[i])]
<1>1. n \in Nat /\ DOMAIN decls = 1..n /\ ToSet(decls) = {decls[i] : i \in 1..n}
    BY TreeOfTheCommand
<1>2. \A i \in 1..n : decls[i].alts \in Seq(AlternativeType)
  <2>1. \A d \in ToSet(decls) : d \in DeclarationType
      BY RegisteredCommand
  <2>. QED BY <1>1, <2>1 DEF DeclarationType
<1>3. S = UNION {ToSet(SurfaceNames(decls[i])) : i \in 1..n}
    BY <1>1 DEF Entries
<1>. HIDE DEF S, n, decls
<1>4. ASSUME NEW i \in 1..n
      PROVE  SurfaceNames(decls[i]) \in Seq(S)
  <2>. DEFINE d == decls[i]
              s == SurfaceNames(d)
  <2>1. ToSet(s) \subseteq S
      BY <1>3
  <2>2. \E m \in Nat : DOMAIN s = 1..m /\ s = [k \in 1..m |-> s[k]]
    <3>1. CASE d.kind # "member"
      <4>1. PICK e : e = [name |-> d.name, schema |-> d.schema, elects |-> "",
                          short |-> d.short, decl |-> d]
          OBVIOUS
      <4>2. s = <<e>>
          BY <3>1, <4>1 DEF SurfaceNames
      <4>. HIDE DEF s
      <4>3. DOMAIN s = 1..1 /\ s = [k \in 1..1 |-> s[k]]
          BY <4>2
      <4>. QED BY <4>3
    <3>2. CASE d.kind = "member"
      <4>1. PICK m \in Nat : DOMAIN d.alts = 1..m
          BY <1>2
      <4>2. s = [k \in DOMAIN d.alts |->
                    [name |-> d.alts[k].name, schema |-> d.alts[k].schema,
                     elects |-> d.alts[k].name, short |-> d.alts[k].short, decl |-> d]]
          BY <3>2 DEF SurfaceNames
      <4>. HIDE DEF s
      <4>3. DOMAIN s = 1..m /\ s = [k \in 1..m |-> s[k]]
          BY <4>1, <4>2
      <4>. QED BY <4>3
    <3>. QED BY <3>1, <3>2
  <2>. HIDE DEF s
  <2>3. PICK m \in Nat : DOMAIN s = 1..m /\ s = [k \in 1..m |-> s[k]]
      BY <2>2
  <2>4. \A k \in 1..m : s[k] \in S
      BY <2>1, <2>3 DEF ToSet
  <2>5. s \in [1..m -> S]
      BY <2>3, <2>4
  <2>6. s \in Seq(S)
      BY <2>5
  <2>. QED BY <2>6 DEF s
<1>5. seqs \in Seq(Seq(S)) /\ DOMAIN seqs = 1..n /\ \A i \in 1..n : seqs[i] = SurfaceNames(decls[i])
  <2>1. seqs = [i \in 1..n |-> SurfaceNames(decls[i])]
      BY <1>1
  <2>. HIDE DEF seqs
  <2>2. seqs \in [1..n -> Seq(S)]
      BY <1>4, <2>1
  <2>. QED BY <1>1, <2>1, <2>2
<1>6. index = FlattenSeq(seqs)
    BY DEF ScopeIndex, decls
<1>. HIDE DEF seqs, index
<1>7. index \in Seq(S) /\ ToSet(index) = UNION {ToSet(seqs[i]) : i \in DOMAIN seqs}
    BY <1>5, <1>6, FlatHolds
<1>8. ToSet(index) = S
    BY <1>3, <1>5, <1>7
<1>9. Len(index) \in Nat /\ DOMAIN index = 1..Len(index)
    BY <1>7
<1>. QED BY <1>7, <1>8, <1>9 DEF index, S

\* Names two scopes share, where both cannot be open, are under one selector.
LEMMA SiblingsShareAShape ==
    ASSUME Registered(app), InCommand, NEW a \in Entries(Command), NEW b \in Entries(Command),
           a.name = b.name
    PROVE  a.schema = b.schema \/ a = b
<1>. SUFFICES ASSUME a # b PROVE a.schema = b.schema
    OBVIOUS
<1>. DEFINE decls == Command.decls
            p == a.decl.path
            q == b.decl.path
<1>1. PICK m \in 1..Len(decls) : a.decl = decls[m]
    BY NamesOfADeclaration, TreeOfTheCommand
<1>2. PICK l \in 1..Len(decls) : b.decl = decls[l]
    BY NamesOfADeclaration, TreeOfTheCommand
<1>3. p \in Seq(STRING \X STRING) /\ q \in Seq(STRING \X STRING) /\ Len(decls) \in Nat
    BY <1>1, <1>2, TreeOfTheCommand
<1>4. ~SimultaneouslyElectable(p, q)
  <2>1. \A x, y \in Entries(Command) : x.name = y.name /\ x # y =>
            ~SimultaneouslyElectable(x.decl.path, y.decl.path)
      BY RegisteredCommand DEF NamesOK
  <2>. QED BY <2>1
<1>. HIDE DEF p, q
<1>5. PICK i \in DOMAIN p \cap DOMAIN q :
            SubSeq(p, 1, i - 1) = SubSeq(q, 1, i - 1) /\ p[i][1] = q[i][1] /\ p[i][2] # q[i][2]
    BY <1>4 DEF SimultaneouslyElectable
<1>6. PICK j \in 1..(m - 1) : IsSelector(decls[j]) /\ Key(decls[j]) = StepKey(decls[m].path, i)
    BY <1>1, <1>5, TreeOfTheCommand DEF p
<1>. DEFINE s == decls[j]
            n == Len(s.path) + 1
<1>7. s.path = SubSeq(p, 1, i - 1) /\ s.name = p[i][1] /\ j \in 1..Len(decls)
    BY <1>1, <1>3, <1>6 DEF Key, StepKey, p
<1>8. i \in 1..Len(p) /\ i \in 1..Len(q) /\ Len(p) \in Nat /\ Len(q) \in Nat
    BY <1>3, <1>5
<1>9. n = i
  <2>1. Len(SubSeq(p, 1, i - 1)) = i - 1
      BY <1>3, <1>8
  <2>. HIDE DEF s
  <2>. QED BY <1>7, <1>8, <2>1
<1>10. SiblingShapesOK(ScopeIndex(Command), s)
  <2>1. RegisterOK(Command, app.globals)
      BY DEF Registered, InCommand, Command
  <2>2. \A d \in ToSet(decls) : ~IsFlag(d) => SiblingShapesOK(ScopeIndex(Command), d)
      BY <2>1 DEF RegisterOK, CommandOK, InCommand
  <2>3. s \in ToSet(decls) /\ ~IsFlag(s)
      BY <1>6, <1>7, TreeOfTheCommand DEF IsSelector, IsFlag
  <2>. HIDE DEF s
  <2>. QED BY <2>2, <2>3
<1>11. a \in ToSet(ScopeIndex(Command)) /\ b \in ToSet(ScopeIndex(Command))
    BY IndexHolds
<1>. DEFINE Under(e) == /\ Len(e.decl.path) >= n
                        /\ SubSeq(e.decl.path, 1, n - 1) = s.path
                        /\ e.decl.path[n][1] = s.name
<1>12. Under(a) /\ Under(b) /\ a.decl.path[n][2] # b.decl.path[n][2]
  <2>1. Len(p) >= i /\ Len(q) >= i
      BY <1>8
  <2>. HIDE DEF s, n
  <2>. QED BY SMTT(60), <1>5, <1>7, <1>9, <2>1 DEF p, q
<1>13. \A x, y \in ToSet(ScopeIndex(Command)) :
            Under(x) /\ Under(y) /\ x.name = y.name /\ x.decl.path[n][2] # y.decl.path[n][2]
            => x.schema = y.schema
  <2>. HIDE DEF s
  <2>. QED BY <1>10 DEF SiblingShapesOK
<1>. HIDE DEF Under, n
<1>. QED BY <1>11, <1>12, <1>13

\* What the index has of a name it has.
LEMMA EntriesOfAName ==
    ASSUME Registered(app), InCommand, NEW n, n \in Names(Entries(Command))
    PROVE  /\ EntriesOf(ScopeIndex(Command), n)[1] \in Entries(Command)
           /\ EntriesOf(ScopeIndex(Command), n)[1].name = n
<1>. DEFINE index == ScopeIndex(Command)
            P == {i \in DOMAIN index : index[i].name = n}
<1>1. ToSet(index) = Entries(Command) /\ Len(index) \in Nat /\ DOMAIN index = 1..Len(index)
    BY IndexHolds
<1>. HIDE DEF index
<1>2. PICK x \in Entries(Command) : x.name = n
    BY DEF Names
<1>3. P # {}
    BY <1>1, <1>2 DEF ToSet
<1>4. IsFiniteSet(P) /\ P \subseteq Nat
  <2>1. IsFiniteSet(1..Len(index)) /\ P \in SUBSET (1..Len(index)) /\ 1..Len(index) \subseteq Nat
      BY SMTT(60), <1>1, FS_Interval
  <2>. QED BY <2>1, FS_Subset
<1>. HIDE DEF P
<1>5. Cardinality(P) \in Nat /\ Cardinality(P) # 0
    BY <1>3, <1>4, FS_CardinalityType, FS_EmptySet
<1>6. 1 \in 1..Cardinality(P)
    BY <1>5
<1>7. Sublist(index, P)[1] = index[PlaceAt(P, 1)] /\ PlaceAt(P, 1) \in P
  <2>1. \A k \in 1..Cardinality(P) : PlaceAt(P, k) \in P
      BY <1>4, PlacesInOrder
  <2>2. \A k \in 1..Cardinality(P) : Sublist(index, P)[k] = index[PlaceAt(P, k)]
      BY SublistIs
  <2>. QED BY <1>6, <2>1, <2>2
<1>8. EntriesOf(index, n) = Sublist(index, P)
    BY DEF EntriesOf, P
<1>9. \A i \in P : index[i] \in Entries(Command) /\ index[i].name = n
    BY <1>1 DEF P, ToSet
<1>. QED BY <1>7, <1>8, <1>9 DEF index

\* No name of a negated entry takes a value, so it is no token selector's.
LEMMA NegatedNames ==
    ASSUME Registered(app), InCommand, NEW t, NEW n \in ScopedNegations(t),
           NEW x \in Entries(Command), x.name = n
    PROVE  x.schema = "bool"
<1>. DEFINE e == EntriesOf(ScopeIndex(Command), n)[1]
<1>1. n \in Names(Entries(Command)) /\ ScopedEntries(n) # <<>> /\ ~ScopedTakes(n)
    BY DEF ScopedNegations
<1>2. e \in Entries(Command) /\ e.name = n
    BY <1>1, EntriesOfAName
<1>3. ScopedEntries(n)[1] = e
    BY <1>1 DEF ScopedEntries
<1>. HIDE DEF e
<1>4. e.schema = "bool"
    BY <1>1, <1>3 DEF ScopedTakes, TakesValue
<1>. QED BY <1>2, <1>4, SiblingsShareAShape

\* The names a token may stand for are a sequence.
LEMMA ScopedTargetNames ==
    ASSUME Registered(app), InCommand, NEW t
    PROVE  /\ Len(ScopedTargets(t)) \in Nat
           /\ DOMAIN ScopedTargets(t) = 1..Len(ScopedTargets(t))
<1>. DEFINE index == ScopeIndex(Command)
            Claims(e) == /\ ScopedEntries(e.name) # <<>>
                         /\ IF t.form = "short" THEN e.short = t.name ELSE e.name = t.name
            names == [i \in DOMAIN index |-> index[i].name]
            first == {i \in DOMAIN index : Claims(index[i]) /\
                        \A j \in 1..(i - 1) : Claims(index[j]) => names[j] # names[i]}
            T == ScopedTargets(t)
<1>1. T = Sublist(names, first)
    BY DEF ScopedTargets
<1>2. Len(index) \in Nat /\ DOMAIN index = 1..Len(index)
    BY IndexHolds
<1>3. first \subseteq DOMAIN index
    OBVIOUS
<1>. HIDE DEF T, first, names, index
<1>4. Cardinality(first) \in Nat
  <2>1. IsFiniteSet(1..Len(index))
      BY <1>2, FS_Interval
  <2>2. IsFiniteSet(first)
      BY <1>2, <1>3, <2>1, FS_Subset
  <2>. QED BY <2>2, FS_CardinalityType
<1>. DEFINE m == Cardinality(first)
<1>5. DOMAIN T = 1..m /\ T = [k \in 1..m |-> T[k]]
    BY <1>1, SublistIs
<1>. HIDE DEF m
<1>6. m \in Nat
    BY <1>4 DEF m
<1>7. Len(T) = m
    BY <1>5, <1>6
<1>. QED BY <1>5, <1>6, <1>7 DEF T

-----------------------------------------------------------------------------
(* The steps before the command's own tokens.                                *)

EarlyOK ==
    /\ phase \in ArgvPhases => OnlyGlobals
    /\ phase \in ArgvPhases \ {"route"} => GlobalsRead
    /\ phase = "route" \/ Parsing => GlobalsKnown

\* A step that gives no global.
LEMMA NothingGiven ==
    ASSUME UNCHANGED <<input, typed, globals>>
    PROVE  /\ OnlyGlobals' = OnlyGlobals /\ GlobalsRead' = GlobalsRead
           /\ UNCHANGED pre => GlobalsKnown' = GlobalsKnown
<1>1. OnlyGlobals' = OnlyGlobals
    BY DEF OnlyGlobals, IsGlobalWord, input
<1>2. \A g : GlobalSaid(g)' = GlobalSaid(g) /\ GlobalValue(g)' = GlobalValue(g)
    BY DEF GlobalSaid, GlobalValue
<1>3. GlobalsRead' = GlobalsRead
    BY <1>2 DEF GlobalsRead, input
<1>4. ASSUME UNCHANGED pre
      PROVE  GlobalsKnown' = GlobalsKnown
  <2>1. \A d : LayerOf(d)' = LayerOf(d)
      BY <1>4, LayersAreRead
  <2>. QED BY <1>2, <2>1 DEF GlobalsKnown, input
<1>. QED BY <1>1, <1>3, <1>4

\* The steps before the command word that read no global.
LEMMA QuietSteps ==
    ASSUME \/ Begin \/ ScanReserved \/ ScanConfig \/ ScanExit \/ ScanSkip \/ ScanEnd
           \/ RegionToken \/ RegionEnd \/ Scanned
    PROVE  /\ phase \in ArgvPhases \ {"route"} /\ phase' \in (ArgvPhases \ {"route"}) \cup {"done"}
           /\ UNCHANGED <<input, typed, globals>>
<1>1. CASE Begin
    BY <1>1, FinishesAs DEF Begin, ArgvPhases
<1>2. CASE ScanReserved
    BY <1>2 DEF ScanReserved, Scanning, ScanFrame, ArgvPhases
<1>3. CASE ScanConfig
    BY <1>3, FinishesAs DEF ScanConfig, Scanning, ScanFrame, ArgvPhases
<1>4. CASE ScanExit
    BY <1>4, FinishesAs DEF ScanExit, Scanning, ScanFrame, ArgvPhases
<1>5. CASE ScanSkip
    BY <1>5 DEF ScanSkip, Scanning, ScanFrame, ArgvPhases
<1>6. CASE ScanEnd
    BY <1>6 DEF ScanEnd, ScanFrame, ArgvPhases
<1>7. CASE RegionToken
  <2>1. UNCHANGED <<input, typed, globals>> /\ phase = "region"
      BY <1>7 DEF RegionToken, RegionFrame
  <2>2. phase' = "region" \/ phase' = "scanned"
      BY <1>7, <2>1 DEF RegionToken
  <2>. QED BY <2>1, <2>2 DEF ArgvPhases
<1>8. CASE RegionEnd
    BY <1>8 DEF RegionEnd, RegionFrame, ArgvPhases
<1>9. CASE Scanned
    BY <1>9, FinishesAs DEF Scanned, ArgvPhases
<1>. QED BY <1>1, <1>2, <1>3, <1>4, <1>5, <1>6, <1>7, <1>8, <1>9

\* A step of the command's path reads nothing.
LEMMA RoutingSteps ==
    ASSUME RouteTop \/ RouteFramework \/ RouteCommand
    PROVE  /\ phase = "route" /\ phase' \in {"done", "tokens"}
           /\ UNCHANGED <<input, pre, typed, globals>>
<1>1. \A kind : ShowText(kind) => phase' = "done"
    BY DEF ShowText, Refuse, Show, Finish
<1>2. \A kind : (Refuse(kind) => phase' = "done") /\ (Show(kind) => phase' = "done")
    BY DEF Refuse, Show, Finish
<1>3. \A result : Finish(result) => phase' = "done"
    BY DEF Finish
<1>4. UNCHANGED <<input, pre, typed, globals>> /\ phase = "route"
    BY DEF RouteTop, RouteFramework, RouteCommand, RouteFrame
<1>5. CASE RouteTop
    BY <1>1, <1>4, <1>5 DEF RouteTop
<1>6. CASE RouteFramework
    BY <1>1, <1>2, <1>4, <1>6 DEF RouteFramework
<1>7. CASE RouteCommand
    BY <1>1, <1>2, <1>3, <1>4, <1>7 DEF RouteCommand
<1>. QED BY <1>4, <1>5, <1>6, <1>7

\* Globals alone are well shaped.
LEMMA GlobalsMakeAShape ==
    ASSUME OnlyGlobals'
    PROVE  Shaped'
<1>1. ASSUME NEW i \in DOMAIN typed'
      PROVE  typed'[i].what = "global" /\ WellShaped(typed[i])'
  <2>1. PICK n \in NamesOf(app'.globals) : typed'[i].what = "global" /\ typed'[i].names = <<n>>
      BY DEF OnlyGlobals, IsGlobalWord
  <2>2. \A s : s = <<n>> => Len(s) = 1 /\ DOMAIN s = 1..1 /\ s = <<s[1]>>
      OBVIOUS
  <2>. QED BY <2>1, <2>2 DEF WellShaped
<1>. QED BY <1>1 DEF Shaped

\* Every step before the command's tokens keeps the invariant.
LEMMA EarlySteps ==
    ASSUME HandInv, EarlyOK, ArgvNext, UNCHANGED parseVars
    PROVE  EarlyOK' /\ (Parsing => Shaped)' /\ ~Stored'
<1>1. ArgvStepOK
  <2>1. ArgvInv
      BY DEF HandInv, ArgvInv
  <2>. QED BY <2>1, ScanSteps, RegionSteps, GlobalSteps, RouteSteps DEF ArgvNext
<1>2. ~Ran' /\ ~Stored' /\ (Parsing' => phase' = "tokens") /\ (phase' = "done" => ~Parsing')
    BY <1>1 DEF ArgvStepOK, ArgvPhases, Ran, Stored, Parsing
<1>3. CASE \/ Begin \/ ScanReserved \/ ScanConfig \/ ScanExit \/ ScanSkip \/ ScanEnd
           \/ RegionToken \/ RegionEnd \/ Scanned
  <2>1. /\ phase \in ArgvPhases \ {"route"} /\ phase' \in (ArgvPhases \ {"route"}) \cup {"done"}
        /\ UNCHANGED <<input, typed, globals>>
      BY <1>3, QuietSteps
  <2>2. OnlyGlobals' /\ GlobalsRead'
      BY <2>1, NothingGiven DEF EarlyOK
  <2>3. phase' # "route" /\ ~Parsing'
      BY <1>2, <2>1 DEF ArgvPhases
  <2>. QED BY <1>2, <2>2, <2>3 DEF EarlyOK
<1>4. CASE GlobalInline \/ GlobalNegation \/ GlobalFlag
  <2>1. phase = "globals"
      BY <1>4 DEF GlobalInline, GlobalNegation, GlobalFlag
  <2>2. OnlyGlobals /\ GlobalsRead
      BY <2>1 DEF EarlyOK, ArgvPhases
  <2>3. phase' = "done" \/ (phase' = "globals" /\ OnlyGlobals' /\ GlobalsRead')
      BY <1>4, <2>1, <2>2, GlobalReading
  <2>4. ~Parsing' /\ phase' # "route" /\ (phase' \in ArgvPhases => phase' # "done")
      BY <1>2, <2>3 DEF ArgvPhases
  <2>. QED BY <1>2, <2>3, <2>4 DEF EarlyOK
<1>5. CASE GlobalsEnd
  <2>1. OnlyGlobals /\ GlobalsRead
      BY <1>5 DEF GlobalsEnd, EarlyOK, ArgvPhases
  <2>2. phase' = "done" \/ (phase' = "route" /\ OnlyGlobals' /\ GlobalsKnown')
      BY <1>5, <2>1, GlobalsEndReading
  <2>3. ~Parsing' /\ phase' \notin ArgvPhases \ {"route"} /\ (phase' \in ArgvPhases => phase' # "done")
      BY <1>2, <2>2 DEF ArgvPhases
  <2>. QED BY <1>2, <2>2, <2>3 DEF EarlyOK
<1>6. CASE RouteTop \/ RouteFramework \/ RouteCommand
  <2>1. /\ phase = "route" /\ phase' \in {"done", "tokens"}
        /\ UNCHANGED <<input, pre, typed, globals>>
      BY <1>6, RoutingSteps
  <2>2. OnlyGlobals' /\ GlobalsKnown'
      BY <2>1, NothingGiven DEF EarlyOK, ArgvPhases
  <2>3. Shaped'
      BY <2>2, GlobalsMakeAShape
  <2>4. phase' \notin ArgvPhases
      BY <2>1 DEF ArgvPhases
  <2>. QED BY <1>2, <2>2, <2>3, <2>4 DEF EarlyOK
<1>. QED BY <1>3, <1>4, <1>5, <1>6 DEF ArgvNext

-----------------------------------------------------------------------------
(* The steps of the token loop.                                              *)

\* The shape of an entry is a matter of the command.
LEMMA ShapeStays ==
    ASSUME UNCHANGED <<input, path>>
    PROVE  \A e : WellShaped(e)' = WellShaped(e)
BY DEF WellShaped, Command, input

\* A token of the command adds to what was said, after the globals.
LEMMA GivesMore ==
    ASSUME HandInv, UNCHANGED <<input, pre, globals, path>>, GlobalsKnown, Shaped,
           NEW e, e.what # "global", WellShaped(e), typed' = Append(typed, e)
    PROVE  GlobalsKnown' /\ Shaped'
<1>. DEFINE K == {"global"}
<1>0. IsRead(typed) /\ e.what \notin K
    BY DEF HandInv, WordsRead, IsRead
<1>1. \A g : GlobalSaid(g)' = GlobalSaid(g) /\ GlobalValue(g)' = GlobalValue(g)
  <2>1. \A n : /\ Spoken(typed', K, n) = Spoken(typed, K, n)
               /\ SpokenWords(typed', K, n) = SpokenWords(typed, K, n)
    <3>. HIDE DEF K
    <3>1. ASSUME NEW n
          PROVE  /\ Spoken(Append(typed, e), K, n) = Spoken(typed, K, n)
                 /\ SpokenWords(Append(typed, e), K, n) = SpokenWords(typed, K, n)
        BY <1>0, AsideWord
    <3>. QED BY <3>1
  <2>. QED BY <2>1 DEF GlobalSaid, GlobalValue
<1>2. GlobalsKnown'
  <2>1. \A d : LayerOf(d)' = LayerOf(d)
      BY LayersAreRead
  <2>. QED BY <1>1, <2>1 DEF GlobalsKnown, input
<1>. DEFINE m == Len(typed)
<1>3. m \in Nat /\ DOMAIN typed = 1..m /\ DOMAIN typed' = 1..(m + 1)
      /\ typed'[m + 1] = e /\ \A i \in 1..m : typed'[i] = typed[i]
    BY <1>0 DEF IsRead
<1>. HIDE DEF m
<1>4. \A i \in 1..(m + 1) : i \in 1..m \/ i = m + 1
    BY <1>3
<1>5. \A i \in DOMAIN typed' : WellShaped(typed'[i])
    BY <1>3, <1>4 DEF Shaped
<1>6. \A i \in DOMAIN typed' : WellShaped(typed[i])'
  <2>1. \A x : WellShaped(x)' = WellShaped(x)
      BY ShapeStays
  <2>2. ASSUME NEW i \in DOMAIN typed'
        PROVE  WellShaped(typed[i])'
    <3>1. PICK x : x = typed'[i]
        OBVIOUS
    <3>2. WellShaped(x)' = WellShaped(x) /\ WellShaped(x)
        BY <1>5, <2>1, <3>1
    <3>. QED BY <3>1, <3>2 DEF WellShaped
  <2>. QED BY <2>2
<1>7. \A i, j \in DOMAIN typed' : i < j /\ typed'[j].what = "global" => typed'[i].what = "global"
  <2>1. ASSUME NEW i \in DOMAIN typed', NEW j \in DOMAIN typed', i < j, typed'[j].what = "global"
        PROVE  typed'[i].what = "global"
    <3>1. j \in 1..m
        BY <1>3, <1>4, <2>1
    <3>2. i \in 1..m
        BY <1>3, <2>1, <3>1
    <3>. QED BY <1>3, <2>1, <3>1, <3>2 DEF Shaped
  <2>. QED BY <2>1
<1>. QED BY <1>2, <1>6, <1>7 DEF Shaped

\* What a token of the command stands for has names, and a flag of the root one.
LEMMA TargetsAreNamed ==
    ASSUME Registered(app), InCommand, NEW t, NEW g \in Targets(t), NEW raw
    PROVE  WellShaped(Entry(g.what, g.names, raw)) /\ g.what # "global"
<1>1. (\E n : g.what = "root" /\ g.names = <<n>>)
      \/ (g.what = "scoped" /\ g.names = ScopedTargets(t))
    BY DEF Targets
<1>2. PICK e : e = Entry(g.what, g.names, raw)
    OBVIOUS
<1>3. e.what = g.what /\ e.names = g.names
    BY <1>2 DEF Entry
<1>4. CASE \E n : g.what = "root" /\ g.names = <<n>>
  <2>1. PICK n : g.what = "root" /\ g.names = <<n>>
      BY <1>4
  <2>2. \A s : s = <<n>> => Len(s) = 1 /\ DOMAIN s = 1..1 /\ s = <<s[1]>>
      OBVIOUS
  <2>3. WellShaped(e)
      BY <1>3, <2>1, <2>2 DEF WellShaped
  <2>. QED BY <1>2, <2>1, <2>3
<1>5. CASE g.what = "scoped" /\ g.names = ScopedTargets(t)
  <2>1. WellShaped(e)
      BY <1>3, <1>5, ScopedTargetNames DEF WellShaped
  <2>. QED BY <1>2, <1>5, <2>1
<1>. QED BY <1>1, <1>4, <1>5

\* An entry of one name is well shaped.
LEMMA OneNameIsAShape ==
    ASSUME NEW what, what # "global", NEW n, NEW raw,
           what = "no" => \A x \in Entries(Command) : x.name = n => x.schema = "bool"
    PROVE  WellShaped(Entry(what, <<n>>, raw))
<1>1. PICK e : e = Entry(what, <<n>>, raw)
    OBVIOUS
<1>2. e.what = what /\ e.names = <<n>>
    BY <1>1 DEF Entry
<1>3. Len(e.names) = 1 /\ DOMAIN e.names = 1..1 /\ e.names[1] = n
    BY <1>2
<1>4. WellShaped(e)
    BY <1>2, <1>3 DEF WellShaped
<1>. QED BY <1>1, <1>4

\* Every step of the token loop keeps what is known.
LEMMA TokensRead ==
    ASSUME HandInv, GlobalsKnown, Shaped,
           \/ TakeWord \/ TakeStop \/ TakeInline \/ TakeNegation \/ TakeUnset \/ TakeFlag
           \/ TakeUnknown
    PROVE  phase' = "tokens" /\ GlobalsKnown' /\ Shaped' /\ UNCHANGED pre
<1>. DEFINE Good == GlobalsKnown' /\ Shaped'
            t == rest[1]
<1>0. phase = "tokens" /\ UNCHANGED <<input, phase, pre, globals, path>>
    BY DEF TakeWord, TakeStop, TakeInline, TakeNegation, TakeUnset, TakeFlag, TakeUnknown,
           Reading, TokenFrame
<1>1. Registered(app) /\ InCommand
    BY <1>0 DEF HandInv, InputsOK, Parsing
<1>2. UNCHANGED typed => Good
  <2>1. ASSUME UNCHANGED typed
        PROVE  Shaped'
      BY <1>0, <2>1 DEF Shaped, WellShaped, Command, input
  <2>. QED BY <1>0, <2>1, NothingGiven
<1>3. ASSUME NEW what, NEW names, NEW raw, what # "global",
             WellShaped(Entry(what, names, raw)), Give(what, names, raw)
      PROVE  Good
  <2>1. PICK e : e = Entry(what, names, raw)
      OBVIOUS
  <2>2. e.what # "global" /\ typed' = Append(typed, e) /\ WellShaped(e)
      BY <1>3, <2>1 DEF Entry, Give
  <2>. QED BY <1>0, <2>2, GivesMore
<1>. HIDE DEF Good
<1>4. ASSUME NEW g \in Targets(t), NEW raw, Give(g.what, g.names, raw)
      PROVE  Good
  <2>. HIDE DEF t
  <2>1. WellShaped(Entry(g.what, g.names, raw)) /\ g.what # "global"
      BY <1>1, TargetsAreNamed
  <2>. QED BY <1>3, <1>4, <2>1
<1>5. ASSUME NEW what \in {"root", "unset"}, NEW n, NEW raw, Give(what, <<n>>, raw)
      PROVE  Good
  <2>1. what # "global" /\ what # "no"
      OBVIOUS
  <2>2. WellShaped(Entry(what, <<n>>, raw))
      BY <2>1, OneNameIsAShape
  <2>. QED BY <1>3, <1>5, <2>1, <2>2
<1>6. ASSUME TakeWord \/ TakeStop \/ TakeUnknown
      PROVE  Good
    BY <1>2, <1>6 DEF TakeWord, TakeStop, TakeUnknown, Complain
<1>7. ASSUME TakeInline
      PROVE  Good
    BY <1>2, <1>4, <1>7 DEF TakeInline, Complain
<1>8. ASSUME TakeNegation
      PROVE  Good
  <2>1. \/ \E f : Give("root", <<f.name>>, "false")
        \/ \E n \in ScopedNegations(t) : Give("no", <<n>>, "false")
      BY <1>8 DEF TakeNegation
  <2>2. ASSUME \E f : Give("root", <<f.name>>, "false")
        PROVE  Good
      BY <1>5, <2>2
  <2>3. ASSUME \E n \in ScopedNegations(t) : Give("no", <<n>>, "false")
        PROVE  Good
    <3>1. PICK n \in ScopedNegations(t) : Give("no", <<n>>, "false")
        BY <2>3
    <3>2. \A x \in Entries(Command) : x.name = n => x.schema = "bool"
      <4>. HIDE DEF t
      <4>. QED BY <1>1, NegatedNames
    <3>3. WellShaped(Entry("no", <<n>>, "false"))
        BY <3>2, OneNameIsAShape
    <3>. QED BY <1>3, <3>1, <3>3
  <2>. QED BY <2>1, <2>2, <2>3
<1>9. ASSUME TakeUnset
      PROVE  Good
    BY <1>5, <1>9 DEF TakeUnset
<1>10. ASSUME TakeFlag
      PROVE  Good
  <2>1. PICK g \in Targets(t) :
            \/ Give(g.what, g.names, "true")
            \/ Give(g.what, g.names, Text(rest[2]))
            \/ UNCHANGED typed
      BY <1>10 DEF TakeFlag, Complain
  <2>. QED BY <1>2, <1>4, <2>1
<1>. QED BY <1>0, <1>6, <1>7, <1>8, <1>9, <1>10 DEF Good

-----------------------------------------------------------------------------
(* The end of the token loop: the store.                                     *)

\* An entry that is not of a scope has one name.
LEMMA PlacesAreSpoken ==
    ASSUME Shaped, NEW what, what # "scoped", NEW n
    PROVE  Places(what, n) = Spoken(typed, {what}, n)
<1>1. ASSUME NEW i \in DOMAIN typed, typed[i].what = what
      PROVE  n \in ToSet(typed[i].names) <=> typed[i].names = <<n>>
  <2>1. PICK s : s = typed[i].names
      OBVIOUS
  <2>2. s = <<s[1]>>
      BY <1>1, <2>1 DEF Shaped, WellShaped
  <2>3. PICK x : x = s[1]
      OBVIOUS
  <2>4. s = <<x>>
      BY <2>2, <2>3
  <2>5. ToSet(s) = {x}
    <3>1. DOMAIN s = {1} /\ s[1] = x
        BY <2>4
    <3>. QED BY <3>1 DEF ToSet
  <2>6. n = x <=> <<x>> = <<n>>
      OBVIOUS
  <2>. QED BY <2>1, <2>4, <2>5, <2>6
<1>. QED BY <1>1 DEF Places, Spoken

\* A flag is unset where an unset was read.
LEMMA UnsetsAreSpoken ==
    ASSUME IsRead(typed), Shaped, NEW n
    PROVE  /\ n \in Unsets <=> Spoken(typed, {"unset"}, n) # {}
           /\ n \in Unsets <=> Count("unset", n) > 0
<1>1. n \in Unsets <=> Spoken(typed, {"unset"}, n) # {}
  <2>1. ASSUME NEW i \in DOMAIN typed, typed[i].what = "unset"
        PROVE  typed[i].names[1] = n <=> typed[i].names = <<n>>
    <3>1. PICK s : s = typed[i].names
        OBVIOUS
    <3>2. s = <<s[1]>>
        BY <2>1, <3>1 DEF Shaped, WellShaped
    <3>3. s[1] = n <=> s = <<n>>
        BY <3>2
    <3>. QED BY <3>1, <3>3
  <2>. QED BY <2>1 DEF Unsets, Spoken, ToSet
<1>2. Count("unset", n) = Cardinality(Spoken(typed, {"unset"}, n))
    BY PlacesAreSpoken DEF Count
<1>3. PICK c : c = Cardinality(Spoken(typed, {"unset"}, n))
    OBVIOUS
<1>4. c \in Nat /\ (Spoken(typed, {"unset"}, n) = {} <=> c = 0)
    BY <1>3, SpokenPlaces
<1>. QED BY <1>1, <1>2, <1>3, <1>4

\* The words before the command word come before those after it.
LEMMA GlobalsComeFirst ==
    ASSUME IsRead(typed), Shaped, NEW n
    PROVE  SpokenWords(typed, {"root", "global"}, n)
                = SpokenWords(typed, {"global"}, n) \o SpokenWords(typed, {"root"}, n)
<1>. DEFINE G == Spoken(typed, {"global"}, n)
            R == Spoken(typed, {"root"}, n)
            A == Spoken(typed, {"root", "global"}, n)
<1>1. A = G \cup R
    BY DEF Spoken
<1>2. /\ IsFiniteSet(G) /\ G \subseteq Nat /\ IsFiniteSet(R) /\ R \subseteq Nat
    BY SpokenPlaces
<1>3. \A i \in G : \A j \in R : i < j
  <2>1. ASSUME NEW i \in G, NEW j \in R
        PROVE  i < j
    <3>1. i \in DOMAIN typed /\ j \in DOMAIN typed /\ typed[i].what = "global" /\ typed[j].what = "root"
        BY DEF Spoken
    <3>2. ~(j < i) /\ i # j
        BY <3>1 DEF Shaped
    <3>3. i \in Nat /\ j \in Nat
        BY <1>2
    <3>. QED BY <3>2, <3>3
  <2>. QED BY <2>1
<1>. HIDE DEF G, R, A
<1>4. RawsOf(Sublist(typed, G \cup R)) = RawsOf(Sublist(typed, G)) \o RawsOf(Sublist(typed, R))
    BY ZenonT(60), <1>2, <1>3, WordsJoin
<1>. QED BY <1>1, <1>4 DEF SpokenWords, G, R, A

\* No flag of a command has the name of another or of a global.
LEMMA RootFlagsAreDistinct ==
    ASSUME Registered(app), InCommand
    PROVE  /\ Distinct(RootFlags)
           /\ \A f \in Flags(Command) : f.name \notin NamesOf(app.globals)
           /\ \A f \in ToSet(app.globals) : f.name \in NamesOf(app.globals)
<1>1. \A f \in Flags(Command) : f.name \notin NamesOf(app.globals)
    BY RegisteredCommand DEF Names
<1>2. \A f \in ToSet(app.globals) : f.name \in NamesOf(app.globals)
    BY DEF ToSet, NamesOf
<1>3. Distinct(ToSet(app.globals))
    BY GlobalsAreDistinct
<1>4. \A f, g \in Flags(Command) : f.name = g.name => f = g
  <2>1. Flags(Command) \subseteq RootDecls(Command)
      BY DEF Flags, RootDecls, AtRoot
  <2>. QED BY <2>1, RootDeclarations
<1>. QED BY <1>1, <1>2, <1>3, <1>4 DEF Distinct, RootFlags

\* Of a flag given after the command word and not repeated, the value is read
\* from all the words it was given.
LEMMA RootValueIs ==
    ASSUME HandInv, InCommand, GlobalsKnown, Shaped, ~Repeated,
           NEW f \in RootFlags, RootSaid(f.name) # {}
    PROVE  RootValue(f) = FromWords(f, AllSaid(f))
<1>. DEFINE n == f.name
            G == Spoken(typed, {"global"}, n)
            R == Spoken(typed, {"root"}, n)
            before == SpokenWords(typed, {"global"}, n)
            words == SpokenWords(typed, {"root"}, n)
<1>1. Registered(app) /\ IsRead(typed) /\ SaidAll(typed)
    BY DEF HandInv, InputsOK, WordsRead, IsRead
<1>2. before \in Seq(Said) /\ words \in Seq(Said) /\ AllSaid(f) = before \o words
    BY <1>1, SpokenAreWords, GlobalsComeFirst DEF AllSaid
<1>3. Places("root", n) = R /\ Places("global", n) = G
    BY PlacesAreSpoken
<1>4. RootRaws(f) = words
    BY <1>3 DEF RootRaws, SpokenWords
<1>5. /\ Cardinality(R) \in Nat /\ Cardinality(G) \in Nat /\ Cardinality(R) # 0
      /\ (G = {} <=> Cardinality(G) = 0) /\ (G = {} <=> before = <<>>)
      /\ words = [k \in 1..Cardinality(R) |-> words[k]]
  <2>1. PICK s : s = typed
      OBVIOUS
  <2>2. IsRead(s)
      BY <1>1, <2>1
  <2>3. /\ Cardinality(R) \in Nat /\ (R = {} <=> Cardinality(R) = 0)
        /\ words = [k \in 1..Cardinality(R) |-> words[k]]
    <3>1. LET P == Spoken(s, {"root"}, n)
              w == SpokenWords(s, {"root"}, n)
          IN  /\ Cardinality(P) \in Nat /\ (P = {} <=> Cardinality(P) = 0)
              /\ w = [k \in 1..Cardinality(P) |-> w[k]]
        BY <2>2, SpokenPlaces
    <3>. QED BY <2>1, <3>1
  <2>4. Cardinality(G) \in Nat /\ (G = {} <=> Cardinality(G) = 0) /\ (G = {} <=> before = <<>>)
    <3>1. LET P == Spoken(s, {"global"}, n)
              w == SpokenWords(s, {"global"}, n)
          IN  Cardinality(P) \in Nat /\ (P = {} <=> Cardinality(P) = 0) /\ (P = {} <=> w = <<>>)
        BY <2>2, SpokenPlaces
    <3>. QED BY <2>1, <3>1
  <2>5. R # {}
      BY DEF RootSaid
  <2>. HIDE DEF R, G, words, before
  <2>. QED BY <2>3, <2>4, <2>5
<1>6. CASE IsScalar(f)
  <2>1. ~(Count("root", n) > 0 /\ Count("root", n) + Count("global", n) > 1)
      BY <1>6 DEF Repeated
  <2>2. Cardinality(R) = 1 /\ Cardinality(G) = 0
      BY <1>3, <1>5, <2>1 DEF Count
  <2>3. words = <<words[1]>> /\ Len(words) = 1 /\ before = <<>>
    <3>. HIDE DEF before, words, G, R
    <3>1. words = [k \in 1..1 |-> words[k]] /\ before = <<>>
        BY <1>5, <2>2
    <3>. QED BY <3>1
  <2>4. RootValue(f) = FromWords(f, <<words[Len(words)]>>)
      BY <1>4, <1>6 DEF RootValue
  <2>. HIDE DEF before, words
  <2>5. before \o words = words /\ <<words[Len(words)]>> = words
      BY <1>2, <2>3
  <2>. QED BY <1>2, <2>4, <2>5
<1>7. CASE ~IsScalar(f)
  <2>. DEFINE told == f \in ToSet(app.globals) /\ globals[n].via = "cli"
  <2>1. RootValue(f) = (IF told THEN globals[n].value ELSE <<>>) \o FromWords(f, words)
      BY <1>4, <1>7 DEF RootValue
  <2>2. told <=> G # {}
    <3>1. CASE f \in ToSet(app.globals)
      <4>1. globals[n] = IF G # {} THEN GlobalValue(f) ELSE LayerOf(f)
          BY <3>1 DEF GlobalsKnown, GlobalSaid
      <4>2. GlobalValue(f).via = "cli" /\ LayerOf(f).via # "cli"
          BY DEF GlobalValue, LayerOf, Sourced
      <4>. QED BY <3>1, <4>1, <4>2
    <3>2. CASE f \notin ToSet(app.globals)
      <4>1. f.name \notin NamesOf(app.globals)
          BY <1>1, <3>2, RootFlagsAreDistinct DEF RootFlags
      <4>2. ASSUME NEW i \in G
            PROVE  FALSE
        <5>1. i \in DOMAIN typed /\ typed[i].what = "global" /\ typed[i].names = <<n>>
            BY DEF Spoken
        <5>2. typed[i].names[1] \in NamesOf(app.globals)
            BY <5>1 DEF Shaped, WellShaped
        <5>. QED BY <4>1, <5>1, <5>2
      <4>. QED BY <3>2, <4>2
    <3>. QED BY <3>1, <3>2
  <2>3. told => globals[n].value = FromWords(f, before)
    <3>1. told => globals[n] = GlobalValue(f)
        BY <2>2 DEF GlobalsKnown, GlobalSaid
    <3>. QED BY <3>1 DEF GlobalValue, Sourced
  <2>4. ~told => FromWords(f, before) = <<>>
    <3>1. FromWords(f, <<>>) = <<>>
        BY DEF FromWords
    <3>. QED BY <1>5, <2>2, <3>1
  <2>. HIDE DEF told, before, words
  <2>5. FromWords(f, before \o words) = FromWords(f, before) \o FromWords(f, words)
      BY <1>2, ValuesJoin
  <2>. QED BY <1>2, <2>1, <2>3, <2>4, <2>5
<1>. QED BY <1>6, <1>7

\* The end of the token loop leaves the store read.
LEMMA TokensEndReading ==
    ASSUME HandInv, GlobalsKnown, Shaped, scopes = NoScopes, TokensEnd
    PROVE  phase' = "scopes" /\ GlobalsKnown' /\ Shaped' /\ StoreRead' /\ Agreed' /\ UNCHANGED pre
<1>. DEFINE read == {f \in RootFlags : Places("root", f.name) # {}}
            unset == [n \in Unsets |-> Sourced(Absent, "cli")]
            given == [n \in Names(read) |-> Sourced(RootValue(Named(read, n)), "cli")]
<1>1. /\ phase = "tokens" /\ phase' = "scopes"
      /\ UNCHANGED <<input, pre, globals, typed, path, scopes>>
      /\ store' = Over(unset, given)
      /\ problems' = {} => ~Repeated
    BY DEF TokensEnd
<1>2. Registered(app) /\ InCommand /\ IsRead(typed)
    BY <1>1 DEF HandInv, InputsOK, Parsing, WordsRead, IsRead
<1>3. GlobalsKnown'
    BY <1>1, NothingGiven
<1>4. Shaped'
    BY <1>1 DEF Shaped, WellShaped, Command, input
<1>5. Agreed'
  <2>1. scopes'.next = 1
      BY <1>1 DEF NoScopes
  <2>2. 1..(1 - 1) = {}
      OBVIOUS
  <2>. QED BY <2>1, <2>2 DEF Agreed
<1>6. DOMAIN store' = Unsets \cup Names(read)
      /\ \A n \in Names(read) \ Unsets : store'[n] = given[n]
    BY <1>1 DEF Over
<1>7. ASSUME NEW f \in RootFlags
      PROVE  /\ f.name \in Names(read) <=> RootSaid(f.name) # {}
             /\ f.name \in Names(read) => Named(read, f.name) = f
  <2>1. Distinct(RootFlags)
      BY <1>2, RootFlagsAreDistinct
  <2>2. Places("root", f.name) = RootSaid(f.name)
      BY PlacesAreSpoken DEF RootSaid
  <2>3. f \in read <=> RootSaid(f.name) # {}
      BY <2>2
  <2>4. \A g \in read : g \in RootFlags
      OBVIOUS
  <2>. HIDE DEF read
  <2>5. f.name \in Names(read) <=> f \in read
      BY <2>1, <2>4 DEF Names, Distinct
  <2>6. f \in read => Named(read, f.name) = f
      BY <2>1, <2>4 DEF Named, Distinct
  <2>. QED BY <2>3, <2>5, <2>6
<1>8. ASSUME NEW f \in RootFlags
      PROVE  /\ f.name \in DOMAIN store' <=> f.name \in Unsets \/ RootSaid(f.name) # {}
             /\ problems' = {} /\ f.name \notin Unsets /\ RootSaid(f.name) # {} =>
                    store'[f.name] = Sourced(FromWords(f, AllSaid(f)), "cli")
  <2>1. ASSUME problems' = {}, f.name \notin Unsets, RootSaid(f.name) # {}
        PROVE  store'[f.name] = Sourced(FromWords(f, AllSaid(f)), "cli")
    <3>1. f.name \in Names(read) /\ Named(read, f.name) = f
        BY <1>7, <2>1
    <3>2. store'[f.name] = Sourced(RootValue(f), "cli")
        BY <1>6, <2>1, <3>1
    <3>3. RootValue(f) = FromWords(f, AllSaid(f))
        BY <1>1, <1>2, <2>1, RootValueIs
    <3>. QED BY <3>2, <3>3
  <2>2. f.name \in DOMAIN store' <=> f.name \in Unsets \/ RootSaid(f.name) # {}
      BY <1>6, <1>7
  <2>. QED BY <2>1, <2>2
<1>9. RootFlags' = RootFlags /\ Unsets' = Unsets /\ (\A n : RootSaid(n)' = RootSaid(n))
      /\ \A f : AllSaid(f)' = AllSaid(f)
    BY <1>1 DEF RootFlags, Command, Unsets, RootSaid, AllSaid, input
<1>10. StoreRead'
    BY <1>8, <1>9 DEF StoreRead
<1>. QED BY <1>1, <1>3, <1>4, <1>5, <1>10

-----------------------------------------------------------------------------
(* What the layers say of a scoped declaration.                              *)

\* The highest layer in terms of the layers a parse reads: a hermetic run and a
\* broken file have empty ones.
LEMMA HighestIs ==
    ASSUME NEW d
    PROVE  LET members == {c \in AltNames(d) : Positive(c) # {}}
           IN  Highest(d) =
                IF d \in RootFlags /\ Count("unset", d.name) > 0 THEN [via |-> "cli", value |-> Absent]
                ELSE IF d.kind = "member" /\ members # {}
                THEN [via |-> "cli", value |-> <<CHOOSE c \in members : TRUE>>]
                ELSE IF d.kind # "member" /\ RawsFor(d) # <<>>
                THEN [via |-> "cli", value |-> FromWords(d, RawsFor(d))]
                ELSE IF d.kind # "member" /\ d.env /\ d.name \in DOMAIN Env
                THEN [via |-> "env", value |-> FromWords(d, Env[d.name])]
                ELSE IF /\ d.kind # "member" /\ d.name \in DOMAIN Config
                        /\ IsSelector(d) => Textual(Config[d.name])
                THEN [via |-> "config", value |-> Config[d.name]]
                ELSE [via |-> "default", value |-> d.dflt]
<1>. DEFINE file == IF app.configEnabled /\ ~ambient.broken THEN ambient.config ELSE <<>>
<1>1. ~pre.hermetic => Env = ambient.env /\ Config = file
    BY DEF Env, Config
<1>2. pre.hermetic => DOMAIN Env = {} /\ DOMAIN Config = {}
    BY DEF Env, Config
<1>3. CASE pre.hermetic
    BY <1>2, <1>3 DEF Highest
<1>4. CASE ~pre.hermetic
    BY <1>1, <1>4 DEF Highest
<1>. QED BY <1>3, <1>4

\* What the walk of the tree looks up is what was said.
LEMMA GivenIsSpoken ==
    ASSUME NEW n
    PROVE  /\ Given(n) = Spoken(typed, {"scoped", "no"}, n)
           /\ Positive(n) = Spoken(typed, {"scoped"}, n)
           /\ RawsAt(Given(n)) = SpokenWords(typed, {"scoped", "no"}, n)
<1>1. Given(n) = Spoken(typed, {"scoped", "no"}, n)
    BY DEF Given, Spoken, IsScopedEntry
<1>2. Positive(n) = Spoken(typed, {"scoped"}, n)
    BY DEF Positive, Given, Spoken, IsScopedEntry
<1>. QED BY <1>1, <1>2 DEF RawsAt, SpokenWords

\* So is what the property looks up.
LEMMA WordsSaidOf ==
    ASSUME NEW d
    PROVE  /\ d \in RootFlags => RawsFor(d) = AllSaid(d)
           /\ d \notin RootFlags => RawsFor(d) = RawsAt(Given(d.name))
<1>1. d \in RootFlags => RawsFor(d) = AllSaid(d)
    BY DEF RawsFor, AllSaid, SpokenWords, Spoken, RawsAt
<1>2. d \notin RootFlags => RawsFor(d) = SpokenWords(typed, {"scoped", "no"}, d.name)
    BY DEF RawsFor, SpokenWords, Spoken, RawsAt
<1>. QED BY <1>1, <1>2, GivenIsSpoken

\* Selectors and scoped flags are not among the root's flags.
LEMMA OnlyFlagsAtTheRoot ==
    ASSUME Registered(app), NEW d, IsSelector(d) \/ ScopedFlag(d)
    PROVE  d \notin RootFlags
<1>1. \A g \in ToSet(app.globals) : AtRoot(g)
    BY DEF Registered, GlobalsOK
<1>. QED BY <1>1 DEF RootFlags, Flags, AtRoot, IsFlag, IsSelector, ScopedFlag

\* What is said of a scoped declaration changes only with the words it was given.
LEMMA HighestStays ==
    ASSUME UNCHANGED <<input, pre, path>>, NEW d, d \notin RootFlags,
           d.kind # "member" => RawsAt(Given(d.name))' = RawsAt(Given(d.name)),
           d.kind = "member" => \A c \in AltNames(d) : Positive(c)' = Positive(c)
    PROVE  Highest(d)' = Highest(d)
<1>1. RootFlags' = RootFlags
    BY DEF RootFlags, Command, input
<1>2. d.kind # "member" => RawsFor(d)' = RawsFor(d)
  <2>1. RawsFor(d) = RawsAt(Given(d.name))
      BY WordsSaidOf
  <2>2. RawsFor(d)' = RawsAt(Given(d.name))'
    <3>1. RawsFor(d)' = SpokenWords(typed', {"scoped", "no"}, d.name)
        BY <1>1 DEF RawsFor, SpokenWords, Spoken, RawsAt
    <3>2. Given(d.name)' = Spoken(typed', {"scoped", "no"}, d.name)
        BY DEF Given, Spoken, IsScopedEntry
    <3>. QED BY <3>1, <3>2 DEF RawsAt, SpokenWords
  <2>. QED BY <2>1, <2>2
<1>. DEFINE members == {c \in AltNames(d) : Positive(c) # {}}
<1>3. d.kind = "member" => members' = members
    BY DEF AltNames
<1>. HIDE DEF members
<1>4. CASE d.kind = "member"
  <2>1. Highest(d) = IF members # {} THEN [via |-> "cli", value |-> <<CHOOSE c \in members : TRUE>>]
                     ELSE [via |-> "default", value |-> d.dflt]
      BY <1>4 DEF Highest, members
  <2>2. Highest(d)' = IF members' # {} THEN [via |-> "cli", value |-> <<CHOOSE c \in members' : TRUE>>]
                      ELSE [via |-> "default", value |-> d.dflt]
      BY <1>1, <1>4 DEF Highest, members
  <2>. QED BY <1>3, <1>4, <2>1, <2>2
<1>5. CASE d.kind # "member"
    BY <1>1, <1>2, <1>5 DEF Highest, Textual, input
<1>. QED BY <1>4, <1>5

-----------------------------------------------------------------------------
(* The names a choice gives to the entries it binds.                         *)

\* An entry that is bound gets one of the names of the scope.
LEMMA BoundName ==
    ASSUME NEW e, WellShaped(e), NEW names
    PROVE  \/ Bind(e, names) = e
           \/ e.what = "scoped" /\ Len(e.names) > 1 /\ \E x \in names : Bind(e, names).names = <<x>>
<1>. DEFINE here == {i \in DOMAIN e.names : e.names[i] \in names}
            b == Bind(e, names)
<1>1. b = IF e.what = "scoped" /\ Len(e.names) > 1 /\ here # {}
          THEN [what |-> e.what, names |-> <<Sublist(e.names, here)[1]>>, raw |-> e.raw] ELSE e
    BY DEF Bind
<1>2. Len(e.names) \in Nat /\ DOMAIN e.names = 1..Len(e.names)
    BY DEF WellShaped
<1>3. IsFiniteSet(here) /\ here \subseteq Nat
  <2>1. PICK m \in Nat : m = Len(e.names)
      BY <1>2
  <2>2. IsFiniteSet(1..m)
      BY <2>1, FS_Interval
  <2>3. here \in SUBSET (1..m)
      BY <1>2, <2>1
  <2>4. 1..m \subseteq Nat
      BY <2>1
  <2>. HIDE DEF here
  <2>. QED BY <2>2, <2>3, <2>4, FS_Subset
<1>4. \A i \in here : e.names[i] \in names
    OBVIOUS
<1>. HIDE DEF here, b
<1>5. ASSUME here # {}
      PROVE  Sublist(e.names, here)[1] \in names
  <2>1. Cardinality(here) \in Nat /\ Cardinality(here) # 0
      BY <1>3, <1>5, FS_CardinalityType, FS_EmptySet
  <2>2. 1 \in 1..Cardinality(here)
      BY <2>1
  <2>3. \A k \in 1..Cardinality(here) : PlaceAt(here, k) \in here
      BY <1>3, PlacesInOrder
  <2>4. \A k \in 1..Cardinality(here) : Sublist(e.names, here)[k] = e.names[PlaceAt(here, k)]
      BY SublistIs
  <2>. QED BY <1>4, <2>2, <2>3, <2>4
<1>6. CASE e.what = "scoped" /\ Len(e.names) > 1 /\ here # {}
  <2>1. PICK x : x = Sublist(e.names, here)[1]
      OBVIOUS
  <2>2. x \in names
      BY <1>5, <1>6, <2>1
  <2>3. b = [what |-> e.what, names |-> <<x>>, raw |-> e.raw]
      BY <1>1, <1>6, <2>1
  <2>4. b.names = <<x>>
      BY <2>3
  <2>. QED BY <1>6, <2>2, <2>4 DEF b
<1>7. CASE ~(e.what = "scoped" /\ Len(e.names) > 1 /\ here # {})
    BY <1>1, <1>7 DEF b
<1>. QED BY <1>6, <1>7

\* An election leaves the entries of every name but those of the scope it opens.
LEMMA BindLeaves ==
    ASSUME IsRead(typed), Shaped, NEW names, typed' = [i \in DOMAIN typed |-> Bind(typed[i], names)],
           NEW V, NEW n, n \notin names \/ "scoped" \notin V
    PROVE  /\ Spoken(typed', V, n) = Spoken(typed, V, n)
           /\ SpokenWords(typed', V, n) = SpokenWords(typed, V, n)
<1>1. ASSUME NEW i \in DOMAIN typed
      PROVE  /\ typed'[i].what = typed[i].what /\ typed'[i].raw = typed[i].raw
             /\ typed[i].what \in V => (typed'[i].names = <<n>> <=> typed[i].names = <<n>>)
  <2>1. PICK e : e = typed[i]
      OBVIOUS
  <2>2. typed'[i] = Bind(e, names) /\ WellShaped(e)
      BY <2>1 DEF Shaped
  <2>3. Bind(e, names).what = e.what /\ Bind(e, names).raw = e.raw
      BY BindKeeps
  <2>4. \/ Bind(e, names) = e
        \/ e.what = "scoped" /\ Len(e.names) > 1 /\ \E x \in names : Bind(e, names).names = <<x>>
      BY <2>2, BoundName
  <2>5. ASSUME e.what \in V, e.what = "scoped", Len(e.names) > 1,
               \E x \in names : Bind(e, names).names = <<x>>
        PROVE  Bind(e, names).names # <<n>> /\ e.names # <<n>>
    <3>1. PICK x \in names : Bind(e, names).names = <<x>>
        BY <2>5
    <3>2. n # x
        BY <2>5
    <3>3. Len(<<n>>) = 1 /\ ~(1 > 1)
        OBVIOUS
    <3>4. e.names # <<n>>
        BY <2>5, <3>3
    <3>. QED BY <3>1, <3>2, <3>4
  <2>. QED BY <2>1, <2>2, <2>3, <2>4, <2>5
<1>2. DOMAIN typed' = DOMAIN typed
    OBVIOUS
<1>3. Spoken(typed', V, n) = Spoken(typed, V, n)
    BY <1>1, <1>2 DEF Spoken
<1>. DEFINE P == Spoken(typed, V, n)
<1>4. \A i \in P : typed[i].raw = typed'[i].raw
    BY <1>1 DEF Spoken
<1>6. IsFiniteSet(P) /\ P \subseteq Nat
    BY SpokenPlaces
<1>. HIDE DEF P
<1>5. RawsOf(Sublist(typed, P)) = RawsOf(Sublist(typed', P))
    BY <1>4, <1>6, WordsAgree
<1>. QED BY <1>3, <1>5 DEF SpokenWords, P

\* Binding keeps the shape of the entries.
LEMMA ShapeBinds ==
    ASSUME Shaped, UNCHANGED <<input, path>>, NEW names,
           typed' = [i \in DOMAIN typed |-> Bind(typed[i], names)]
    PROVE  Shaped'
<1>1. ASSUME NEW i \in DOMAIN typed
      PROVE  WellShaped(typed[i])' /\ typed'[i].what = typed[i].what
  <2>1. PICK e : e = typed[i]
      OBVIOUS
  <2>2. PICK b : b = Bind(e, names)
      OBVIOUS
  <2>3. typed'[i] = b /\ WellShaped(e) /\ b.what = e.what
      BY <2>1, <2>2, BindKeeps DEF Shaped
  <2>4. b = e \/ (e.what = "scoped" /\ \E x : b.names = <<x>>)
      BY <2>2, <2>3, BoundName
  <2>5. WellShaped(b)
    <3>1. ASSUME e.what = "scoped", \E x : b.names = <<x>>
          PROVE  WellShaped(b)
      <4>1. PICK x : b.names = <<x>>
          BY <3>1
      <4>2. \A s : s = <<x>> => Len(s) = 1 /\ DOMAIN s = 1..1
          OBVIOUS
      <4>. QED BY <2>3, <3>1, <4>1, <4>2 DEF WellShaped
    <3>. QED BY <2>3, <2>4, <3>1
  <2>6. WellShaped(b)' = WellShaped(b)
      BY ShapeStays
  <2>. QED BY <2>1, <2>3, <2>5, <2>6 DEF WellShaped
<1>2. DOMAIN typed' = DOMAIN typed
    OBVIOUS
<1>. QED BY <1>1, <1>2 DEF Shaped

-----------------------------------------------------------------------------
(* An election leaves what was said of the declarations before it.           *)

\* A path and the same path one step further.
LEMMA OneStepFurther ==
    ASSUME NEW S, NEW s \in Seq(S), NEW e \in S, NEW t, t = Append(s, e)
    PROVE  /\ Len(t) = Len(s) + 1 /\ Len(s) \in Nat /\ DOMAIN t = 1..Len(t) /\ DOMAIN s = 1..Len(s)
           /\ t[Len(t)] = e
           /\ \A i \in 1..Len(s) : t[i] = s[i]
           /\ \A i \in 1..Len(t) : SubSeq(t, 1, i - 1) = SubSeq(s, 1, i - 1)
<1>1. /\ Len(t) = Len(s) + 1 /\ Len(s) \in Nat /\ DOMAIN t = 1..Len(t) /\ DOMAIN s = 1..Len(s)
      /\ t[Len(t)] = e
      /\ \A i \in 1..Len(s) : t[i] = s[i]
    OBVIOUS
<1>2. ASSUME NEW i \in 1..Len(t)
      PROVE  SubSeq(t, 1, i - 1) = SubSeq(s, 1, i - 1)
  <2>1. \A k \in 1..(i - 1) : k \in 1..Len(s)
      BY <1>1
  <2>2. t \in Seq(S)
      OBVIOUS
  <2>. QED BY <1>1, <2>1, <2>2
<1>. QED BY <1>1, <1>2

\* No declaration of the scope a choice opens has a name of a live declaration
\* that comes before it.
LEMMA OpenedNamesAreNew ==
    ASSUME Registered(app), InCommand, NEW n \in 1..Len(Command.decls),
           IsSelector(Command.decls[n]), NEW elected, LiveIn(elected, Command.decls[n].path),
           NEW choice, choice \in AltNames(Command.decls[n]),
           NEW j \in 1..n, LiveIn(elected, Command.decls[j].path),
           NEW x \in ToSet(SurfaceNames(Command.decls[j]))
    PROVE  x.name \notin Names({c \in ScopeContents(Command, ScopeOf(Command.decls[n], choice)) :
                                    IsFlag(c)})
<1>. DEFINE sel == Command.decls[n]
            d == Command.decls[j]
            step == <<sel.name, choice>>
<1>1. SUFFICES ASSUME NEW c \in ToSet(Command.decls), c.path = ScopeOf(sel, choice), IsFlag(c),
                      c.name = x.name
               PROVE  FALSE
    BY DEF Names, ScopeContents
<1>2. /\ Len(Command.decls) \in Nat /\ DOMAIN Command.decls = 1..Len(Command.decls)
      /\ ToSet(Command.decls) = {Command.decls[i] : i \in 1..Len(Command.decls)}
      /\ \A i \in 1..Len(Command.decls) : Command.decls[i].path \in Seq(STRING \X STRING)
      /\ \A i, k \in 1..Len(Command.decls) :
            Key(Command.decls[i]) = Key(Command.decls[k]) => i = k
    BY TreeOfTheCommand
<1>3. \A i \in 1..Len(Command.decls) : \A k \in DOMAIN Command.decls[i].path : \E q \in 1..(i - 1) :
            Key(Command.decls[q]) = StepKey(Command.decls[i].path, k)
    BY TreeOfTheCommand
<1>4. PICK m \in 1..Len(Command.decls) : c = Command.decls[m]
    BY <1>2
<1>5. j \in 1..Len(Command.decls) /\ d \in ToSet(Command.decls)
    BY <1>2
<1>6. step \in STRING \X STRING /\ sel.path \in Seq(STRING \X STRING)
  <2>1. sel \in DeclarationType
      BY <1>2, RegisteredCommand
  <2>2. choice \in STRING
    <3>1. PICK a \in DOMAIN sel.alts : choice = sel.alts[a].name
        BY DEF AltNames, NamesOf
    <3>2. sel.alts \in Seq(AlternativeType)
        BY <2>1 DEF DeclarationType
    <3>3. sel.alts[a] \in AlternativeType
        BY <3>1, <3>2
    <3>. QED BY <3>1, <3>3 DEF AlternativeType, Raw
  <2>. QED BY <1>2, <2>1, <2>2 DEF DeclarationType
<1>. DEFINE p == c.path
            L == Len(sel.path) + 1
<1>7. /\ Len(p) = L /\ Len(sel.path) \in Nat /\ DOMAIN p = 1..L /\ DOMAIN sel.path = 1..Len(sel.path)
      /\ p[L] = step /\ \A i \in 1..Len(sel.path) : p[i] = sel.path[i]
      /\ \A i \in 1..L : SubSeq(p, 1, i - 1) = SubSeq(sel.path, 1, i - 1)
  <2>1. p = Append(sel.path, step)
      BY <1>1 DEF ScopeOf
  <2>. HIDE DEF p, step
  <2>. QED BY SMTT(60), <1>6, <2>1, OneStepFurther
<1>8. StepKey(p, L) = Key(sel)
  <2>1. SubSeq(sel.path, 1, L - 1) = sel.path
      BY <1>6
  <2>2. SubSeq(p, 1, L - 1) = SubSeq(sel.path, 1, L - 1)
    <3>1. L \in 1..L
        BY <1>7
    <3>. HIDE DEF p, L, sel
    <3>. QED BY <1>7, <3>1
  <2>3. p[L][1] = sel.name
      BY <1>7
  <2>. QED BY <2>1, <2>2, <2>3 DEF StepKey, Key
<1>9. n < m
  <2>1. PICK q \in 1..(m - 1) : Key(Command.decls[q]) = Key(sel)
      BY SMTT(60), <1>3, <1>4, <1>7, <1>8
  <2>. QED BY SMTT(60), <1>2, <2>1
<1>. DEFINE y == SurfaceNames(c)[1]
<1>10. y \in ToSet(SurfaceNames(c)) /\ y.name = c.name /\ y.decl = c /\ x.decl = d
  <2>1. x.decl = d
      BY NamesOfADeclaration
  <2>2. PICK one : one = [name |-> c.name, schema |-> c.schema, elects |-> "",
                            short |-> c.short, decl |-> c]
      BY ZenonT(60)
  <2>3. SurfaceNames(c) = <<one>>
      BY <1>1, <2>2 DEF SurfaceNames, IsFlag
  <2>4. y = one /\ one \in ToSet(SurfaceNames(c))
    <3>1. \A s : s = <<one>> => s[1] = one /\ 1 \in DOMAIN s
        OBVIOUS
    <3>2. PICK s : s = SurfaceNames(c)
        OBVIOUS
    <3>3. s[1] = one /\ 1 \in DOMAIN s
        BY <2>3, <3>1, <3>2
    <3>. QED BY <3>2, <3>3 DEF ToSet
  <2>5. one.name = c.name /\ one.decl = c
      BY <2>2
  <2>. HIDE DEF y
  <2>. QED BY <2>1, <2>4, <2>5
<1>11. x # y
    BY <1>2, <1>4, <1>5, <1>9, <1>10
<1>12. x \in Entries(Command) /\ y \in Entries(Command)
    BY <1>1, <1>5, <1>10 DEF Entries
<1>13. ~SimultaneouslyElectable(d.path, p)
  <2>1. NamesOK(Command)
      BY RegisteredCommand
  <2>. QED BY <1>1, <1>10, <1>11, <1>12, <2>1 DEF NamesOK
<1>14. PICK i \in DOMAIN d.path \cap DOMAIN p :
            /\ SubSeq(d.path, 1, i - 1) = SubSeq(p, 1, i - 1)
            /\ d.path[i][1] = p[i][1] /\ d.path[i][2] # p[i][2]
    BY <1>13 DEF SimultaneouslyElectable
<1>15. StepKey(d.path, i) = StepKey(p, i)
    BY <1>14 DEF StepKey
<1>16. CASE i = L
  <2>1. PICK q \in 1..(j - 1) : Key(Command.decls[q]) = StepKey(d.path, i)
      BY <1>3, <1>5, <1>14
  <2>2. q = n
      BY <1>2, <1>5, <1>8, <1>15, <1>16, <2>1
  <2>. QED BY <2>1, <2>2
<1>17. CASE i # L
  <2>1. i \in DOMAIN sel.path
      BY SMTT(60), <1>7, <1>14, <1>17
  <2>2. p[i] = sel.path[i] /\ StepKey(sel.path, i) = StepKey(p, i)
      BY <1>7, <1>14, <2>1 DEF StepKey
  <2>3. elected[StepKey(d.path, i)].choice = d.path[i][2]
      BY SMTT(60), <1>14 DEF LiveIn, StepKey
  <2>4. elected[StepKey(sel.path, i)].choice = sel.path[i][2]
      BY <2>1 DEF LiveIn, StepKey
  <2>. QED BY SMTT(60), <1>14, <1>15, <2>2, <2>3, <2>4
<1>. QED BY <1>16, <1>17

\* Each name a declaration is read by is on the command line.
LEMMA NamesItIsReadBy ==
    ASSUME NEW d
    PROVE  /\ d.kind # "member" => \E x \in ToSet(SurfaceNames(d)) : x.name = d.name
           /\ d.kind = "member" => \A c \in AltNames(d) : \E x \in ToSet(SurfaceNames(d)) : x.name = c
<1>1. ASSUME d.kind # "member"
      PROVE  \E x \in ToSet(SurfaceNames(d)) : x.name = d.name
  <2>1. PICK one : one = [name |-> d.name, schema |-> d.schema, elects |-> "",
                            short |-> d.short, decl |-> d]
      OBVIOUS
  <2>2. PICK s : s = SurfaceNames(d)
      OBVIOUS
  <2>3. s = <<one>>
      BY <1>1, <2>1, <2>2 DEF SurfaceNames
  <2>4. s[1] = one /\ 1 \in DOMAIN s
      BY <2>3
  <2>5. one.name = d.name
      BY <2>1
  <2>. QED BY <2>2, <2>4, <2>5 DEF ToSet
<1>2. ASSUME d.kind = "member", NEW c \in AltNames(d)
      PROVE  \E x \in ToSet(SurfaceNames(d)) : x.name = c
  <2>1. PICK i \in DOMAIN d.alts : c = d.alts[i].name
      BY DEF AltNames, NamesOf
  <2>2. PICK s : s = SurfaceNames(d)
      OBVIOUS
  <2>3. i \in DOMAIN s /\ s[i].name = c
      BY <1>2, <2>1, <2>2 DEF SurfaceNames
  <2>. QED BY <2>2, <2>3 DEF ToSet
<1>. QED BY <1>1, <1>2

\* What is said of a scoped declaration stays when the entries of its names do.
LEMMA SaidAsBefore ==
    ASSUME Registered(app), UNCHANGED <<input, pre, path>>, NEW d, IsSelector(d) \/ ScopedFlag(d),
           \A x \in ToSet(SurfaceNames(d)) :
                /\ Spoken(typed', {"scoped"}, x.name) = Spoken(typed, {"scoped"}, x.name)
                /\ SpokenWords(typed', {"scoped", "no"}, x.name)
                        = SpokenWords(typed, {"scoped", "no"}, x.name)
    PROVE  Highest(d)' = Highest(d)
<1>1. d \notin RootFlags
    BY OnlyFlagsAtTheRoot
<1>2. ASSUME NEW n
      PROVE  /\ Positive(n) = Spoken(typed, {"scoped"}, n)
             /\ Positive(n)' = Spoken(typed', {"scoped"}, n)
             /\ RawsAt(Given(n)) = SpokenWords(typed, {"scoped", "no"}, n)
             /\ RawsAt(Given(n))' = SpokenWords(typed', {"scoped", "no"}, n)
  <2>1. Positive(n) = Spoken(typed, {"scoped"}, n)
      BY GivenIsSpoken
  <2>2. RawsAt(Given(n)) = SpokenWords(typed, {"scoped", "no"}, n)
      BY GivenIsSpoken
  <2>3. Positive(n)' = Spoken(typed', {"scoped"}, n)
      BY DEF Positive, Given, Spoken, IsScopedEntry
  <2>4. Given(n)' = Spoken(typed', {"scoped", "no"}, n)
      BY DEF Given, Spoken, IsScopedEntry
  <2>5. RawsAt(Given(n))' = SpokenWords(typed', {"scoped", "no"}, n)
      BY <2>4 DEF RawsAt, SpokenWords
  <2>. QED BY <2>1, <2>2, <2>3, <2>5
<1>3. d.kind # "member" => RawsAt(Given(d.name))' = RawsAt(Given(d.name))
  <2>1. d.kind # "member" => \E x \in ToSet(SurfaceNames(d)) : x.name = d.name
      BY NamesItIsReadBy
  <2>. QED BY <1>2, <2>1
<1>4. d.kind = "member" => \A c \in AltNames(d) : Positive(c)' = Positive(c)
  <2>1. d.kind = "member" => \A c \in AltNames(d) : \E x \in ToSet(SurfaceNames(d)) : x.name = c
      BY NamesItIsReadBy
  <2>. QED BY <1>2, <2>1
<1>. QED BY <1>1, <1>3, <1>4, HighestStays

\* While no entry is bound the highest layer says the same.
LEMMA SaidTheSame ==
    ASSUME Registered(app), UNCHANGED <<input, pre, path, typed>>,
           NEW d, IsSelector(d) \/ ScopedFlag(d)
    PROVE  Highest(d)' = Highest(d)
BY SaidAsBefore

\* An agreement of the declarations before the next one, and of the next one.
LEMMA AgreedNext ==
    ASSUME UNCHANGED <<input, path>>, scopes.next \in 1..Len(Command.decls), Len(Command.decls) \in Nat,
           NEW elected, NEW values, NEW provided, Resolve(elected, values, provided),
           problems' = {} => \A j \in 1..scopes.next : \A d :
                d = Command.decls[j] /\ LiveIn(elected, d.path) =>
                    AgreesWith(d, Highest(d)', elected, values, provided)
    PROVE  Agreed'
<1>1. PICK r : r = [next |-> scopes.next + 1, elected |-> elected, values |-> values,
                    provided |-> provided]
    OBVIOUS
<1>2. scopes' = r
    BY <1>1 DEF Resolve
<1>3. /\ scopes'.next = scopes.next + 1 /\ scopes'.elected = elected
      /\ scopes'.values = values /\ scopes'.provided = provided
    BY <1>1, <1>2
<1>4. 1..(scopes'.next - 1) = 1..scopes.next
    BY <1>3
<1>5. Command' = Command
    BY DEF Command, input
<1>6. ASSUME problems' = {}, NEW j \in 1..scopes.next, Live(Command.decls[j])'
      PROVE  AgreesOn(Command.decls[j])'
  <2>1. PICK d : d = Command.decls[j]
      OBVIOUS
  <2>2. LiveIn(elected, d.path)
      BY <1>3, <1>5, <1>6, <2>1 DEF Live
  <2>3. AgreesWith(d, Highest(d)', elected, values, provided)
      BY <1>6, <2>1, <2>2
  <2>4. AgreesOn(d)'
      BY <1>3, <2>3 DEF AgreesOn
  <2>5. Command.decls[j]' = d
      BY <1>5, <2>1
  <2>. QED BY <2>4, <2>5
<1>. QED BY <1>4, <1>6 DEF Agreed

\* Passing over a declaration agrees when it was not to be resolved.
LEMMA PassAgrees ==
    ASSUME Registered(app), InCommand, Agreed, UNCHANGED <<input, pre, path, typed>>,
           scopes.next \in 1..Len(Command.decls), PassDecl,
           problems' = {} => /\ problems = {}
                             /\ ~Live(Decl) \/ (~IsSelector(Decl) /\ ~ScopedFlag(Decl))
    PROVE  Agreed'
<1>1. Len(Command.decls) \in Nat
    BY TreeOfTheCommand
<1>2. ASSUME problems' = {}, NEW j \in 1..scopes.next,
             NEW d, d = Command.decls[j], LiveIn(scopes.elected, d.path)
      PROVE  AgreesWith(d, Highest(d)', scopes.elected, scopes.values, scopes.provided)
  <2>1. CASE ~IsSelector(d) /\ ~ScopedFlag(d)
      BY <2>1 DEF AgreesWith
  <2>2. ASSUME IsSelector(d) \/ ScopedFlag(d)
        PROVE  Highest(d)' = Highest(d) /\ j \in 1..(scopes.next - 1)
    <3>1. Highest(d)' = Highest(d)
        BY <2>2, SaidTheSame
    <3>2. j # scopes.next
        BY <1>2, <2>2 DEF Decl, Live
    <3>. QED BY <3>1, <3>2
  <2>. QED BY <1>2, <2>1, <2>2 DEF Agreed, AgreesOn, Live
<1>. QED BY <1>1, <1>2, AgreedNext DEF PassDecl

\* A scoped flag of a live scope takes the value that was said of it.
LEMMA ValueAgrees ==
    ASSUME Registered(app), InCommand, ScopesOK, Agreed, UNCHANGED <<input, pre, path, typed, problems>>,
           scopes.next \in 1..Len(Command.decls), ScopedFlag(Decl), Live(Decl),
           NEW value, NEW told, \/ told = scopes.provided \cup {Key(Decl)} /\ Highest(Decl).via # "default"
                                \/ told = scopes.provided /\ Highest(Decl).via = "default",
           Resolve(scopes.elected, Put(scopes.values, Key(Decl), value), told),
           Highest(Decl).value = value
    PROVE  Agreed'
<1>1. /\ Len(Command.decls) \in Nat
      /\ \A i, j \in 1..Len(Command.decls) : Key(Command.decls[i]) = Key(Command.decls[j]) => i = j
    BY TreeOfTheCommand
<1>. DEFINE more == Put(scopes.values, Key(Decl), value)
<1>2. DOMAIN more = DOMAIN scopes.values \cup {Key(Decl)} /\ more[Key(Decl)] = value
      /\ \A k \in DOMAIN scopes.values : k # Key(Decl) => more[k] = scopes.values[k]
    BY DEF Put
<1>3. ASSUME problems' = {}, NEW j \in 1..scopes.next,
             NEW d, d = Command.decls[j], LiveIn(scopes.elected, d.path)
      PROVE  AgreesWith(d, Highest(d)', scopes.elected, more, told)
  <2>1. CASE ~IsSelector(d) /\ ~ScopedFlag(d)
      BY <2>1 DEF AgreesWith
  <2>2. ASSUME IsSelector(d) \/ ScopedFlag(d), j # scopes.next
        PROVE  AgreesWith(d, Highest(d)', scopes.elected, more, told)
    <3>1. Highest(d)' = Highest(d)
        BY <2>2, SaidTheSame
    <3>2. j \in 1..(scopes.next - 1) /\ j \in 1..Len(Command.decls)
        BY <1>1, <2>2
    <3>3. AgreesWith(d, Highest(d), scopes.elected, scopes.values, scopes.provided)
        BY <1>3, <3>2 DEF Agreed, AgreesOn, Live
    <3>4. Key(d) # Key(Decl)
        BY <1>1, <1>3, <2>2, <3>2 DEF Decl
    <3>5. ScopedFlag(d) => Key(d) \in DOMAIN scopes.values
        BY <1>3, <3>2 DEF ScopesOK, Resolved
    <3>6. Key(d) \in told <=> Key(d) \in scopes.provided
        BY <3>4
    <3>. HIDE DEF more
    <3>. QED BY <1>2, <3>1, <3>3, <3>4, <3>5, <3>6 DEF AgreesWith
  <2>3. ASSUME j = scopes.next
        PROVE  AgreesWith(d, Highest(d)', scopes.elected, more, told)
    <3>1. d = Decl
        BY <1>3, <2>3 DEF Decl
    <3>2. Highest(d)' = Highest(d)
        BY <3>1, SaidTheSame
    <3>3. ~IsSelector(d)
        BY <3>1 DEF ScopedFlag, IsFlag, IsSelector
    <3>4. Key(Decl) \notin scopes.provided
      <4>1. ASSUME Key(Decl) \in scopes.provided
            PROVE  FALSE
        <5>1. Key(Decl) \in DOMAIN scopes.values
            BY <4>1 DEF ScopesOK, Resolved
        <5>2. PICK i \in 1..(scopes.next - 1) :
                \/ ScopedFlag(Command.decls[i]) /\ Key(Decl) = Key(Command.decls[i])
                \/ IsSelector(Command.decls[i]) /\ \E c : Key(Decl) = PayloadKey(Command.decls[i], c)
            BY <5>1 DEF ScopesOK, Resolved
        <5>3. i \in 1..Len(Command.decls) /\ i # scopes.next
            BY <1>1
        <5>4. Key(Decl) # Key(Command.decls[i])
            BY <1>1, <5>3 DEF Decl
        <5>5. IsSelector(Command.decls[i]) => \A c : Key(Decl) # PayloadKey(Command.decls[i], c)
            BY <5>3, PayloadsAreApart DEF Decl
        <5>. QED BY <5>2, <5>4, <5>5
      <4>. QED BY <4>1
    <3>. HIDE DEF more
    <3>. QED BY <1>2, <3>1, <3>2, <3>3, <3>4 DEF AgreesWith
  <2>. QED BY <2>1, <2>2, <2>3
<1>. HIDE DEF more
<1>4. Resolve(scopes.elected, more, told)
    BY DEF more
<1>. QED BY <1>1, <1>3, <1>4, AgreedNext

\* A choice that was said of a selector is elected.
LEMMA ElectAgrees ==
    ASSUME Registered(app), InCommand, ScopesOK, Agreed, IsRead(typed), Shaped,
           UNCHANGED <<input, pre, path>>,
           scopes.next \in 1..Len(Command.decls), IsSelector(Decl), Live(Decl),
           NEW choice, choice \in AltNames(Decl), NEW via, Elect(choice, via),
           problems = {} => Highest(Decl).via = via /\ Highest(Decl).value = <<choice>>
    PROVE  Agreed'
<1>1. /\ Len(Command.decls) \in Nat
      /\ \A i, j \in 1..Len(Command.decls) : Key(Command.decls[i]) = Key(Command.decls[j]) => i = j
    BY TreeOfTheCommand
<1>. DEFINE raws == RawsAt(Positive(choice))
            alt == CHOOSE a \in ToSet(Decl.alts) : a.name = choice
            payload == Decl.kind = "member" /\ TakesValue(alt.schema) /\ raws # <<>>
            entry == <<ScopeOf(Decl, choice), "value">>
            x == [choice |-> choice, via |-> via]
            elected == Put(scopes.elected, Key(Decl), x)
            more == IF payload THEN Put(scopes.values, entry, <<raws[1]>>) ELSE scopes.values
            told == IF payload THEN scopes.provided \cup {entry} ELSE scopes.provided
            inside == Names({c \in ScopeContents(Command, ScopeOf(Decl, choice)) : IsFlag(c)})
<1>2. /\ Resolve(elected, more, told) /\ (problems' = {} => problems = {})
      /\ typed' = [i \in DOMAIN typed |-> Bind(typed[i], inside)]
    BY DEF Elect
<1>3. /\ \A k : k # entry => (k \in DOMAIN scopes.values => more[k] = scopes.values[k])
      /\ \A k : k # entry => (k \in told <=> k \in scopes.provided)
    BY DEF Put
<1>4. /\ elected[Key(Decl)] = x /\ \A k \in DOMAIN scopes.elected : k # Key(Decl) => elected[k] = scopes.elected[k]
    BY DEF Put
<1>5. x.choice = choice /\ x.via = via
    OBVIOUS
<1>6. \A i \in 1..Len(Command.decls) : Key(Command.decls[i]) # entry
  <2>1. entry = PayloadKey(Decl, choice)
      BY DEF PayloadKey
  <2>2. \A i \in 1..Len(Command.decls) : Key(Command.decls[i]) # PayloadKey(Command.decls[scopes.next], choice)
      BY PayloadsAreApart DEF Decl
  <2>. HIDE DEF entry
  <2>. QED BY <2>1, <2>2 DEF Decl
<1>7. \A j \in 1..scopes.next : LiveIn(elected, Command.decls[j].path)
                                    <=> LiveIn(scopes.elected, Command.decls[j].path)
  <2>1. PICK n : n = scopes.next
      OBVIOUS
  <2>2. \A j \in 1..n : LiveIn(Put(scopes.elected, Key(Command.decls[n]), x), Command.decls[j].path)
                                    <=> LiveIn(scopes.elected, Command.decls[j].path)
    <3>1. n \in 1..Len(Command.decls)
        BY <2>1
    <3>. HIDE DEF x
    <3>. QED BY <3>1, LivenessIsSettled
  <2>. HIDE DEF x
  <2>. QED BY <2>1, <2>2 DEF Decl
<1>8. ASSUME NEW j \in 1..scopes.next, LiveIn(scopes.elected, Command.decls[j].path),
             NEW y \in ToSet(SurfaceNames(Command.decls[j]))
      PROVE  y.name \notin inside
  <2>1. PICK n : n = scopes.next
      OBVIOUS
  <2>2. n \in 1..Len(Command.decls) /\ Decl = Command.decls[n] /\ j \in 1..n
      BY <2>1 DEF Decl
  <2>3. y.name \notin Names({c \in ScopeContents(Command, ScopeOf(Command.decls[n], choice)) : IsFlag(c)})
      BY <1>8, <2>2, OpenedNamesAreNew DEF Live
  <2>. QED BY <2>2, <2>3
<1>. HIDE DEF inside, x, elected, more, told, entry
<1>9. ASSUME NEW j \in 1..scopes.next, NEW d, d = Command.decls[j],
             LiveIn(scopes.elected, d.path), IsSelector(d) \/ ScopedFlag(d)
      PROVE  Highest(d)' = Highest(d)
  <2>1. ASSUME NEW y \in ToSet(SurfaceNames(d))
        PROVE  /\ Spoken(typed', {"scoped"}, y.name) = Spoken(typed, {"scoped"}, y.name)
               /\ SpokenWords(typed', {"scoped", "no"}, y.name)
                    = SpokenWords(typed, {"scoped", "no"}, y.name)
    <3>1. y.name \notin inside
        BY <1>8, <1>9
    <3>2. \A V : /\ Spoken(typed', V, y.name) = Spoken(typed, V, y.name)
                 /\ SpokenWords(typed', V, y.name) = SpokenWords(typed, V, y.name)
        BY <1>2, <3>1, BindLeaves
    <3>. QED BY <3>2
  <2>. QED BY <1>9, <2>1, SaidAsBefore
<1>10. ASSUME problems' = {}, NEW j \in 1..scopes.next,
              NEW d, d = Command.decls[j], LiveIn(elected, d.path)
       PROVE  AgreesWith(d, Highest(d)', elected, more, told)
  <2>0. LiveIn(scopes.elected, d.path) /\ problems = {}
      BY <1>2, <1>7, <1>10
  <2>1. CASE ~IsSelector(d) /\ ~ScopedFlag(d)
      BY <2>1 DEF AgreesWith
  <2>2. ASSUME IsSelector(d) \/ ScopedFlag(d), j # scopes.next
        PROVE  AgreesWith(d, Highest(d)', elected, more, told)
    <3>1. Highest(d)' = Highest(d)
        BY <1>9, <1>10, <2>0, <2>2
    <3>2. j \in 1..(scopes.next - 1) /\ j \in 1..Len(Command.decls)
        BY <1>1, <2>2
    <3>3. AgreesWith(d, Highest(d), scopes.elected, scopes.values, scopes.provided)
        BY <1>10, <2>0, <3>2 DEF Agreed, AgreesOn, Live
    <3>4. Key(d) # Key(Decl)
        BY <1>1, <1>10, <2>2, <3>2 DEF Decl
    <3>5. /\ ScopedFlag(d) => Key(d) \in DOMAIN scopes.values
          /\ IsSelector(d) => Key(d) \in DOMAIN scopes.elected
        BY <1>10, <2>0, <3>2 DEF ScopesOK, Resolved
    <3>6. Key(d) # entry
        BY <1>6, <1>10, <3>2
    <3>. QED BY <1>3, <1>4, <3>1, <3>3, <3>4, <3>5, <3>6 DEF AgreesWith
  <2>3. ASSUME j = scopes.next
        PROVE  AgreesWith(d, Highest(d)', elected, more, told)
    <3>1. d = Decl
        BY <1>10, <2>3 DEF Decl
    <3>2. Highest(d)' = Highest(d)
        BY <1>9, <1>10, <2>0, <3>1
    <3>3. ~ScopedFlag(d)
        BY <3>1 DEF ScopedFlag, IsFlag, IsSelector
    <3>. QED BY <1>4, <1>5, <2>0, <3>1, <3>2, <3>3 DEF AgreesWith
  <2>. QED BY <2>1, <2>2, <2>3
<1>. QED BY <1>1, <1>2, <1>10, AgreedNext

-----------------------------------------------------------------------------
(* What the walk of the declaration tree takes of a declaration is what was  *)
(* said of it.                                                               *)

\* A sequence of one word.
LEMMA OneWord ==
    ASSUME NEW s, s = [k \in 1..1 |-> s[k]]
    PROVE  s = <<s[1]>>
<1>1. [k \in 1..1 |-> s[k]] = <<s[1]>>
    OBVIOUS
<1>. QED BY <1>1

\* A choice is its word.
LEMMA ChoiceWords ==
    ASSUME NEW d, d.schema = "choice", NEW raws, DOMAIN raws = 1..1, raws = [k \in 1..1 |-> raws[k]]
    PROVE  FromWords(d, raws) = <<raws[1]>>
<1>1. PICK w : w = FromWords(d, raws)
    OBVIOUS
<1>2. \A raw : WordValue(d.schema, raw) = raw
    BY DEF WordValue, ReadsStdin
<1>3. w = [k \in 1..1 |-> raws[k]]
    BY <1>1, <1>2 DEF FromWords
<1>. QED BY <1>1, <1>3, OneWord

\* What registration leaves of a selector.
LEMMA SelectorsAreRead ==
    ASSUME Registered(app), InCommand, NEW d \in ToSet(Command.decls), IsSelector(d)
    PROVE  /\ d.schema = "choice" /\ d \notin RootFlags
           /\ d.presence = "default" => d.dflt[1] \in AltNames(d) /\ d.dflt = <<d.dflt[1]>>
<1>1. d.schema = "choice"
    BY DEF Registered, IsProgram, InCommand, Command
<1>2. ASSUME d.presence = "default"
      PROVE  d.dflt[1] \in AltNames(d) /\ d.dflt = <<d.dflt[1]>>
  <2>1. SelectorDefaultOK(Command, d)
      BY <1>2, RegisteredCommand DEF SelectorOK
  <2>2. PICK i \in DOMAIN d.alts : d.dflt = <<d.alts[i].name>>
      BY <2>1 DEF SelectorDefaultOK
  <2>. QED BY <2>2 DEF AltNames, NamesOf
<1>. QED BY <1>1, <1>2, OnlyFlagsAtTheRoot

\* No token negates the name of a token selector.
LEMMA TokenSelectorsAreNotNegated ==
    ASSUME Registered(app), InCommand, Shaped, NEW d \in ToSet(Command.decls), d.kind = "token"
    PROVE  Positive(d.name) = Given(d.name)
<1>1. d.schema = "choice"
    BY SelectorsAreRead DEF IsSelector
<1>2. PICK one : one = [name |-> d.name, schema |-> d.schema, elects |-> "",
                        short |-> d.short, decl |-> d]
    OBVIOUS
<1>3. one \in Entries(Command)
  <2>1. PICK s : s = SurfaceNames(d)
      OBVIOUS
  <2>2. s = <<one>>
      BY <1>2, <2>1 DEF SurfaceNames
  <2>3. s[1] = one /\ 1 \in DOMAIN s
      BY <2>2
  <2>. QED BY <2>1, <2>3 DEF Entries, ToSet
<1>4. one.name = d.name /\ one.schema # "bool"
    BY <1>1, <1>2
<1>5. ASSUME NEW i \in Given(d.name), typed[i].what # "scoped"
      PROVE  FALSE
  <2>1. i \in DOMAIN typed /\ typed[i].what = "no" /\ typed[i].names = <<d.name>>
      BY <1>5 DEF Given, IsScopedEntry
  <2>2. PICK e : e = typed[i]
      OBVIOUS
  <2>3. WellShaped(e) /\ e.what = "no" /\ e.names = <<d.name>>
      BY <2>1, <2>2 DEF Shaped
  <2>4. e.names[1] = d.name
      BY <2>3
  <2>. QED BY <1>3, <1>4, <2>3, <2>4 DEF WellShaped
<1>. QED BY <1>5 DEF Positive

\* The words of a name, as a sequence of so many.
LEMMA RawsAreASequence ==
    ASSUME IsRead(typed), NEW n
    PROVE  /\ Len(RawsAt(Given(n))) \in Nat
           /\ DOMAIN RawsAt(Given(n)) = 1..Len(RawsAt(Given(n)))
           /\ RawsAt(Given(n)) = [k \in 1..Len(RawsAt(Given(n))) |-> RawsAt(Given(n))[k]]
           /\ RawsAt(Given(n)) # <<>> => Len(RawsAt(Given(n))) > 0
<1>. DEFINE V == {"scoped", "no"}
            m == Cardinality(Spoken(typed, V, n))
            raws == SpokenWords(typed, V, n)
<1>1. RawsAt(Given(n)) = raws
    BY GivenIsSpoken
<1>2. m \in Nat /\ raws = [k \in 1..m |-> raws[k]] /\ (raws = <<>> <=> m = 0)
    BY SpokenPlaces
<1>. HIDE DEF m, raws
<1>3. raws \in Seq({raws[k] : k \in 1..m}) /\ Len(raws) = m
  <2>1. [k \in 1..m |-> raws[k]] \in [1..m -> {raws[k] : k \in 1..m}]
      OBVIOUS
  <2>2. raws \in [1..m -> {raws[k] : k \in 1..m}]
      BY <1>2, <2>1
  <2>. QED BY SMTT(60), <1>2, <2>2
<1>. QED BY <1>1, <1>2, <1>3

\* The walk stands at a declaration, and what it has so far is what was said.
Walking == HandInv /\ InCommand /\ ScopesOK /\ Agreed /\ Shaped /\ scopes.next \in 1..Len(Command.decls)

\* What is known at each step of the walk.
LEMMA WalkingFacts ==
    ASSUME Walking
    PROVE  /\ Registered(app) /\ InCommand /\ ScopesOK /\ Agreed /\ Shaped /\ IsRead(typed)
           /\ scopes.next \in 1..Len(Command.decls) /\ Decl \in ToSet(Command.decls)
           /\ Bindings(Env) /\ Bindings(Config)
           /\ \A n \in DOMAIN Env : Decl.name = n /\ IsScalar(Decl) => Len(Env[n]) = 1
<1>1. HandInv
    BY DEF Walking
<1>2. Registered(app) /\ IsRead(typed)
    BY <1>1 DEF HandInv, InputsOK, WordsRead, IsRead
<1>3. Bindings(Env) /\ Bindings(Config)
    BY <1>1, InputFacts DEF HandInv
<1>4. Decl \in ToSet(Command.decls)
    BY <1>2, TreeOfTheCommand DEF Walking, Decl
<1>5. \A n \in DOMAIN Env : Decl.name = n /\ IsScalar(Decl) => Len(Env[n]) = 1
  <2>1. Decl \in ToSet(app.commands[path].decls) /\ path \in DOMAIN app.commands
      BY <1>4 DEF Command, Walking, InCommand
  <2>2. IsScalar(Decl) /\ Decl.name \in DOMAIN ambient.env => Len(ambient.env[Decl.name]) = 1
      BY <1>1, <2>1 DEF HandInv, InputsOK
  <2>3. DOMAIN Env # {} => Env = ambient.env
      BY DEF Env
  <2>. QED BY <2>2, <2>3
<1>. QED BY <1>2, <1>3, <1>4, <1>5 DEF Walking

\* A refusal ends what has to agree.
LEMMA RefusalsAgree ==
    ASSUME Walking, UNCHANGED <<input, pre, path>>, NEW stage, Undecided(stage)
    PROVE  Agreed'
BY WalkingFacts, PassAgrees DEF Undecided

\* A selector nothing binds takes its default.
LEMMA DefaultsAgree ==
    ASSUME Walking, UNCHANGED <<input, pre, path>>, IsSelector(Decl), Live(Decl), ElectDefault,
           Highest(Decl) = [via |-> "default", value |-> Decl.dflt]
    PROVE  Agreed'
<1>1. CASE Decl.presence = "default"
  <2>1. PICK choice : choice = Decl.dflt[1]
      OBVIOUS
  <2>2. choice \in AltNames(Decl) /\ Decl.dflt = <<choice>>
      BY <1>1, <2>1, WalkingFacts, SelectorsAreRead
  <2>3. Elect(choice, "default")
      BY <1>1, <2>1 DEF ElectDefault
  <2>4. PICK via : via = "default"
      OBVIOUS
  <2>5. Elect(choice, via) /\ Highest(Decl).via = via /\ Highest(Decl).value = <<choice>>
      BY <2>2, <2>3, <2>4
  <2>. QED BY <2>2, <2>5, WalkingFacts, ElectAgrees
<1>2. CASE Decl.presence # "default"
    BY <1>2, RefusalsAgree DEF ElectDefault
<1>. QED BY <1>1, <1>2

\* One that a layer binds takes the choice the layer names.
LEMMA NamedAgree ==
    ASSUME Walking, UNCHANGED <<input, pre, path>>, IsSelector(Decl), Live(Decl),
           NEW choice, NEW via, ElectNamed(choice, via),
           Highest(Decl).via = via /\ Highest(Decl).value = <<choice>>
    PROVE  Agreed'
<1>1. CASE choice \in AltNames(Decl)
  <2>1. Elect(choice, via)
      BY <1>1 DEF ElectNamed
  <2>. QED BY <1>1, <2>1, WalkingFacts, ElectAgrees
<1>2. CASE choice \notin AltNames(Decl)
    BY <1>2, RefusalsAgree DEF ElectNamed
<1>. QED BY <1>1, <1>2

\* Selectors by token, selectors by their members, and scoped flags agree with
\* the highest layer once they are resolved.
LEMMA TokensAgree ==
    ASSUME Walking, ElectByToken
    PROVE  Agreed'
<1>1. /\ UNCHANGED <<input, pre, path>> /\ Decl.kind = "token" /\ IsSelector(Decl) /\ Live(Decl)
    BY DEF ElectByToken, ScopeFrame, IsSelector
<1>2. Decl.schema = "choice" /\ Decl \notin RootFlags /\ IsScalar(Decl)
    BY <1>1, WalkingFacts, SelectorsAreRead DEF IsScalar
<1>. DEFINE raws == RawsAt(Positive(Decl.name))
            n == Decl.name
<1>3. raws = RawsAt(Given(n)) /\ RawsFor(Decl) = raws
  <2>1. Positive(n) = Given(n)
      BY <1>1, WalkingFacts, TokenSelectorsAreNotNegated
  <2>2. RawsFor(Decl) = RawsAt(Given(n))
      BY <1>2, WordsSaidOf
  <2>. QED BY <2>1, <2>2
<1>4. /\ Len(raws) \in Nat /\ DOMAIN raws = 1..Len(raws)
      /\ raws = [k \in 1..Len(raws) |-> raws[k]] /\ (raws # <<>> => Len(raws) > 0)
  <2>1. IsRead(typed)
      BY WalkingFacts
  <2>. QED BY <1>3, <2>1, RawsAreASequence
<1>. DEFINE high == Highest(Decl)
<1>5. high = IF RawsFor(Decl) # <<>> THEN [via |-> "cli", value |-> FromWords(Decl, RawsFor(Decl))]
             ELSE IF Decl.env /\ n \in DOMAIN Env
             THEN [via |-> "env", value |-> FromWords(Decl, Env[n])]
             ELSE IF n \in DOMAIN Config /\ Textual(Config[n])
             THEN [via |-> "config", value |-> Config[n]]
             ELSE [via |-> "default", value |-> Decl.dflt]
    BY <1>1, <1>2, HighestIs
<1>. HIDE DEF raws, high
<1>6. CASE Len(raws) > 1
  <2>1. Undecided("election")
      BY <1>6 DEF ElectByToken, raws
  <2>. QED BY <1>1, <2>1, RefusalsAgree
<1>7. CASE Len(raws) = 1
  <2>1. raws = <<raws[1]>> /\ FromWords(Decl, raws) = <<raws[1]>>
      BY <1>2, <1>4, <1>7, OneWord, ChoiceWords
  <2>2. raws # <<>>
      BY <1>7
  <2>3. ElectNamed(raws[1], "cli")
      BY <1>7, <2>2 DEF ElectByToken, raws
  <2>4. high.via = "cli" /\ high.value = <<raws[1]>>
      BY <1>3, <1>5, <2>1, <2>2
  <2>5. PICK choice, via : choice = raws[1] /\ via = "cli"
      OBVIOUS
  <2>6. ElectNamed(choice, via) /\ Highest(Decl).via = via /\ Highest(Decl).value = <<choice>>
      BY <2>3, <2>4, <2>5 DEF high
  <2>. QED BY <1>1, <2>6, NamedAgree
<1>8. CASE raws = <<>> /\ Decl.env /\ n \in DOMAIN Env
  <2>1. ElectNamed(Env[n][1], "env")
      BY <1>8 DEF ElectByToken, raws
  <2>2. PICK s : s = Env[n]
      OBVIOUS
  <2>3. s \in Seq(Said) /\ Len(s) = 1
      BY <1>2, <1>8, <2>2, WalkingFacts DEF Bindings
  <2>4. DOMAIN s = 1..1 /\ s = [k \in 1..1 |-> s[k]]
      BY <2>3
  <2>5. FromWords(Decl, s) = <<s[1]>>
      BY <1>2, <2>4, ChoiceWords
  <2>6. high.via = "env" /\ high.value = <<s[1]>>
      BY <1>3, <1>5, <1>8, <2>2, <2>5
  <2>7. PICK choice, via : choice = s[1] /\ via = "env"
      OBVIOUS
  <2>8. ElectNamed(choice, via) /\ Highest(Decl).via = via /\ Highest(Decl).value = <<choice>>
      BY <2>1, <2>2, <2>6, <2>7 DEF high
  <2>. QED BY <1>1, <2>8, NamedAgree
<1>9. CASE raws = <<>> /\ ~(Decl.env /\ n \in DOMAIN Env) /\ n \in DOMAIN Config /\ Textual(Config[n])
  <2>1. ElectNamed(Config[n][1], "config")
      BY <1>9 DEF ElectByToken, raws
  <2>2. PICK s : s = Config[n]
      OBVIOUS
  <2>3. s \in Seq(Said) /\ Len(s) = 1
      BY <1>9, <2>2, WalkingFacts DEF Bindings, Textual
  <2>4. DOMAIN s = 1..1 /\ s = [k \in 1..1 |-> s[k]]
      BY <2>3
  <2>5. s = <<s[1]>>
      BY <2>4, OneWord
  <2>6. high.via = "config" /\ high.value = <<s[1]>>
      BY <1>3, <1>5, <1>9, <2>2, <2>5
  <2>7. PICK choice, via : choice = s[1] /\ via = "config"
      OBVIOUS
  <2>8. ElectNamed(choice, via) /\ Highest(Decl).via = via /\ Highest(Decl).value = <<choice>>
      BY <2>1, <2>2, <2>6, <2>7 DEF high
  <2>. QED BY <1>1, <2>8, NamedAgree
<1>10. CASE /\ raws = <<>> /\ ~(Decl.env /\ n \in DOMAIN Env)
            /\ ~(n \in DOMAIN Config /\ Textual(Config[n]))
  <2>1. ElectDefault
      BY <1>10 DEF ElectByToken, raws
  <2>2. high = [via |-> "default", value |-> Decl.dflt]
      BY <1>3, <1>5, <1>10
  <2>. QED BY <1>1, <2>1, <2>2, DefaultsAgree DEF high
<1>11. Len(raws) > 1 \/ Len(raws) = 1 \/ raws = <<>>
    BY <1>4
<1>. QED BY <1>6, <1>7, <1>8, <1>9, <1>10, <1>11

LEMMA MembersAgree ==
    ASSUME Walking, ElectByMembers
    PROVE  Agreed'
<1>1. /\ UNCHANGED <<input, pre, path>> /\ Decl.kind = "member" /\ IsSelector(Decl) /\ Live(Decl)
    BY DEF ElectByMembers, ScopeFrame, IsSelector
<1>2. Decl \notin RootFlags
    BY <1>1, WalkingFacts, SelectorsAreRead
<1>. DEFINE chosen == {c \in AltNames(Decl) : Positive(c) # {}}
<1>3. Highest(Decl) = IF chosen # {} THEN [via |-> "cli", value |-> <<CHOOSE c \in chosen : TRUE>>]
                      ELSE [via |-> "default", value |-> Decl.dflt]
    BY <1>1, <1>2, HighestIs
<1>4. \/ Undecided("election")
      \/ /\ \A c, d \in chosen : c = d
         /\ chosen # {} /\ \E c \in chosen : Elect(c, "cli")
      \/ chosen = {} /\ ElectDefault
    BY DEF ElectByMembers
<1>. HIDE DEF chosen
<1>5. CASE Undecided("election")
    BY <1>1, <1>5, RefusalsAgree
<1>6. ASSUME \A c, d \in chosen : c = d, NEW c \in chosen, Elect(c, "cli")
      PROVE  Agreed'
  <2>1. (CHOOSE d \in chosen : TRUE) = c
      BY <1>6
  <2>2. Highest(Decl).via = "cli" /\ Highest(Decl).value = <<c>>
      BY <1>3, <1>6, <2>1
  <2>3. PICK via : via = "cli"
      OBVIOUS
  <2>4. Elect(c, via) /\ Highest(Decl).via = via /\ c \in AltNames(Decl)
      BY <1>6, <2>2, <2>3 DEF chosen
  <2>. QED BY <1>1, <2>2, <2>4, WalkingFacts, ElectAgrees
<1>7. CASE chosen = {} /\ ElectDefault
    BY <1>1, <1>3, <1>7, DefaultsAgree
<1>. QED BY <1>4, <1>5, <1>6, <1>7

LEMMA FlagsAgree ==
    ASSUME Walking, ResolveScoped
    PROVE  Agreed'
<1>1. /\ UNCHANGED <<input, pre, path>> /\ ScopedFlag(Decl) /\ Live(Decl) /\ Decl.kind = "flag"
    BY DEF ResolveScoped, ScopeFrame, ScopedFlag, IsFlag
<1>2. Decl \notin RootFlags
    BY <1>1, WalkingFacts, OnlyFlagsAtTheRoot
<1>. DEFINE n == Decl.name
            raws == RawsAt(Given(n))
            high == Highest(Decl)
<1>3. high = IF raws # <<>> THEN [via |-> "cli", value |-> FromWords(Decl, raws)]
             ELSE IF Decl.env /\ n \in DOMAIN Env
             THEN [via |-> "env", value |-> FromWords(Decl, Env[n])]
             ELSE IF n \in DOMAIN Config THEN [via |-> "config", value |-> Config[n]]
             ELSE [via |-> "default", value |-> Decl.dflt]
  <2>1. RawsFor(Decl) = raws
      BY <1>2, WordsSaidOf
  <2>2. ~IsSelector(Decl)
      BY <1>1 DEF IsSelector
  <2>. QED BY <1>1, <1>2, <2>1, <2>2, HighestIs
<1>4. ASSUME NEW got, Keep(got), high.value = got.value, high.via # "default"
      PROVE  Agreed'
  <2>1. \/ /\ Resolve(scopes.elected, Put(scopes.values, Key(Decl), got.value),
                      scopes.provided \cup {Key(Decl)})
           /\ UNCHANGED problems
        \/ PassDecl /\ problems' # {}
      BY <1>4 DEF Keep
  <2>2. UNCHANGED typed
      BY <1>4 DEF Keep
  <2>3. PICK value, told : value = got.value /\ told = scopes.provided \cup {Key(Decl)}
      OBVIOUS
  <2>4. CASE /\ Resolve(scopes.elected, Put(scopes.values, Key(Decl), got.value),
                        scopes.provided \cup {Key(Decl)})
             /\ UNCHANGED problems
      BY <1>1, <1>4, <2>2, <2>3, <2>4, WalkingFacts, ValueAgrees
  <2>5. CASE PassDecl /\ problems' # {}
      BY <1>1, <2>2, <2>5, WalkingFacts, PassAgrees
  <2>. QED BY <2>1, <2>4, <2>5
<1>5. \/ Undecided("repetition") \/ Undecided("presence")
      \/ raws # <<>> /\ Keep(Words(Decl, raws, stdin))
      \/ raws = <<>> /\ Decl.env /\ n \in DOMAIN Env /\ Keep(Words(Decl, Env[n], stdin))
      \/ /\ raws = <<>> /\ ~(Decl.env /\ n \in DOMAIN Env) /\ n \in DOMAIN Config
         /\ Keep([ok |-> Coercible(Decl, Config[n]), value |-> Config[n], stdin |-> stdin])
      \/ /\ raws = <<>> /\ ~(Decl.env /\ n \in DOMAIN Env) /\ n \notin DOMAIN Config
         /\ Resolve(scopes.elected, Put(scopes.values, Key(Decl), Decl.dflt), scopes.provided)
         /\ UNCHANGED <<typed, stdin, problems>>
    BY DEF ResolveScoped
<1>. HIDE DEF raws, high
<1>6. CASE Undecided("repetition") \/ Undecided("presence")
    BY <1>1, <1>6, RefusalsAgree
<1>7. CASE raws # <<>> /\ Keep(Words(Decl, raws, stdin))
  <2>1. PICK got : got = Words(Decl, raws, stdin)
      OBVIOUS
  <2>2. got.value = FromWords(Decl, raws)
      BY <2>1 DEF Words
  <2>. QED BY <1>3, <1>4, <1>7, <2>1, <2>2
<1>8. CASE raws = <<>> /\ Decl.env /\ n \in DOMAIN Env /\ Keep(Words(Decl, Env[n], stdin))
  <2>1. PICK got : got = Words(Decl, Env[n], stdin)
      OBVIOUS
  <2>2. got.value = FromWords(Decl, Env[n])
      BY <2>1 DEF Words
  <2>. QED BY <1>3, <1>4, <1>8, <2>1, <2>2
<1>9. CASE /\ raws = <<>> /\ ~(Decl.env /\ n \in DOMAIN Env) /\ n \in DOMAIN Config
           /\ Keep([ok |-> Coercible(Decl, Config[n]), value |-> Config[n], stdin |-> stdin])
  <2>1. PICK got : got = [ok |-> Coercible(Decl, Config[n]), value |-> Config[n], stdin |-> stdin]
      OBVIOUS
  <2>2. got.value = Config[n] /\ Keep(got)
      BY <1>9, <2>1
  <2>. QED BY <1>3, <1>4, <1>9, <2>2
<1>10. CASE /\ raws = <<>> /\ ~(Decl.env /\ n \in DOMAIN Env) /\ n \notin DOMAIN Config
            /\ Resolve(scopes.elected, Put(scopes.values, Key(Decl), Decl.dflt), scopes.provided)
            /\ UNCHANGED <<typed, stdin, problems>>
  <2>1. high.via = "default" /\ high.value = Decl.dflt
      BY <1>3, <1>10
  <2>2. PICK value, told : value = Decl.dflt /\ told = scopes.provided
      OBVIOUS
  <2>. QED BY <1>1, <1>10, <2>1, <2>2, WalkingFacts, ValueAgrees DEF high
<1>. QED BY <1>5, <1>6, <1>7, <1>8, <1>9, <1>10

-----------------------------------------------------------------------------
(* What later steps leave of the words read.                                 *)

\* An election or another later step changes no word of a flag of the root.
LEMMA LaterWordsStay ==
    ASSUME HandInv, Shaped, GlobalsKnown, StoreRead,
           UNCHANGED <<input, pre, path, globals, store>>, problems' = {} => problems = {},
           \/ typed' = typed
           \/ \E names : typed' = [i \in DOMAIN typed |-> Bind(typed[i], names)]
    PROVE  Shaped' /\ GlobalsKnown' /\ StoreRead'
<1>1. IsRead(typed) /\ SaidAll(typed)
    BY DEF HandInv, WordsRead, IsRead
<1>2. Shaped' /\ Unsets' = Unsets /\ \A V : "scoped" \notin V => \A n :
            /\ Spoken(typed', V, n) = Spoken(typed, V, n)
            /\ SpokenWords(typed', V, n) = SpokenWords(typed, V, n)
  <2>1. CASE typed' = typed
    <3>1. \A e : WellShaped(e)' = WellShaped(e)
        BY ShapeStays
    <3>2. Shaped'
      <4>1. ASSUME NEW i \in DOMAIN typed
            PROVE  WellShaped(typed[i])'
        <5>1. PICK e : e = typed[i]
            OBVIOUS
        <5>2. WellShaped(e) /\ WellShaped(e)' = WellShaped(e)
            BY <3>1, <5>1 DEF Shaped
        <5>3. typed'[i] = e
            BY <2>1, <5>1
        <5>. QED BY <5>2, <5>3
      <4>. QED BY <2>1, <4>1 DEF Shaped
    <3>3. Unsets' = Unsets
        BY <2>1 DEF Unsets
    <3>. QED BY <2>1, <3>2, <3>3
  <2>2. ASSUME NEW names, typed' = [i \in DOMAIN typed |-> Bind(typed[i], names)]
        PROVE  Shaped' /\ Unsets' = Unsets /\ \A V : "scoped" \notin V => \A n :
                    /\ Spoken(typed', V, n) = Spoken(typed, V, n)
                    /\ SpokenWords(typed', V, n) = SpokenWords(typed, V, n)
    <3>1. Shaped'
        BY <2>2, ShapeBinds
    <3>2. Unsets' = Unsets
        BY <1>1, <2>2, Rebound DEF IsRead
    <3>3. ASSUME NEW V, "scoped" \notin V, NEW n
          PROVE  /\ Spoken(typed', V, n) = Spoken(typed, V, n)
                 /\ SpokenWords(typed', V, n) = SpokenWords(typed, V, n)
        BY <1>1, <2>2, <3>3, BindLeaves
    <3>. QED BY <3>1, <3>2, <3>3
  <2>. QED BY <2>1, <2>2
<1>3. GlobalsKnown'
  <2>1. \A n : /\ Spoken(typed', {"global"}, n) = Spoken(typed, {"global"}, n)
               /\ SpokenWords(typed', {"global"}, n) = SpokenWords(typed, {"global"}, n)
      BY <1>2
  <2>2. ASSUME NEW g \in ToSet(app.globals)
        PROVE  /\ GlobalSaid(g)' = GlobalSaid(g) /\ GlobalValue(g)' = GlobalValue(g)
               /\ LayerOf(g)' = LayerOf(g)
    <3>1. LayerOf(g)' = LayerOf(g)
        BY LayersAreRead
    <3>. QED BY <2>1, <3>1 DEF GlobalSaid, GlobalValue
  <2>. QED BY <2>2 DEF GlobalsKnown, input
<1>4. StoreRead'
  <2>1. \A n : /\ Spoken(typed', {"root"}, n) = Spoken(typed, {"root"}, n)
               /\ SpokenWords(typed', {"root", "global"}, n) = SpokenWords(typed, {"root", "global"}, n)
      BY <1>2
  <2>2. RootFlags' = RootFlags
      BY DEF RootFlags, Command, input
  <2>3. ASSUME NEW f \in RootFlags
        PROVE  RootSaid(f.name)' = RootSaid(f.name) /\ AllSaid(f)' = AllSaid(f)
      BY <2>1 DEF RootSaid, AllSaid
  <2>. QED BY <1>2, <2>2, <2>3 DEF StoreRead
<1>. QED BY <1>2, <1>3, <1>4

\* Every step of the walk keeps what is known,
LEMMA TreeSteps ==
    ASSUME Walking, GlobalsKnown, StoreRead,
           PassOver \/ ElectByToken \/ ElectByMembers \/ ResolveScoped
    PROVE  phase' = "scopes" /\ Shaped' /\ GlobalsKnown' /\ StoreRead' /\ Agreed'
<1>1. phase' = "scopes" /\ UNCHANGED <<input, pre, path, globals, store>>
    BY DEF PassOver, ElectByToken, ElectByMembers, ResolveScoped, Scoping, ScopeFrame
<1>2. ASSUME NEW stage, Undecided(stage)
      PROVE  typed' = typed /\ problems' # {}
    BY <1>2 DEF Undecided
<1>3. ASSUME NEW choice, NEW via, Elect(choice, via)
      PROVE  /\ problems' = {} => problems = {}
             /\ \E names : typed' = [i \in DOMAIN typed |-> Bind(typed[i], names)]
    BY <1>3 DEF Elect
<1>4. ASSUME NEW got, Keep(got)
      PROVE  typed' = typed /\ (problems' = {} => problems = {})
    BY <1>4 DEF Keep
<1>5. \/ PassOver \/ \E stage : Undecided(stage)
      \/ \E choice, via : Elect(choice, via)
      \/ \E got : Keep(got)
      \/ UNCHANGED <<typed, stdin, problems>>
  <2>1. ASSUME ElectDefault
        PROVE  \E stage, choice, via : Undecided(stage) \/ Elect(choice, via)
      BY <2>1 DEF ElectDefault
  <2>2. ASSUME NEW choice, NEW via, ElectNamed(choice, via)
        PROVE  Undecided("election") \/ Elect(choice, via)
      BY <2>2 DEF ElectNamed
  <2>3. CASE ElectByToken
    <3>1. \E stage, choice, via : Undecided(stage) \/ ElectNamed(choice, via) \/ ElectDefault
        BY <2>3 DEF ElectByToken
    <3>. QED BY <2>1, <2>2, <3>1
  <2>4. CASE ElectByMembers
    <3>1. \E stage, choice, via : Undecided(stage) \/ Elect(choice, via) \/ ElectDefault
        BY <2>4 DEF ElectByMembers
    <3>. QED BY <2>1, <3>1
  <2>5. CASE ResolveScoped
      BY <2>5 DEF ResolveScoped
  <2>. QED BY <2>3, <2>4, <2>5
<1>6. /\ problems' = {} => problems = {}
      /\ \/ typed' = typed
         \/ \E names : typed' = [i \in DOMAIN typed |-> Bind(typed[i], names)]
    BY <1>2, <1>3, <1>4, <1>5 DEF PassOver
<1>7. Shaped' /\ GlobalsKnown' /\ StoreRead'
    BY <1>1, <1>6, LaterWordsStay DEF Walking
<1>8. Agreed'
  <2>1. CASE PassOver
    <3>1. PassDecl /\ UNCHANGED <<typed, problems>> /\ (~Live(Decl) \/ (IsFlag(Decl) /\ Decl.path = <<>>))
        BY <2>1 DEF PassOver
    <3>2. IsFlag(Decl) /\ Decl.path = <<>> => ~IsSelector(Decl) /\ ~ScopedFlag(Decl)
        BY DEF IsFlag, IsSelector, ScopedFlag
    <3>. QED BY <1>1, <3>1, <3>2, WalkingFacts, PassAgrees
  <2>. QED BY <2>1, TokensAgree, MembersAgree, FlagsAgree
<1>. QED BY <1>1, <1>7, <1>8

\* What was said stays when neither the words nor the resolution change.
LEMMA AgreedStays ==
    ASSUME Registered(app), Agreed, UNCHANGED <<input, pre, path, typed, scopes>>,
           problems' = {} => problems = {}
    PROVE  Agreed'
<1>1. Command' = Command /\ scopes' = scopes
    BY DEF Command, input
<1>2. ASSUME problems' = {}, NEW j \in 1..(scopes.next - 1), Live(Command.decls[j])
      PROVE  AgreesOn(Command.decls[j])'
  <2>1. PICK d : d = Command.decls[j]
      OBVIOUS
  <2>2. AgreesWith(d, Highest(d), scopes.elected, scopes.values, scopes.provided)
      BY <1>2, <2>1 DEF Agreed, AgreesOn
  <2>3. AgreesWith(d, Highest(d)', scopes.elected, scopes.values, scopes.provided)
    <3>1. CASE ~IsSelector(d) /\ ~ScopedFlag(d)
        BY <3>1 DEF AgreesWith
    <3>2. CASE IsSelector(d) \/ ScopedFlag(d)
      <4>1. Highest(d)' = Highest(d)
          BY <3>2, SaidTheSame
      <4>. QED BY <2>2, <4>1
    <3>. QED BY <3>1, <3>2
  <2>4. AgreesOn(d)'
      BY <1>1, <2>3 DEF AgreesOn
  <2>5. Command.decls[j]' = d
      BY <1>1, <2>1
  <2>. QED BY <2>4, <2>5
<1>. QED BY <1>1, <1>2 DEF Agreed, Live

\* The invariant is kept by every step, and holds at the start.
LEMMA SourceInvSteps ==
    ASSUME SourceInv, [InvocationNext]_vars, ScopeInv'
    PROVE  SourceInv'
<1>1. HandInv /\ ScopeInv /\ Registered(app)
    BY DEF SourceInv, ScopeInv, HandInv, InputsOK
<1>2. CASE UNCHANGED vars
  <2>1. UNCHANGED <<input, pre, path, typed, scopes, problems, globals, store, phase, outcome>>
      BY <1>2 DEF vars, argvVars, parseVars, input
  <2>2. /\ Parsing' = Parsing /\ Stored' = Stored /\ phase' = phase
      BY <2>1 DEF Parsing, Stored, Ran
  <2>3. OnlyGlobals' = OnlyGlobals /\ GlobalsRead' = GlobalsRead /\ GlobalsKnown' = GlobalsKnown
      BY <2>1, NothingGiven
  <2>4. Shaped => Shaped'
    <3>1. \A e : WellShaped(e)' = WellShaped(e)
        BY <2>1, ShapeStays
    <3>2. ASSUME Shaped, NEW i \in DOMAIN typed
          PROVE  WellShaped(typed[i])'
      <4>1. PICK e : e = typed[i]
          OBVIOUS
      <4>2. WellShaped(e) /\ WellShaped(e)' = WellShaped(e)
          BY <3>1, <3>2, <4>1 DEF Shaped
      <4>3. typed'[i] = e
          BY <2>1, <4>1
      <4>. QED BY <4>2, <4>3
    <3>. QED BY <2>1, <3>2 DEF Shaped
  <2>5. StoreRead /\ Agreed /\ Stored => StoreRead' /\ Agreed'
    <3>1. Stored => Shaped /\ GlobalsKnown
        BY DEF SourceInv, Stored, Parsing
    <3>2. StoreRead /\ Shaped /\ GlobalsKnown => StoreRead'
        BY <1>1, <2>1, LaterWordsStay
    <3>3. Agreed => Agreed'
        BY <1>1, <2>1, AgreedStays
    <3>. QED BY <3>1, <3>2, <3>3
  <2>. QED BY <2>2, <2>3, <2>4, <2>5 DEF SourceInv
<1>3. CASE ArgvNext /\ UNCHANGED parseVars
  <2>1. EarlyOK
      BY DEF SourceInv, EarlyOK
  <2>2. EarlyOK' /\ (Parsing => Shaped)' /\ ~Stored'
      BY <1>1, <1>3, <2>1, EarlySteps
  <2>. QED BY <2>2 DEF SourceInv, EarlyOK
<1>4. CASE \/ TakeWord \/ TakeStop \/ TakeInline \/ TakeNegation \/ TakeUnset \/ TakeFlag
           \/ TakeUnknown
  <2>1. phase = "tokens"
      BY <1>4 DEF TakeWord, TakeStop, TakeInline, TakeNegation, TakeUnset, TakeFlag, TakeUnknown, Reading
  <2>2. GlobalsKnown /\ Shaped
      BY <2>1 DEF SourceInv, Parsing
  <2>3. phase' = "tokens" /\ GlobalsKnown' /\ Shaped'
      BY <1>1, <1>4, <2>2, TokensRead
  <2>. QED BY <2>3 DEF SourceInv, Stored, Ran, ArgvPhases
<1>5. CASE TokensEnd
  <2>1. phase = "tokens" /\ scopes = NoScopes
      BY <1>1, <1>5 DEF TokensEnd, ScopeInv, EarlyPhases
  <2>2. GlobalsKnown /\ Shaped
      BY <2>1 DEF SourceInv, Parsing
  <2>3. phase' = "scopes" /\ GlobalsKnown' /\ Shaped' /\ StoreRead' /\ Agreed'
      BY <1>1, <1>5, <2>1, <2>2, TokensEndReading
  <2>. QED BY <2>3 DEF SourceInv, ArgvPhases
<1>6. CASE PassOver \/ ElectByToken \/ ElectByMembers \/ ResolveScoped
  <2>1. phase = "scopes" /\ scopes.next <= Len(Command.decls)
      BY <1>6 DEF PassOver, ElectByToken, ElectByMembers, ResolveScoped, Scoping
  <2>2. InCommand /\ ScopesOK /\ GlobalsKnown /\ Shaped /\ StoreRead /\ Agreed
      BY <1>1, <2>1 DEF SourceInv, ScopeInv, HandInv, Parsing, Stored
  <2>3. scopes.next \in 1..Len(Command.decls)
    <3>1. Len(Command.decls) \in Nat
        BY <1>1, <2>2, TreeOfTheCommand
    <3>2. scopes.next \in 1..(Len(Command.decls) + 1)
        BY <2>2 DEF ScopesOK, Resolved
    <3>. QED BY <2>1, <3>1, <3>2
  <2>4. phase' = "scopes" /\ Shaped' /\ GlobalsKnown' /\ StoreRead' /\ Agreed'
      BY <1>1, <1>6, <2>2, <2>3, TreeSteps DEF Walking
  <2>. QED BY <2>4 DEF SourceInv, ArgvPhases
<1>7. CASE ScopesEnd \/ Deliver
  <2>1. phase \in {"scopes", "deliver"}
      BY <1>7 DEF ScopesEnd, Deliver
  <2>2. /\ UNCHANGED <<input, pre, path, typed, scopes, globals, store>>
        /\ problems' = {} => problems = {}
      BY <1>7 DEF ScopesEnd, Deliver, parseVars
  <2>3. GlobalsKnown /\ Shaped /\ StoreRead /\ Agreed
      BY <2>1 DEF SourceInv, Parsing, Stored
  <2>4. Shaped' /\ GlobalsKnown' /\ StoreRead'
      BY <1>1, <2>2, <2>3, LaterWordsStay
  <2>5. Agreed'
      BY <1>1, <2>2, <2>3, AgreedStays
  <2>6. phase' \in {"deliver", "done"}
      BY <1>7 DEF ScopesEnd, Deliver, Refuse, Finish
  <2>. QED BY <2>4, <2>5, <2>6 DEF SourceInv, ArgvPhases
<1>. QED BY <1>2, <1>3, <1>4, <1>5, <1>6, <1>7 DEF InvocationNext, CommandNext

LEMMA SourceInvStarts ==
    ASSUME InvocationInit, ScopeInv
    PROVE  SourceInv
<1>1. phase = "start" /\ typed = <<>> /\ globals = EmptyStore
    BY DEF InvocationInit, ArgvInit
<1>2. OnlyGlobals
    BY <1>1 DEF OnlyGlobals
<1>3. GlobalsRead
  <2>1. \A g : GlobalSaid(g) = {}
      BY <1>1 DEF GlobalSaid, Spoken
  <2>2. DOMAIN globals = {}
      BY <1>1 DEF EmptyStore
  <2>3. Cardinality({}) = 0 /\ 0 <= 1
      BY FS_EmptySet
  <2>. QED BY <2>1, <2>2, <2>3 DEF GlobalsRead
<1>. QED BY <1>1, <1>2, <1>3 DEF SourceInv, Parsing, Stored, Ran

-----------------------------------------------------------------------------
(* Implications: a target that was set was set by one that had to fire.      *)

\* A set of implications with each whose trigger was supplied or set by one
\* before it in the set has those that set something.
MustFire(rules, s, F) ==
    \A i \in ImpliesOf(rules) :
        \/ Provided(s, Trigger(rules[i]))
        \/ \E j \in F : j \in ImpliesOf(rules) /\ j < i /\ Target(rules[j]) = Trigger(rules[i])
        => i \in F

\* What implications added, one of any such set added.
LEMMA AddedByTheLeast ==
    ASSUME NEW rules, NEW n \in Nat, DOMAIN rules = 1..n, NEW s, NEW g, Chain(rules, s, n, g),
           NEW F, MustFire(rules, s, F)
    PROVE  \A k \in 0..n : \A m \in DOMAIN g[k].store \ DOMAIN s :
                \E i \in F \cap ImpliesOf(rules) : i <= k /\ m = Target(rules[i])
<1>. DEFINE Good(k) == \A m \in DOMAIN g[k].store \ DOMAIN s :
                            \E i \in F \cap ImpliesOf(rules) : i <= k /\ m = Target(rules[i])
            bad == {k \in 0..n : ~Good(k)}
<1>1. SUFFICES ASSUME bad # {} PROVE FALSE
    OBVIOUS
<1>2. PICK k \in bad : \A j \in bad : k <= j
  <2>1. bad \subseteq Nat
      OBVIOUS
  <2>. HIDE DEF bad
  <2>. QED BY <1>1, <2>1, LeastNumber
<1>3. k \in 0..n /\ ~Good(k) /\ \A j \in 0..n : j < k => Good(j)
    BY <1>2
<1>. HIDE DEF bad
<1>4. PICK m \in DOMAIN g[k].store \ DOMAIN s :
            ~\E i \in F \cap ImpliesOf(rules) : i <= k /\ m = Target(rules[i])
    BY <1>3
<1>5. PICK i \in 1..k : Fires(g[i - 1], rules[i]) /\ m = Target(rules[i])
  <2>1. LinkOK(rules, s, g, k)
      BY <1>3, LinksAreOK
  <2>. QED BY <1>4, <2>1 DEF LinkOK
<1>6. i \in 1..n /\ i \in ImpliesOf(rules) /\ i <= k /\ i - 1 \in 0..n /\ i - 1 < k
    BY <1>3, <1>5 DEF Fires, ImpliesOf
<1>. DEFINE t == Trigger(rules[i])
            before == g[i - 1].store
<1>7. t \in DOMAIN before /\ before[t].via \in ProvidedSources
    BY <1>5 DEF Fires, Provided, Has
<1>8. Extends(before, s)
  <2>1. LinkOK(rules, s, g, i - 1)
      BY <1>6, LinksAreOK
  <2>. QED BY <2>1 DEF LinkOK
<1>9. CASE t \in DOMAIN s
  <2>1. Provided(s, t)
      BY <1>7, <1>8, <1>9 DEF Extends, Provided, Has
  <2>. QED BY <1>4, <1>5, <1>6, <2>1 DEF MustFire
<1>10. CASE t \notin DOMAIN s
  <2>1. Good(i - 1)
      BY <1>3, <1>6
  <2>2. PICK j \in F \cap ImpliesOf(rules) : j <= i - 1 /\ t = Target(rules[j])
      BY <1>7, <1>10, <2>1
  <2>3. j < i
    <3>1. j \in 1..n
        BY <2>2 DEF ImpliesOf
    <3>. QED BY <1>6, <2>2, <3>1
  <2>. QED BY <1>4, <1>5, <1>6, <2>2, <2>3 DEF MustFire
<1>. QED BY <1>9, <1>10

\* What an implication set was set by one a reader of the result takes to have
\* fired.
LEMMA SetByFired ==
    ASSUME Handing, NEW n \in DOMAIN Settled \ DOMAIN Gathered
    PROVE  \E c \in Fired : c \in ToSet(Command.constraints) /\ Target(c) = n
<1>. DEFINE rules == Command.constraints
            implies == {i \in DOMAIN rules : rules[i].kind = "implies"}
            trigger(i) == rules[i].members[1].name
            Onward(S) == \A i \in implies :
                (\/ outcome.via[trigger(i)] \in ProvidedSources \ {"implied"}
                 \/ \E j \in S : j < i /\ rules[j].members[2].name = trigger(i)) => i \in S
            F == {j \in implies : \A S \in SUBSET implies : Onward(S) => j \in S}
<1>1. Registered(app) /\ InCommand
    BY DEF Handing
<1>2. Fired = {rules[i] : i \in F}
    BY DEF Fired
<1>3. ASSUME NEW i \in implies, Provided(Gathered, Trigger(rules[i]))
      PROVE  outcome.via[trigger(i)] \in ProvidedSources \ {"implied"}
  <2>. DEFINE c == rules[i]
              t == Trigger(c)
  <2>1. c \in ToSet(rules) /\ c.kind = "implies" /\ ~CoOccurrence(c)
      BY DEF ToSet, CoOccurrence
  <2>2. t \in RootNames
      BY <1>1, <2>1, PairsAreOfTheRoot
  <2>3. ~\E d \in RootDecls(Command) : d.name = t /\ IsSelector(d)
    <3>1. ConstraintOK(Command, c) /\ 1 \in DOMAIN c.members
      <4>1. Len(c.members) >= 2 /\ DOMAIN c.members = 1..Len(c.members) /\ Len(c.members) \in Nat
            /\ ConstraintOK(Command, c)
          BY <1>1, <2>1, MembersAreNamed
      <4>. QED BY <4>1
    <3>2. t \in ToSet(MemberNames(c))
        BY <1>1, <2>1, <3>1, MembersAreNamed DEF Trigger
    <3>. QED BY <2>1, <3>1, <3>2 DEF ConstraintOK, IsFlag, IsSelector
  <2>4. t \in Names(Flags(Command))
    <3>1. RootNames = Names(Flags(Command)) \cup Names({d \in RootDecls(Command) : IsSelector(d)})
        BY <1>1, RootDeclarations
    <3>. QED BY <2>2, <2>3, <3>1 DEF Names
  <2>. HIDE DEF t
  <2>5. t \in DOMAIN Gathered
      BY <1>3 DEF Provided, Has, t
  <2>6. Gathered[t].via \in {"cli", "env", "config"}
      BY <2>4, <2>5, GatheredFlags
  <2>7. t \in DOMAIN Settled /\ Settled[t] = Gathered[t]
      BY <2>5, SettledFlags DEF Extends
  <2>8. outcome.via[t] = Settled[t].via
      BY <2>2, <2>7, HandedValues
  <2>9. outcome.via[t] \in ProvidedSources \ {"implied"}
      BY <2>6, <2>7, <2>8 DEF ProvidedSources
  <2>. QED BY <2>9 DEF t, Trigger
<1>4. ASSUME NEW i \in implies, NEW j \in F, j < i, Target(rules[j]) = Trigger(rules[i])
      PROVE  i \in F
  <2>1. ASSUME NEW S \in SUBSET implies, Onward(S)
        PROVE  i \in S
    <3>1. j \in S
        BY <2>1
    <3>. QED BY SMTT(60), <1>4, <2>1, <3>1 DEF Trigger, Target
  <2>. HIDE DEF Onward
  <2>. QED BY SMTT(60), <2>1
<1>5. ASSUME NEW i \in implies, Provided(Gathered, Trigger(rules[i]))
      PROVE  i \in F
  <2>1. ASSUME NEW S \in SUBSET implies, Onward(S)
        PROVE  i \in S
      BY <1>3, <1>5, <2>1
  <2>. HIDE DEF Onward
  <2>. QED BY <2>1
<1>6. implies = ImpliesOf(rules) /\ F \subseteq implies
    BY DEF ImpliesOf
<1>. HIDE DEF F, implies, Onward
<1>7. Len(rules) \in Nat /\ DOMAIN rules = 1..Len(rules)
  <2>1. Command \in CommandType
      BY <1>1, RegisteredCommand
  <2>2. rules \in Seq(ConstraintType)
      BY <2>1 DEF CommandType
  <2>. QED BY <2>2
<1>8. PICK len \in Nat : len = Len(rules)
    BY <1>7
<1>9. PICK g : Chain(rules, Gathered, len, g) /\ Implied(Command, Gathered) = g[len]
    BY <1>8, ImpliedIsAChain
<1>10. MustFire(rules, Gathered, F)
    BY <1>4, <1>5, <1>6 DEF MustFire
<1>11. \A k \in 0..len : \A m \in DOMAIN g[k].store \ DOMAIN Gathered :
            \E i \in F \cap ImpliesOf(rules) : i <= k /\ m = Target(rules[i])
  <2>1. PICK list, start, fired : list = rules /\ start = Gathered /\ fired = F
      OBVIOUS
  <2>. HIDE DEF rules
  <2>2. DOMAIN list = 1..len /\ Chain(list, start, len, g)
      BY <1>7, <1>8, <1>9, <2>1
  <2>3. MustFire(list, start, fired)
      BY <1>10, <2>1
  <2>4. \A k \in 0..len : \A m \in DOMAIN g[k].store \ DOMAIN start :
            \E i \in fired \cap ImpliesOf(list) : i <= k /\ m = Target(list[i])
      BY <2>2, <2>3, AddedByTheLeast
  <2>. QED BY <2>1, <2>4
<1>12. PICK i \in F \cap ImpliesOf(rules) : n = Target(rules[i])
  <2>1. Settled = g[len].store /\ len \in 0..len
      BY <1>8, <1>9 DEF Settled
  <2>. QED BY <1>11, <2>1
<1>. QED BY <1>2, <1>12 DEF ToSet, ImpliesOf

-----------------------------------------------------------------------------
(* What a handler is given is what was said.                                 *)

\* What the command line and the layers say of a flag of the root or a global.
SaidOf(f) ==
    IF f.name \in Unsets THEN Sourced(Absent, "cli")
    ELSE IF AllSaid(f) # <<>> THEN Sourced(FromWords(f, AllSaid(f)), "cli")
    ELSE LayerOf(f)

Sourcing ==
    /\ Opening /\ IsRead(typed) /\ SaidAll(typed) /\ Shaped
    /\ GlobalsKnown /\ StoreRead /\ Agreed

\* For a flag of the root or a global the highest layer is what was said of it.
LEMMA RootHighest ==
    ASSUME Registered(app), InCommand, IsRead(typed), Shaped, NEW f \in RootFlags
    PROVE  /\ Highest(f).via = SaidOf(f).via /\ Highest(f).value = SaidOf(f).value
           /\ Highest(f) = [via |-> SaidOf(f).via, value |-> SaidOf(f).value]
           /\ f.kind = "flag"
<1>1. f.kind = "flag" /\ ~IsSelector(f)
  <2>1. \A g \in ToSet(app.globals) : AtRoot(g)
      BY DEF Registered, GlobalsOK
  <2>. QED BY <2>1 DEF RootFlags, Flags, AtRoot, IsFlag, IsSelector
<1>2. RawsFor(f) = AllSaid(f)
    BY WordsSaidOf
<1>3. f.name \in Unsets <=> Count("unset", f.name) > 0
    BY UnsetsAreSpoken
<1>4. Highest(f) =
        IF f.name \in Unsets THEN [via |-> "cli", value |-> Absent]
        ELSE IF AllSaid(f) # <<>> THEN [via |-> "cli", value |-> FromWords(f, AllSaid(f))]
        ELSE IF f.env /\ f.name \in DOMAIN Env
        THEN [via |-> "env", value |-> FromWords(f, Env[f.name])]
        ELSE IF f.name \in DOMAIN Config THEN [via |-> "config", value |-> Config[f.name]]
        ELSE [via |-> "default", value |-> f.dflt]
    BY <1>1, <1>2, <1>3, HighestIs
<1>5. PICK x : x = SaidOf(f)
    OBVIOUS
<1>6. x = IF f.name \in Unsets THEN [value |-> Absent, via |-> "cli"]
          ELSE IF AllSaid(f) # <<>> THEN [value |-> FromWords(f, AllSaid(f)), via |-> "cli"]
          ELSE IF f.env /\ f.name \in DOMAIN Env
          THEN [value |-> FromWords(f, Env[f.name]), via |-> "env"]
          ELSE IF f.name \in DOMAIN Config THEN [value |-> Config[f.name], via |-> "config"]
          ELSE [value |-> f.dflt, via |-> "default"]
    BY <1>5 DEF SaidOf, LayerOf, Sourced
<1>7. Highest(f).via = x.via /\ Highest(f).value = x.value
    BY <1>4, <1>6
<1>8. Highest(f) = [via |-> x.via, value |-> x.value]
    BY <1>4, <1>6
<1>. QED BY <1>1, <1>5, <1>7, <1>8

\* What is gathered of a flag is what was said of it, or it has a default.
LEMMA StoreSays ==
    ASSUME Sourcing, NEW f \in RootFlags
    PROVE  /\ f.name \in DOMAIN store => store[f.name] = SaidOf(f)
           /\ f.name \notin DOMAIN store => RootSaid(f.name) = {} /\ f.name \notin Unsets
           /\ f.name \notin DOMAIN store /\ GlobalSaid(f) = {} => SaidOf(f) = LayerOf(f)
           /\ f.name \notin DOMAIN store /\ GlobalSaid(f) # {} => SaidOf(f) = GlobalValue(f)
<1>1. StoreOK /\ StoreRead /\ problems = {} /\ IsRead(typed) /\ Shaped
    BY DEF Sourcing, Opening, Handing, ScopesDone
<1>. DEFINE n == f.name
            W == {"root", "global"}
<1>2. Spoken(typed, W, n) = RootSaid(n) \cup GlobalSaid(f)
    BY DEF Spoken, RootSaid, GlobalSaid
<1>3. Spoken(typed, W, n) = {} <=> AllSaid(f) = <<>>
    BY <1>1, SpokenPlaces DEF AllSaid
<1>4. n \in DOMAIN store <=> n \in Unsets \/ RootSaid(n) # {}
    BY <1>1 DEF StoreRead
<1>5. CASE n \in Unsets
    BY <1>1, <1>4, <1>5 DEF StoreOK, SaidOf
<1>6. CASE n \notin Unsets /\ RootSaid(n) # {}
    BY <1>1, <1>2, <1>3, <1>4, <1>6 DEF StoreRead, SaidOf
<1>7. CASE n \notin Unsets /\ RootSaid(n) = {}
  <2>1. AllSaid(f) = SpokenWords(typed, {"global"}, n)
    <3>1. Spoken(typed, W, n) = Spoken(typed, {"global"}, n)
        BY <1>2, <1>7 DEF GlobalSaid
    <3>. QED BY <3>1 DEF AllSaid, SpokenWords
  <2>. QED BY <1>2, <1>3, <1>4, <1>7, <2>1 DEF SaidOf, GlobalValue
<1>. QED BY <1>5, <1>6, <1>7

\* For a flag of the command that is what is gathered, when it is not the default.
LEMMA GatheredIsSaid ==
    ASSUME Sourcing, NEW f \in Flags(Command)
    PROVE  /\ f.name \in DOMAIN Gathered => Gathered[f.name] = SaidOf(f) /\ SaidOf(f).via # "default"
           /\ f.name \notin DOMAIN Gathered => SaidOf(f) = Sourced(f.dflt, "default")
<1>1. Handing /\ Registered(app) /\ InCommand /\ Shaped
    BY DEF Sourcing, Opening, Handing
<1>. DEFINE n == f.name
<1>2. f \in RootFlags
    BY DEF RootFlags
<1>3. n \in Names(Flags(Command)) /\ n \notin DOMAIN Chosen
    BY <1>1, GatheredFlags DEF Names
<1>4. (n \in DOMAIN Gathered <=> n \in DOMAIN Read.store)
      /\ (n \in DOMAIN Gathered => Gathered[n] = Read.store[n])
  <2>1. /\ DOMAIN Gathered = DOMAIN Chosen \cup DOMAIN Read.store
        /\ \A k \in DOMAIN Read.store \ DOMAIN Chosen : Gathered[k] = Read.store[k]
      BY OverExtends DEF Gathered
  <2>. QED BY <1>3, <2>1
<1>5. Distinct(Flags(Command))
    BY <1>1, RootFlagsAreDistinct DEF Distinct, RootFlags
<1>6. /\ n \in DOMAIN store => n \in DOMAIN Read.store /\ Read.store[n] = store[n]
      /\ n \notin DOMAIN store =>
            IF f.env /\ n \in DOMAIN Env
            THEN n \in DOMAIN Read.store /\ Read.store[n] = Sourced(FromWords(f, Env[n]), "env")
            ELSE IF n \in DOMAIN Config
            THEN n \in DOMAIN Read.store /\ Read.store[n] = Sourced(Config[n], "config")
            ELSE n \notin DOMAIN Read.store
  <2>1. PICK env, config, flags, s, from, a :
            env = Env /\ config = Config /\ flags = Flags(Command) /\ s = store /\ from = stdin /\ a = app
      OBVIOUS
  <2>2. Read.store = Ambient(flags, s, from, a, [env |-> env, config |-> config]).store
      BY <2>1 DEF Read
  <2>3. LET t == Ambient(flags, s, from, a, [env |-> env, config |-> config]).store
        IN  /\ n \in DOMAIN s => n \in DOMAIN t /\ t[n] = s[n]
            /\ n \notin DOMAIN s =>
                IF f.env /\ n \in DOMAIN env
                THEN n \in DOMAIN t /\ t[n] = Sourced(FromWords(f, env[n]), "env")
                ELSE IF n \in DOMAIN config
                THEN n \in DOMAIN t /\ t[n] = Sourced(config[n], "config")
                ELSE n \notin DOMAIN t
    <3>1. Distinct(flags) /\ f \in flags
        BY <1>5, <2>1
    <3>. QED BY <3>1, LayersBind
  <2>. QED BY <2>1, <2>2, <2>3
<1>7. GlobalSaid(f) = {}
  <2>1. n \notin NamesOf(app.globals)
      BY <1>1, RootFlagsAreDistinct
  <2>2. ASSUME NEW i \in GlobalSaid(f)
        PROVE  FALSE
    <3>1. PICK e : e = typed[i]
        OBVIOUS
    <3>2. e.what = "global" /\ e.names = <<n>> /\ WellShaped(e)
        BY <1>1, <3>1 DEF GlobalSaid, Spoken, Shaped
    <3>3. e.names[1] = n
        BY <3>2
    <3>. QED BY <2>1, <3>2, <3>3 DEF WellShaped
  <2>. QED BY <2>2
<1>8. CASE n \in DOMAIN store
  <2>1. store[n] = SaidOf(f) /\ store[n].via = "cli"
      BY <1>1, <1>2, <1>8, StoreSays DEF Handing, StoreOK
  <2>. QED BY <1>4, <1>6, <1>8, <2>1
<1>9. CASE n \notin DOMAIN store
  <2>1. SaidOf(f) = LayerOf(f)
      BY <1>2, <1>7, <1>9, StoreSays
  <2>. QED BY <1>4, <1>6, <1>9, <2>1 DEF LayerOf, Sourced
<1>. QED BY <1>8, <1>9

\* A flag nobody supplied has its default.
LEMMA DefaultsAreHanded ==
    ASSUME Handing, NEW f \in Flags(Command), f.name \notin DOMAIN Settled,
           f.name \notin NamesOf(Command.args)
    PROVE  outcome.via[f.name] = "default" /\ outcome.kwargs[f.name] = f.dflt
<1>. DEFINE full == Defaulted(Flags(Command), Settled).store
            n == f.name
<1>1. /\ Registered(app) /\ InCommand /\ Built.ok
      /\ DOMAIN globals \subseteq NamesOf(app.globals)
      /\ outcome.kwargs = Over([g \in DOMAIN AllGlobals |-> AllGlobals[g].value], Built.kwargs)
      /\ outcome.via = Over(Built.via, [g \in DOMAIN AllGlobals |-> AllGlobals[g].via])
    BY DEF Handing, HandedOver
<1>2. RootNames = Names(Flags(Command)) \cup SelectorNames /\ DOMAIN Chosen = SelectorNames
    BY <1>1, RootDeclarations, GatheredFlags DEF SelectorNames
<1>3. /\ Built.via = [m \in RootNames |-> full[m].via]
      /\ Built.kwargs = Over([m \in NamesOf(Command.args) |->
                                ArgValue(Named(ToSet(Command.args), m), Words0)],
                             [m \in RootNames |-> full[m].value])
    BY <1>1, <1>2, BuiltHere
<1>4. full[n] = Sourced(f.dflt, "default")
  <2>1. Distinct(Flags(Command))
      BY <1>1, RootFlagsAreDistinct DEF Distinct, RootFlags
  <2>2. PICK flags, s : flags = Flags(Command) /\ s = Settled
      OBVIOUS
  <2>3. LET t == Defaulted(flags, s).store
        IN  /\ f.name \in DOMAIN t
            /\ t[f.name] = IF f.name \in DOMAIN s THEN s[f.name] ELSE Sourced(f.dflt, "default")
      BY <2>1, <2>2, DefaultBinds
  <2>. QED BY <2>2, <2>3
<1>5. full[n].via = "default" /\ full[n].value = f.dflt
    BY <1>4 DEF Sourced
<1>. HIDE DEF full
<1>6. n \in RootNames
    BY <1>2 DEF Names
<1>7. n \notin DOMAIN AllGlobals
  <2>1. DOMAIN AllGlobals = DOMAIN Later \cup DOMAIN globals
      BY OverExtends DEF AllGlobals
  <2>2. n \notin NamesOf(app.globals)
      BY <1>1, RootFlagsAreDistinct
  <2>. QED BY <1>1, <2>1, <2>2 DEF Later
<1>8. outcome.via[n] = full[n].via
  <2>1. DOMAIN Built.via = RootNames /\ Built.via[n] = full[n].via
      BY <1>3, <1>6
  <2>. QED BY <1>1, <1>6, <2>1 DEF Over
<1>9. outcome.kwargs[n] = full[n].value
  <2>1. n \in DOMAIN Built.kwargs /\ Built.kwargs[n] = full[n].value
    <3>. DEFINE A == [a \in NamesOf(Command.args) |-> ArgValue(Named(ToSet(Command.args), a), Words0)]
                B == [m \in RootNames |-> full[m].value]
    <3>1. Built.kwargs = Over(A, B) /\ DOMAIN A = NamesOf(Command.args) /\ DOMAIN B = RootNames
          /\ B[n] = full[n].value
        BY <1>3, <1>6
    <3>. HIDE DEF A, B
    <3>. QED BY <1>6, <3>1 DEF Over
  <2>. QED BY <1>1, <1>7, <2>1 DEF Over
<1>. QED BY <1>5, <1>8, <1>9

\* What a handler should see of a declaration of the root.
Expected(d) ==
    LET got == [via |-> outcome.via[d.name], value |-> outcome.kwargs[d.name]]
    IN  IF \E c \in ToSet(Command.constraints) : ImpliedBy(c, d)
        THEN \E c \in ToSet(Command.constraints) : /\ ImpliedBy(c, d)
                /\ got = [via |-> "implied", value |-> <<c.value>>]
        ELSE got = Highest(d) \/ (Highest(d).via = "default" /\ Overlooked(d))

\* Each of the four kinds of declaration reaches the handler as it was said: a
\* flag of the command, a global, a selector of the root, and what is scoped.
LEMMA FlagsAsSaid ==
    ASSUME Sourcing, NEW f \in Flags(Command), Shown(f)
    PROVE  Expected(f)
<1>. DEFINE n == f.name
            high == Highest(f)
            got == [via |-> outcome.via[n], value |-> outcome.kwargs[n]]
            implied == \E c \in ToSet(Command.constraints) : ImpliedBy(c, f)
<1>1. Handing /\ Registered(app) /\ InCommand /\ Shaped /\ IsRead(typed)
    BY DEF Sourcing, Opening, Handing
<1>2. n \notin NamesOf(app.globals) /\ n \in Names(Flags(Command)) /\ f \in RootFlags
    BY <1>1, RootFlagsAreDistinct DEF Names, RootFlags
<1>3. n \notin NamesOf(Command.args)
  <2>1. ~IsSelector(f)
      BY DEF Flags, AtRoot, IsFlag, IsSelector
  <2>2. f \notin ToSet(app.globals)
      BY <1>1, <1>2, RootFlagsAreDistinct
  <2>. QED BY <2>1, <2>2 DEF Shown
<1>4. n \in RootNames
    BY <1>1, <1>2, RootDeclarations
<1>5. n \in DOMAIN Settled => got = [via |-> Settled[n].via, value |-> Settled[n].value]
    BY <1>1, <1>3, <1>4, HandedValues
<1>6. n \notin DOMAIN Settled => got = [via |-> "default", value |-> f.dflt]
    BY <1>1, <1>3, DefaultsAreHanded
<1>7. high = [via |-> SaidOf(f).via, value |-> SaidOf(f).value] /\ high.via = SaidOf(f).via
    BY <1>1, <1>2, RootHighest
<1>8. /\ n \in DOMAIN Gathered => Gathered[n] = SaidOf(f) /\ SaidOf(f).via # "default"
      /\ n \notin DOMAIN Gathered => SaidOf(f) = Sourced(f.dflt, "default")
    BY GatheredIsSaid
<1>9. n \in DOMAIN Gathered => n \in DOMAIN Settled /\ Settled[n] = Gathered[n]
    BY <1>1, SettledFlags DEF Extends
<1>10. (\E c \in Fired : c \in ToSet(Command.constraints) /\ Target(c) = n) /\ high.via = "default"
            => implied
    BY DEF ImpliedBy, Target
<1>11. ASSUME NEW c \in ToSet(Command.constraints), ImpliedBy(c, f)
       PROVE  got = [via |-> "implied", value |-> <<c.value>>]
  <2>1. c \in Fired /\ Target(c) = n /\ high.via = "default"
      BY <1>11 DEF ImpliedBy, Target
  <2>2. n \notin DOMAIN Gathered
      BY <1>7, <1>8, <2>1
  <2>3. n \in DOMAIN Settled /\ Settled[n].value = <<c.value>>
      BY <1>1, <2>1, FiredHold DEF Holds, Has
  <2>4. Settled[n].via = "implied"
      BY <1>1, <2>2, <2>3, SettledFlags
  <2>. HIDE DEF got
  <2>. QED BY <1>5, <2>3, <2>4
<1>12. ASSUME ~implied
       PROVE  got = high
  <2>1. CASE n \in DOMAIN Gathered
    <3>. HIDE DEF got, high
    <3>. QED BY <1>5, <1>7, <1>8, <1>9, <2>1
  <2>2. CASE n \notin DOMAIN Gathered
    <3>1. SaidOf(f).via = "default" /\ SaidOf(f).value = f.dflt
        BY <1>8, <2>2 DEF Sourced
    <3>2. n \notin DOMAIN Settled
      <4>1. ASSUME n \in DOMAIN Settled
            PROVE  FALSE
        <5>1. \E c \in Fired : c \in ToSet(Command.constraints) /\ Target(c) = n
            BY <1>1, <2>2, <4>1, SetByFired
        <5>. QED BY <1>7, <1>10, <1>12, <3>1, <5>1
      <4>. QED BY <4>1
    <3>. HIDE DEF got, high
    <3>. QED BY <1>6, <1>7, <3>1, <3>2
  <2>. QED BY <2>1, <2>2
<1>. HIDE DEF got, high
<1>. QED BY <1>11, <1>12 DEF Expected, got, high

\* Nothing implies a value of a global or of a selector.
LEMMA OnlyFlagsAreImplied ==
    ASSUME Handing, NEW d, d.name \notin Names(Flags(Command))
    PROVE  ~\E c \in ToSet(Command.constraints) : ImpliedBy(c, d)
<1>1. Registered(app) /\ InCommand
    BY DEF Handing
<1>2. ASSUME NEW c \in ToSet(Command.constraints), ImpliedBy(c, d)
      PROVE  FALSE
  <2>1. c \in Fired /\ Target(c) = d.name
      BY <1>2 DEF ImpliedBy, Target
  <2>2. c.kind = "implies" /\ ~CoOccurrence(c)
      BY <2>1 DEF Fired, CoOccurrence
  <2>3. Target(c) \in RootNames /\ \A s \in RootDecls(Command) : s.name = Target(c) => IsFlag(s)
      BY <1>1, <2>2, PairsAreOfTheRoot
  <2>4. PICK s \in RootDecls(Command) : s.name = Target(c)
      BY <2>3 DEF RootNames, Names
  <2>5. s \in Flags(Command)
      BY <1>1, <2>3, <2>4, RootDeclarations
  <2>. QED BY <2>1, <2>4, <2>5 DEF Names
<1>. QED BY <1>2

LEMMA GlobalsAsSaid ==
    ASSUME Sourcing, NEW g \in ToSet(app.globals), Shown(g)
    PROVE  Expected(g)
<1>. DEFINE n == g.name
            got == [via |-> outcome.via[n], value |-> outcome.kwargs[n]]
<1>1. Handing /\ Registered(app) /\ InCommand /\ Shaped /\ IsRead(typed) /\ GlobalsKnown
    BY DEF Sourcing, Opening, Handing
<1>2. g \in RootFlags /\ n \in NamesOf(app.globals) /\ n \notin Names(Flags(Command))
    BY <1>1, RootFlagsAreDistinct DEF Names, RootFlags
<1>3. n \notin SelectorNames
  <2>1. ~IsSelector(g)
      BY <1>1, <1>2, RootHighest DEF IsSelector
  <2>. QED BY <2>1 DEF Shown, RootSelectors, SelectorNames
<1>4. DOMAIN Chosen = SelectorNames
    BY <1>1, GatheredFlags
<1>5. n \in DOMAIN globals
    BY <1>1 DEF GlobalsKnown
<1>6. n \in DOMAIN AllGlobals /\ AllGlobals[n] = IF n \in DOMAIN store THEN store[n] ELSE globals[n]
  <2>1. n \in DOMAIN Later <=> n \in DOMAIN store
      BY <1>2, <1>3, <1>4 DEF Later, Over
  <2>2. n \in DOMAIN store => Later[n] = store[n]
      BY <1>2, <1>3, <1>4, <2>1 DEF Later, Over
  <2>. QED BY <1>5, <2>1, <2>2 DEF AllGlobals, Over
<1>7. AllGlobals[n] = SaidOf(g)
  <2>1. CASE n \in DOMAIN store
      BY <1>2, <1>6, <2>1, StoreSays
  <2>2. CASE n \notin DOMAIN store
    <3>1. globals[n] = IF GlobalSaid(g) # {} THEN GlobalValue(g) ELSE LayerOf(g)
        BY <1>1 DEF GlobalsKnown
    <3>. QED BY <1>2, <1>6, <2>2, <3>1, StoreSays
  <2>. QED BY <2>1, <2>2
<1>8. outcome.kwargs[n] = AllGlobals[n].value
    BY <1>1, <1>6 DEF Handing, HandedOver, Over
<1>9. outcome.via[n] = AllGlobals[n].via
  <2>1. outcome.via = Over(Built.via, [k \in DOMAIN AllGlobals |-> AllGlobals[k].via]) /\ Built.ok
      BY <1>1 DEF Handing, HandedOver
  <2>2. DOMAIN Built.via = Names(Flags(Command)) \cup DOMAIN Chosen
      BY <2>1, BuiltHere
  <2>3. n \notin DOMAIN Built.via
      BY <1>2, <1>3, <1>4, <2>2
  <2>. QED BY <1>6, <2>1, <2>3 DEF Over
<1>10. Highest(g) = [via |-> SaidOf(g).via, value |-> SaidOf(g).value]
    BY <1>1, <1>2, RootHighest
<1>11. got = Highest(g)
    BY <1>7, <1>8, <1>9, <1>10
<1>12. ~\E c \in ToSet(Command.constraints) : ImpliedBy(c, g)
    BY <1>1, <1>2, OnlyFlagsAreImplied
<1>. QED BY <1>11, <1>12 DEF Expected

\* Every declaration of the command agrees once the tree is resolved.
LEMMA AllAgree ==
    ASSUME Sourcing, NEW j \in 1..Len(Command.decls), Live(Command.decls[j])
    PROVE  AgreesOn(Command.decls[j])
<1>1. Agreed /\ problems = {} /\ scopes.next = Len(Command.decls) + 1
    BY DEF Sourcing, Opening, ScopesDone
<1>2. Len(Command.decls) \in Nat
    BY TreeOfTheCommand DEF Sourcing, Opening, Handing
<1>3. j \in 1..(scopes.next - 1)
    BY <1>1, <1>2
<1>. QED BY <1>1, <1>3 DEF Agreed

\* What is known of a declaration's highest layer.
LEMMA HighestPair ==
    ASSUME NEW d
    PROVE  Highest(d) = [via |-> Highest(d).via, value |-> Highest(d).value]
<1>. DEFINE members == {c \in AltNames(d) : Positive(c) # {}}
<1>1. PICK h : h = Highest(d)
    OBVIOUS
<1>2. \E a, b : h = [via |-> a, value |-> b]
    BY <1>1, HighestIs
<1>3. h = [via |-> h.via, value |-> h.value]
    BY <1>2
<1>. QED BY <1>1, <1>3

LEMMA SelectorsAsSaid ==
    ASSUME Sourcing, NEW s \in RootDecls(Command), IsSelector(s), Shown(s)
    PROVE  Expected(s)
<1>. DEFINE n == s.name
            key == <<<<>>, n>>
            got == [via |-> outcome.via[n], value |-> outcome.kwargs[n]]
<1>1. Handing /\ Opening /\ Registered(app) /\ InCommand
    BY DEF Sourcing, Opening, Handing
<1>2. PICK j \in DOMAIN Command.decls : s = Command.decls[j]
    BY DEF RootDecls, ToSet
<1>3. j \in 1..Len(Command.decls)
  <2>1. DOMAIN Command.decls = 1..Len(Command.decls)
      BY <1>1, TreeOfTheCommand
  <2>. QED BY <2>1
<1>4. s.path = <<>> /\ Key(s) = key
    BY DEF RootDecls, Key
<1>5. Live(s)
    BY <1>4 DEF Live, LiveIn
<1>6. Highest(s).via = scopes.elected[key].via /\ Highest(s).value = <<scopes.elected[key].choice>>
  <2>1. AgreesOn(s)
      BY <1>2, <1>3, <1>5, AllAgree
  <2>. QED BY <1>4, <2>1 DEF AgreesOn, AgreesWith
<1>7. n \in SelectorNames /\ n \in RootNames
    BY DEF SelectorNames, RootNames, Names
<1>8. Chosen[n].via = Highest(s).via /\ Chosen[n].value = Highest(s).value
  <2>1. Chosen[n] = Sourced(<<scopes.elected[key].choice>>, scopes.elected[key].via)
      BY <1>7 DEF Chosen, SelectorStore, SelectorNames
  <2>. QED BY <1>6, <2>1 DEF Sourced
<1>9. n \in DOMAIN Settled /\ Settled[n] = Chosen[n] /\ n \notin Names(Flags(Command))
    BY <1>1, <1>7, GatheredFlags, SettledFlags DEF Extends
<1>10. n \notin NamesOf(Command.args) \/ (n \in SelectorNames /\ n \in NamesOf(app.globals))
    BY <1>7 DEF Shown
<1>11. outcome.via[n] = Highest(s).via /\ outcome.kwargs[n] = Highest(s).value
    BY <1>1, <1>7, <1>8, <1>9, <1>10, HandedValues
<1>12. got = Highest(s)
    BY <1>11, HighestPair
<1>13. ~\E c \in ToSet(Command.constraints) : ImpliedBy(c, s)
    BY <1>1, <1>9, OnlyFlagsAreImplied
<1>. QED BY <1>12, <1>13 DEF Expected

LEMMA ScopedAsSaid ==
    ASSUME Sourcing, NEW d \in ToSet(Command.decls), Key(d) \in DOMAIN outcome.scoped
    PROVE  /\ outcome.scoped[Key(d)] = Highest(d).value
           /\ (Key(d) \in outcome.provided) <=>
                    (Highest(d).via = "cli" \/ (IsFlag(d) /\ Highest(d).via # "default"))
<1>1. Handing /\ Opening /\ Registered(app) /\ InCommand
    BY DEF Sourcing, Opening, Handing
<1>2. PICK j \in DOMAIN Command.decls : d = Command.decls[j]
    BY DEF ToSet
<1>3. j \in 1..Len(Command.decls)
  <2>1. DOMAIN Command.decls = 1..Len(Command.decls)
      BY <1>1, TreeOfTheCommand
  <2>. QED BY <2>1
<1>4. /\ outcome.scoped = Over(scopes.values, ScopedOf(scopes.elected))
      /\ outcome.provided = scopes.provided \cup ProvidedOf(scopes.elected)
      /\ scopes.provided \subseteq DOMAIN scopes.values
    BY <1>1, OpeningFacts DEF Handing, HandedOver
<1>. DEFINE below == {k \in DOMAIN scopes.elected : k[1] # <<>>}
<1>5. /\ DOMAIN ScopedOf(scopes.elected) = below
      /\ \A k \in ProvidedOf(scopes.elected) : k \in below
      /\ \A k \in below : k \in ProvidedOf(scopes.elected) <=> scopes.elected[k].via = "cli"
    BY DEF ScopedOf, ProvidedOf
<1>6. DOMAIN outcome.scoped = DOMAIN scopes.values \cup below
    BY <1>4, <1>5 DEF Over
<1>7. Key(d)[1] = d.path
    BY DEF Key
<1>8. d.path # <<>>
  <2>1. ASSUME d.path = <<>>
        PROVE  FALSE
    <3>1. Key(d) \in DOMAIN scopes.values
        BY <1>6, <1>7, <2>1
    <3>2. PICK i \in 1..Len(Command.decls) :
            \/ ScopedFlag(Command.decls[i]) /\ Key(d) = Key(Command.decls[i])
            \/ IsSelector(Command.decls[i]) /\ \E c : Key(d) = PayloadKey(Command.decls[i], c)
      <4>1. Resolved(Len(Command.decls) + 1, scopes.elected, scopes.values, scopes.provided, TRUE)
          BY <1>1, OpeningFacts
      <4>2. Len(Command.decls) \in Nat
          BY <1>1, TreeOfTheCommand
      <4>3. PICK last, values : last = Len(Command.decls) + 1 /\ values = scopes.values
          OBVIOUS
      <4>4. 1..(last - 1) = 1..Len(Command.decls)
          BY <4>2, <4>3
      <4>5. \E i \in 1..(last - 1) :
              \/ ScopedFlag(Command.decls[i]) /\ Key(d) = Key(Command.decls[i])
              \/ IsSelector(Command.decls[i]) /\ \E c : Key(d) = PayloadKey(Command.decls[i], c)
        <5>1. Resolved(last, scopes.elected, values, scopes.provided, TRUE)
            BY <4>1, <4>3
        <5>2. Key(d) \in DOMAIN values
            BY <3>1, <4>3
        <5>. QED BY <5>1, <5>2 DEF Resolved
      <4>. QED BY <4>4, <4>5
    <3>3. CASE ScopedFlag(Command.decls[i]) /\ Key(d) = Key(Command.decls[i])
        BY <2>1, <3>3 DEF ScopedFlag, Key
    <3>4. CASE IsSelector(Command.decls[i]) /\ \E c : Key(d) = PayloadKey(Command.decls[i], c)
        BY <1>1, <1>2, <1>3, <3>4, PayloadsAreApart
    <3>. QED BY <3>2, <3>3, <3>4
  <2>. QED BY <2>1
<1>9. Live(d)
    BY <1>1, <1>2, <1>3, <1>8, ScopedSeen
<1>10. AgreesOn(d)
    BY <1>2, <1>3, <1>9, AllAgree
<1>11. ScopedFlag(d) \/ IsSelector(d)
  <2>1. d.kind \in {"flag", "token", "member"}
      BY <1>1, <1>2, <1>3, TreeOfTheCommand
  <2>. QED BY <1>8, <2>1 DEF ScopedFlag, IsSelector, IsFlag
<1>12. /\ IsSelector(d) => Key(d) \in DOMAIN scopes.elected /\ Key(d) \notin DOMAIN scopes.values
       /\ ScopedFlag(d) => Key(d) \in DOMAIN scopes.values
       /\ ~IsSelector(d) => Key(d) \notin DOMAIN scopes.elected
    BY <1>1, <1>2, <1>3, <1>9, OpeningFacts, LiveOnesAreResolved DEF Live
<1>13. CASE IsSelector(d)
  <2>1. ~IsFlag(d)
      BY <1>13 DEF IsSelector, IsFlag
  <2>2. outcome.scoped[Key(d)] = <<scopes.elected[Key(d)].choice>>
      BY <1>1, <1>2, <1>3, <1>8, <1>9, <1>13, ScopedSeen
  <2>3. Key(d) \in outcome.provided <=> scopes.elected[Key(d)].via = "cli"
      BY <1>4, <1>5, <1>7, <1>8, <1>12, <1>13
  <2>. QED BY <1>10, <1>13, <2>1, <2>2, <2>3 DEF AgreesOn, AgreesWith
<1>14. CASE ScopedFlag(d)
  <2>1. IsFlag(d) /\ ~IsSelector(d)
      BY <1>14 DEF ScopedFlag, IsSelector, IsFlag
  <2>2. Key(d) \notin below /\ Key(d) \in DOMAIN scopes.values
      BY <1>12, <1>14, <2>1
  <2>3. outcome.scoped[Key(d)] = scopes.values[Key(d)]
      BY <1>4, <1>5, <2>2 DEF Over
  <2>4. Key(d) \in outcome.provided <=> Key(d) \in scopes.provided
      BY <1>4, <1>5, <2>2
  <2>. QED BY <1>10, <1>14, <2>1, <2>3, <2>4 DEF AgreesOn, AgreesWith
<1>. QED BY <1>11, <1>13, <1>14

LEMMA HighestFollows ==
    ASSUME Sourcing
    PROVE  HighestSourceWins
<1>1. Registered(app) /\ InCommand
    BY DEF Sourcing, Opening, Handing
<1>2. ASSUME NEW d \in RootFlags \cup RootDecls(Command), Shown(d)
      PROVE  Expected(d)
  <2>1. CASE d \in Flags(Command)
      BY <1>2, <2>1, FlagsAsSaid
  <2>2. CASE d \in ToSet(app.globals)
      BY <1>2, <2>2, GlobalsAsSaid
  <2>3. CASE d \in RootDecls(Command) /\ IsSelector(d)
      BY <1>2, <2>3, SelectorsAsSaid
  <2>4. d \in RootDecls(Command) => d \in Flags(Command) \/ IsSelector(d)
      BY <1>1, RootDeclarations
  <2>. QED BY <2>1, <2>2, <2>3, <2>4 DEF RootFlags
<1>3. \A d \in {s \in RootFlags \cup RootDecls(Command) : Shown(s)} : Expected(d)
    BY <1>2
<1>4. \A d \in ToSet(Command.decls) : Key(d) \in DOMAIN outcome.scoped =>
            /\ outcome.scoped[Key(d)] = Highest(d).value
            /\ (Key(d) \in outcome.provided) <=>
                    (Highest(d).via = "cli" \/ (IsFlag(d) /\ Highest(d).via # "default"))
    BY ScopedAsSaid
<1>. QED BY <1>3, <1>4 DEF HighestSourceWins, Expected

-----------------------------------------------------------------------------
(* The theorems.                                                             *)

LEMMA HandInvSteps ==
    ASSUME HandInv, [InvocationNext]_vars
    PROVE  HandInv'
<1>1. CASE ArgvNext /\ UNCHANGED parseVars
    BY <1>1, ArgvSteps
<1>2. CASE \/ TakeWord \/ TakeStop \/ TakeInline \/ TakeNegation \/ TakeUnset \/ TakeFlag
           \/ TakeUnknown
    BY <1>2, TokenSteps
<1>3. CASE TokensEnd
    BY <1>3, TokensEndStep
<1>4. CASE PassOver \/ ElectByToken \/ ElectByMembers \/ ResolveScoped
    BY <1>4, ScopeSteps
<1>5. CASE ScopesEnd
    BY <1>5, ScopesEndStep
<1>6. CASE Deliver
    BY <1>6, DeliverStep
<1>7. CASE UNCHANGED vars
  <2>1. /\ UNCHANGED <<input, rest, kept, pre, globals, typed, stdin, path, parseVars>>
        /\ UNCHANGED <<phase, outcome>>
      BY <1>7 DEF vars, argvVars, input
  <2>2. /\ Read' = Read /\ Built' = Built /\ AllGlobals' = AllGlobals /\ Skipped' = Skipped
        /\ TooMany(Command, positionals)' = TooMany(Command, positionals)
        /\ StoreOK' = StoreOK /\ InCommand' = InCommand
      BY <2>1, HandedOnly
  <2>3. InputsOK' = InputsOK /\ WordsRead' = WordsRead /\ Parsing' = Parsing
        /\ Stored' = Stored /\ Ran' = Ran
      BY <2>1 DEF InputsOK, WordsRead, Parsing, Stored, Ran, input, parseVars, SaidAll
  <2>4. HandedOver' = HandedOver
      BY <2>1, <2>2 DEF HandedOver, parseVars
  <2>. QED BY <2>1, <2>2, <2>3, <2>4 DEF HandInv, input
<1>. QED BY <1>1, <1>2, <1>3, <1>4, <1>5, <1>6, <1>7 DEF InvocationNext, CommandNext

\* In every state of a parse the words read are words of the command line, a
\* command is known from its tokens on, its store holds what its own tokens
\* said, and what a handler was given is what the last step put together from
\* that store and the layers below it.
THEOREM HandInvariant == InvocationSpec => []HandInv
<1>1. InvocationInit => HandInv
  <2>. SUFFICES ASSUME InvocationInit PROVE HandInv
      OBVIOUS
  <2>1. InputsOK /\ phase = "start" /\ globals = EmptyStore
      BY DEF InvocationInit, ArgvInit
  <2>2. WordsRead
    <3>1. argv \in Seq(ToSet(argv)) /\ <<>> \in Seq(ToSet(argv)) /\ <<>> \in Seq(Said)
        BY <2>1 DEF InputsOK
    <3>2. <<>> \in Seq(ToSet(<<>>)) /\ SaidAll(<<>>)
        BY DEF SaidAll
    <3>. QED BY <3>1, <3>2 DEF InvocationInit, ArgvInit, WordsRead
  <2>3. ~Parsing /\ ~Stored /\ ~Ran
      BY <2>1 DEF Parsing, Stored, Ran
  <2>4. DOMAIN globals = {}
      BY <2>1 DEF EmptyStore
  <2>. QED BY <2>1, <2>2, <2>3, <2>4 DEF HandInv
<1>2. HandInv /\ [InvocationNext]_vars => HandInv'
    BY HandInvSteps
<1>. QED BY <1>1, <1>2, PTL DEF InvocationSpec

\* In every state the declarations already walked are resolved as their scopes
\* say, a live selector has a choice, a live flag a value and a closed one
\* neither; and when the walk is over no scoped name was typed that no live
\* scope has (resolveScope in scopeparse.ts).
THEOREM ScopeInvariant == InvocationSpec => []ScopeInv
<1>1. InvocationInit /\ HandInv => ScopeInv
  <2>. SUFFICES ASSUME InvocationInit, HandInv PROVE ScopeInv
      OBVIOUS
  <2>1. phase = "start" /\ scopes = NoScopes
      BY DEF InvocationInit, ArgvInit
  <2>. QED BY <2>1 DEF ScopeInv, Stored, Complete, Ran
<1>2. ScopeInv /\ [InvocationNext]_vars => ScopeInv'
    BY HandInvSteps, ScopeInvSteps DEF ScopeInv
<1>. QED BY <1>1, <1>2, HandInvariant, PTL DEF InvocationSpec

\* A handler sees the contents of the scopes its choices open and of no other,
\* of every command an app accepts: what a closed scope holds has no value, was
\* not typed, and is reported when a layer binds it (scopeparse.ts and the end
\* of parse.ts).
THEOREM OnlyLiveScopesAreSeen == InvocationSpec => []OnlyLiveScopes
<1>1. ScopeInv => OnlyLiveScopes
  <2>. SUFFICES ASSUME ScopeInv PROVE OnlyLiveScopes
      OBVIOUS
  <2>1. CASE Ran
    <3>1. Opening
        BY <2>1, InputFacts
        DEF ScopeInv, HandInv, Handing, Opening, Parsing, Stored, Complete, WordsRead
    <3>. QED BY <3>1, OnlyLiveFollows
  <2>2. CASE ~Ran
      BY <2>2 DEF OnlyLiveScopes
  <2>. QED BY <2>1, <2>2
<1>. QED BY <1>1, ScopeInvariant, PTL

\* The constraints and the update set hold of what a handler is given, of
\* every command an app accepts and whatever its user, its environment and its
\* configuration say (constraints.ts, update.ts, the end of parse.ts).
THEOREM ContractIsKept == InvocationSpec => []ContractHolds
<1>1. HandInv => ContractHolds
  <2>. SUFFICES ASSUME HandInv PROVE ContractHolds
      OBVIOUS
  <2>1. CASE Ran
    <3>1. Handing
        BY <2>1, InputFacts DEF HandInv, Handing, Parsing, Stored, WordsRead
    <3>. QED BY <3>1, ContractFollows
  <2>2. CASE ~Ran
      BY <2>2 DEF ContractHolds
  <2>. QED BY <2>1, <2>2
<1>. QED BY <1>1, HandInvariant, PTL

\* At every step of an invocation, of every app registration accepts: before the
\* command word nothing is typed but globals, and what is known of each is what
\* was said of it so far or the layer below says; after it the store has what
\* the command's own tokens said of each flag, with the words of a list global
\* from either side in order; and each declaration the walk of the tree has
\* resolved in a live scope has what the highest layer that binds it says
\* (parseArgvGlobals and parseCommand in parse.ts, resolveScope in
\* scopeparse.ts).
THEOREM SourceInvariant == InvocationSpec => []SourceInv
<1>1. InvocationInit /\ ScopeInv => SourceInv
    BY SourceInvStarts
<1>2. SourceInv /\ [InvocationNext]_vars /\ ScopeInv' => SourceInv'
    BY SourceInvSteps
<1>. QED BY <1>1, <1>2, ScopeInvariant, PTL DEF InvocationSpec

\* A handler receives each flag, global, selector and scoped flag from the
\* highest layer that binds it, and is told which layer that was: command line
\* on either side of the command word, environment, configuration file,
\* implication, default; a hermetic run reads only the first and the last two
\* (the end of parse.ts, resolve.ts, scopeparse.ts).
THEOREM TheHighestSourceWins == InvocationSpec => []HighestSourceWins
<1>1. SourceInv => HighestSourceWins
  <2>. SUFFICES ASSUME SourceInv PROVE HighestSourceWins
      OBVIOUS
  <2>1. CASE Ran
    <3>1. Opening
        BY <2>1, InputFacts
        DEF SourceInv, ScopeInv, HandInv, Handing, Opening, Parsing, Stored, Complete, WordsRead
    <3>2. IsRead(typed) /\ SaidAll(typed)
        BY DEF SourceInv, ScopeInv, HandInv, WordsRead, IsRead
    <3>3. Shaped /\ GlobalsKnown /\ StoreRead /\ Agreed
        BY <2>1 DEF SourceInv, Parsing, Stored
    <3>4. Sourcing
        BY <3>1, <3>2, <3>3 DEF Sourcing
    <3>. QED BY <3>4, HighestFollows
  <2>2. CASE ~Ran
      BY <2>2 DEF HighestSourceWins
  <2>. QED BY <2>1, <2>2
<1>. QED BY <1>1, SourceInvariant, PTL
=============================================================================
