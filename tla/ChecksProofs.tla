---------------------------- MODULE ChecksProofs ----------------------------
(* What holds of the runs of checks whatever the registry declares, whatever *)
(* is asked for, and however many runs and processes there are: the order a  *)
(* run goes by, what it has decided, and what the manifest may say.          *)
EXTENDS Checks, FiniteSetTheorems, TLAPS

-----------------------------------------------------------------------------
(* Arithmetic and iteration.                                                 *)

LEMMA LeastNumber ==
    ASSUME NEW S, S \subseteq Nat, S # {}
    PROVE  \E m \in S : \A k \in S : m <= k
<1>1. PICK m \in S : \A k \in S : ~ (<<k, m>> \in OpToRel(<, Nat))
    BY WFMin, NatLessThanWellFounded
<1>2. \A k \in S : ~ (k < m)
    BY <1>1 DEF OpToRel
<1>. QED BY <1>2

-----------------------------------------------------------------------------
(* Sorted: each check once, by the number of those before it.                *)

Once(s) == \A i, j \in DOMAIN s : s[i] = s[j] => i = j

LEMMA SortedHoldsEachOnce ==
    ASSUME NEW S, IsFiniteSet(S), S \subseteq Nat
    PROVE  Sorted(S) \in Seq(S) /\ Once(Sorted(S))
<1>. DEFINE n == Cardinality(S)
            below(c) == {e \in S : e < c}
            rank == [c \in S |-> Cardinality(below(c)) + 1]
<1>1. n \in Nat
    BY FS_CardinalityType
<1>2. \A c \in S : IsFiniteSet(below(c)) /\ Cardinality(below(c)) \in Nat
                   /\ Cardinality(below(c)) < n
  <2>1. ASSUME NEW c \in S
        PROVE  IsFiniteSet(below(c)) /\ Cardinality(below(c)) <= n
               /\ (Cardinality(below(c)) = n => below(c) = S)
      BY FS_Subset
  <2>2. \A c \in S : c \notin below(c)
      OBVIOUS
  <2>. QED BY <1>1, <2>1, <2>2, FS_CardinalityType
<1>3. ASSUME NEW c \in S, NEW d \in S, c < d
      PROVE  Cardinality(below(c)) < Cardinality(below(d))
  <2>. c \in Nat /\ d \in Nat
      OBVIOUS
  <2>3. \A e \in S : e \in Nat /\ (e < c => e < d)
      BY <1>3
  <2>4. c < d /\ ~ (c < c)
      BY <1>3
  <2>1. below(c) \in SUBSET below(d) /\ c \in below(d) /\ c \notin below(c)
      BY <2>3, <2>4
  <2>2. Cardinality(below(c)) <= Cardinality(below(d))
        /\ (Cardinality(below(c)) = Cardinality(below(d)) => below(c) = below(d))
      BY <2>1, <1>2, FS_Subset
  <2>. QED BY <2>1, <2>2, <1>2
<1>4. rank \in Injection(S, 1..n)
  <2>1. rank \in [S -> 1..n]
      BY <1>1, <1>2
  <2>2. ASSUME NEW c \in S, NEW d \in S, c # d
        PROVE  rank[c] # rank[d]
      BY <2>2, <1>2, <1>3
  <2>. QED BY <2>1, <2>2 DEF Injection, IsInjective
<1>5. IsFiniteSet(1..n) /\ Cardinality(1..n) = n
    BY <1>1, FS_Interval
<1>6. rank \in Surjection(S, 1..n)
    BY <1>4, <1>5, FS_Injection
<1>7. \A i \in 1..n : \E c \in S : Cardinality(below(c)) = i - 1
  <2>1. ASSUME NEW i \in 1..n
        PROVE  \E c \in S : Cardinality(below(c)) = i - 1
    <3>1. PICK c \in S : rank[c] = i
        BY <1>6 DEF Surjection
    <3>2. Cardinality(below(c)) + 1 = i /\ Cardinality(below(c)) \in Nat /\ i \in Nat
        BY <3>1, <1>2
    <3>3. \A m \in Nat, k \in Nat : m + 1 = k => m = k - 1
        OBVIOUS
    <3>4. Cardinality(below(c)) = i - 1
        BY <3>2, <3>3
    <3>. HIDE DEF below
    <3>. QED BY <3>4
  <2>. QED BY <2>1
<1>8. \A i \in 1..n : Sorted(S)[i] \in S /\ Cardinality(below(Sorted(S)[i])) = i - 1
    BY <1>7 DEF Sorted
<1>9. Sorted(S) \in [1..n -> S]
    BY <1>8 DEF Sorted
<1>10. ASSUME NEW i \in 1..n, NEW j \in 1..n, Sorted(S)[i] = Sorted(S)[j]
       PROVE  i = j
  <2>1. i - 1 = j - 1
      BY <1>8, <1>10
  <2>. QED BY <2>1
<1>11. Sorted(S) \in Seq(S) /\ DOMAIN Sorted(S) = 1..n
    BY <1>1, <1>9
<1>. QED BY <1>10, <1>11 DEF Once

-----------------------------------------------------------------------------
(* Needed: closed under the dependencies.                                    *)

Closed(defs, S) == \A c \in S : Deps(defs, c) \subseteq S

\* A registry: definitions, for checks of the app.
DefsOK(defs) ==
    DOMAIN defs \subseteq app.names /\ \A c \in DOMAIN defs : defs[c] \in Definitions(app.names)

LEMMA DefinitionFacts ==
    ASSUME NEW names, NEW def \in Definitions(names)
    PROVE  /\ ToSet(def.deps) \subseteq names
           /\ def.outcomes \subseteq {"pass", "fail", "warn", "skip", Throws}
<1>1. def.deps \in Seq(names)
      /\ def.outcomes \subseteq {"pass", "fail", "warn", "skip", "throws"}
    BY DEF Definitions
<1>2. ASSUME NEW s \in Seq(names)
      PROVE  ToSet(s) \subseteq names
    BY DEF ToSet
<1>. QED BY <1>1, <1>2 DEF Throws

LEMMA AppIsWellFormed ==
    ASSUME app \in Apps
    PROVE  /\ app.names \subseteq Nat /\ IsFiniteSet(app.names)
           /\ DefsOK(app.declared)
           /\ \A cwd \in Cwds :
                /\ app.provided[cwd] \in Seq(app.names \cup {Broken})
                /\ \A c \in ProvidedIn(cwd) : app.specs[cwd][c] \in Definitions(app.names)
    BY AppsAssumption DEF DefsOK, Cwds, Broken, ProvidedIn

LEMMA NeededIsClosed ==
    ASSUME app \in Apps, NEW defs, DefsOK(defs), NEW selected, selected \subseteq DOMAIN defs
    PROVE  /\ selected \subseteq Needed(defs, selected)
           /\ Needed(defs, selected) \subseteq Nat
           /\ IsFiniteSet(Needed(defs, selected))
           /\ Needed(defs, selected) \subseteq DOMAIN defs => Closed(defs, Needed(defs, selected))
<1>1. Needed(defs, selected) \subseteq app.names
    BY DEF Needed
<1>2. app.names \subseteq Nat /\ IsFiniteSet(app.names)
    BY AppIsWellFormed
<1>3. IsFiniteSet(Needed(defs, selected))
    BY <1>1, <1>2, FS_Subset
<1>4. \A c \in DOMAIN defs : Deps(defs, c) \subseteq app.names
    BY DefinitionFacts DEF DefsOK, Deps
<1>5. Needed(defs, selected) \subseteq DOMAIN defs => Closed(defs, Needed(defs, selected))
    BY <1>4 DEF Needed, Closed
<1>6. selected \subseteq Needed(defs, selected)
    BY DEF Needed, DefsOK
<1>. QED BY <1>1, <1>2, <1>3, <1>5, <1>6

-----------------------------------------------------------------------------
(* Order: Kahn's algorithm, place by place.  Each check is queued or placed  *)
(* at most once, and only after all it depends on has been placed.           *)

Unshared(s, t) == \A i \in DOMAIN s, j \in DOMAIN t : s[i] # t[j]
BehindItsDeps(defs, checks, order, i) ==
    \A d \in Deps(defs, order[i]) \cap checks : \E j \in 1..(i - 1) : order[j] = d
PlaceOK(defs, checks, queue, order) ==
    /\ queue \in Seq(checks) /\ order \in Seq(checks)
    /\ Once(queue) /\ Once(order) /\ Unshared(queue, order)
    /\ \A i \in DOMAIN queue : queue[i] \in Ready(defs, checks, ToSet(order))
    /\ \A i \in DOMAIN order : BehindItsDeps(defs, checks, order, i)

LEMMA SeqFacts ==
    ASSUME NEW S, NEW s \in Seq(S)
    PROVE  /\ Len(s) \in Nat /\ DOMAIN s = 1..Len(s)
           /\ \A i \in 1..Len(s) : s[i] \in S
           /\ ToSet(s) \subseteq S
           /\ \A x : x \in ToSet(s) <=> \E i \in 1..Len(s) : s[i] = x
    BY DEF ToSet

LEMMA SeqWidens ==
    ASSUME NEW S, NEW T, S \subseteq T, NEW s \in Seq(S)
    PROVE  s \in Seq(T)
<1>1. Len(s) \in Nat /\ s \in [1..Len(s) -> S]
    OBVIOUS
<1>2. s \in [1..Len(s) -> T]
    BY <1>1
<1>. QED BY <1>1, <1>2

LEMMA ConcatFacts ==
    ASSUME NEW S, NEW s \in Seq(S), NEW t \in Seq(S)
    PROVE  /\ s \o t \in Seq(S) /\ Len(s \o t) = Len(s) + Len(t)
           /\ \A i \in 1..Len(s) : (s \o t)[i] = s[i]
           /\ \A i \in 1..Len(t) : (s \o t)[Len(s) + i] = t[i]
<1>1. s \o t \in Seq(S) /\ Len(s \o t) = Len(s) + Len(t)
    OBVIOUS
<1>2. \A i \in 1..Len(s) : (s \o t)[i] = s[i]
    OBVIOUS
<1>3. ASSUME NEW i \in 1..Len(t)
      PROVE  (s \o t)[Len(s) + i] = t[i]
  <2>1. Len(s) \in Nat /\ Len(t) \in Nat
      OBVIOUS
  <2>2. Len(s) + i \in 1..(Len(s) + Len(t)) /\ ~ (Len(s) + i <= Len(s)) /\ (Len(s) + i) - Len(s) = i
      BY <2>1
  <2>. QED BY <2>2
<1>. QED BY <1>1, <1>2, <1>3

LEMMA PlacesAreOK ==
    ASSUME NEW defs, NEW checks, IsFiniteSet(checks), checks \subseteq Nat,
           NEW queue, NEW order, PlaceOK(defs, checks, queue, order), queue # <<>>,
           NEW longer, longer = Append(order, Head(queue)),
           NEW fresh, fresh = Ready(defs, checks, ToSet(longer)) \ (ToSet(longer) \cup ToSet(queue)),
           NEW after, after = Tail(queue) \o Sorted(fresh)
    PROVE  PlaceOK(defs, checks, after, longer)
<1>. DEFINE m == Len(queue)
            n == Len(order)
            sorted == Sorted(fresh)
            k == Len(sorted)
<1>1. queue \in Seq(checks) /\ order \in Seq(checks) /\ m \in Nat /\ m # 0 /\ n \in Nat
      /\ DOMAIN queue = 1..m /\ DOMAIN order = 1..n
    BY SeqFacts DEF PlaceOK
<1>2. fresh \subseteq checks /\ IsFiniteSet(fresh) /\ fresh \subseteq Nat
  <2>1. fresh \subseteq checks
      BY DEF Ready
  <2>. QED BY <2>1, FS_Subset
<1>3. sorted \in Seq(fresh) /\ Once(sorted) /\ k \in Nat /\ DOMAIN sorted = 1..k
      /\ \A i \in 1..k : sorted[i] \in fresh
  <2>1. sorted \in Seq(fresh) /\ Once(sorted)
      BY <1>2, SortedHoldsEachOnce
  <2>. HIDE DEF sorted
  <2>. QED BY <2>1
<1>4. sorted \in Seq(checks)
    BY <1>2, <1>3
<1>. HIDE DEF sorted
<1>5. /\ longer \in Seq(checks) /\ Len(longer) = n + 1 /\ DOMAIN longer = 1..(n + 1)
      /\ \A i \in 1..n : longer[i] = order[i]
      /\ longer[n + 1] = queue[1]
    BY <1>1
<1>6. /\ after \in Seq(checks) /\ Len(after) = (m - 1) + k /\ DOMAIN after = 1..((m - 1) + k)
      /\ \A i \in 1..(m - 1) : after[i] = queue[i + 1]
      /\ \A i \in 1..k : after[(m - 1) + i] = sorted[i]
  <2>1. Tail(queue) \in Seq(checks) /\ Len(Tail(queue)) = m - 1
        /\ \A i \in 1..(m - 1) : Tail(queue)[i] = queue[i + 1]
      BY <1>1
  <2>. DEFINE t == Tail(queue)
  <2>2. after = t \o sorted /\ t \in Seq(checks) /\ Len(t) = m - 1
      BY <2>1 DEF sorted
  <2>. HIDE DEF t
  <2>3. /\ after \in Seq(checks) /\ Len(after) = (m - 1) + k
        /\ \A i \in 1..(m - 1) : after[i] = t[i]
        /\ \A i \in 1..k : after[(m - 1) + i] = sorted[i]
    <3>7. m - 1 \in Nat
        BY <1>1
    <3>8. Len(sorted) = k
        OBVIOUS
    <3>1. after = t \o sorted /\ Len(t) = m - 1 /\ m - 1 \in Nat /\ Len(sorted) = k
        BY <2>2, <3>7, <3>8
    <3>2. t \in Seq(checks) /\ sorted \in Seq(checks)
        BY <2>2, <1>4
    <3>3. /\ t \o sorted \in Seq(checks) /\ Len(t \o sorted) = Len(t) + Len(sorted)
          /\ \A i \in 1..Len(t) : (t \o sorted)[i] = t[i]
          /\ \A i \in 1..Len(sorted) : (t \o sorted)[Len(t) + i] = sorted[i]
        BY <3>2, ConcatFacts
    <3>4. after \in Seq(checks) /\ Len(after) = (m - 1) + k
        BY <3>1, <3>3
    <3>5. \A i \in 1..(m - 1) : after[i] = t[i]
        BY <3>1, <3>3
    <3>6. \A i \in 1..k : after[(m - 1) + i] = sorted[i]
        BY <3>1, <3>3
    <3>. QED BY <3>4, <3>5, <3>6
  <2>4. DOMAIN after = 1..((m - 1) + k)
      BY <2>3, SeqFacts
  <2>. QED BY <2>1, <2>3, <2>4 DEF t
<1>7. /\ \A i \in 1..(m - 1) : after[i] = queue[i + 1] /\ i + 1 \in 1..m /\ i + 1 # 1
      /\ \A i \in DOMAIN after \ (1..(m - 1)) : i - (m - 1) \in 1..k /\ after[i] = sorted[i - (m - 1)]
  <2>1. \A i \in 1..(m - 1) : after[i] = queue[i + 1] /\ i + 1 \in 1..m /\ i + 1 # 1
      BY <1>1, <1>6
  <2>2. ASSUME NEW i \in DOMAIN after \ (1..(m - 1))
        PROVE  i - (m - 1) \in 1..k /\ after[i] = sorted[i - (m - 1)]
    <3>1. i \in Nat /\ i - (m - 1) \in 1..k /\ i = (m - 1) + (i - (m - 1))
        BY <1>1, <1>3, <1>6
    <3>. QED BY <3>1, <1>6
  <2>. QED BY <2>1, <2>2
<1>8. /\ \A x : x \in ToSet(order) <=> \E i \in 1..n : order[i] = x
      /\ \A x : x \in ToSet(longer) <=> (x = queue[1] \/ x \in ToSet(order))
      /\ \A x : x \in ToSet(queue) <=> \E i \in 1..m : queue[i] = x
      /\ ToSet(order) \subseteq ToSet(longer)
  <2>1. /\ \A x : x \in ToSet(order) <=> \E i \in 1..n : order[i] = x
        /\ \A x : x \in ToSet(queue) <=> \E i \in 1..m : queue[i] = x
        /\ \A x : x \in ToSet(longer) <=> \E i \in 1..(n + 1) : longer[i] = x
      BY <1>1, <1>5 DEF ToSet
  <2>2. \A x : (\E i \in 1..(n + 1) : longer[i] = x) <=> (x = queue[1] \/ \E i \in 1..n : order[i] = x)
      BY <1>1, <1>5
  <2>. QED BY <2>1, <2>2
<1>9. \A i \in 1..k : \A j \in 1..m : sorted[i] # queue[j]
    BY <1>3, <1>8
<1>10. \A i \in 1..k : sorted[i] \notin ToSet(longer)
    BY <1>3
<1>11. Once(after)
  <2>1. ASSUME NEW i \in DOMAIN after, NEW j \in DOMAIN after, after[i] = after[j]
        PROVE  i = j
    <3>1. CASE i \in 1..(m - 1) /\ j \in 1..(m - 1)
      <4>1. queue[i + 1] = queue[j + 1] /\ i + 1 \in 1..m /\ j + 1 \in 1..m
          BY <2>1, <3>1, <1>7
      <4>2. i + 1 = j + 1
          BY <4>1, <1>1 DEF PlaceOK, Once
      <4>. QED BY <4>2, <3>1
    <3>2. CASE i \notin 1..(m - 1) /\ j \notin 1..(m - 1)
      <4>1. i - (m - 1) = j - (m - 1)
        <5>. DEFINE a == i - (m - 1)
                    b == j - (m - 1)
        <5>1. a \in 1..k /\ b \in 1..k /\ sorted[a] = sorted[b]
            BY <2>1, <3>2, <1>7
        <5>. HIDE DEF a, b
        <5>2. a = b
            BY <5>1, <1>3 DEF Once
        <5>. QED BY <5>2 DEF a, b
      <4>. QED BY <4>1, <1>1, <1>3, <1>6
    <3>3. CASE i \in 1..(m - 1) /\ j \notin 1..(m - 1)
      <4>1. i + 1 \in 1..m /\ j - (m - 1) \in 1..k /\ queue[i + 1] = sorted[j - (m - 1)]
          BY <2>1, <3>3, <1>7
      <4>. QED BY <4>1, <1>9
    <3>4. CASE i \notin 1..(m - 1) /\ j \in 1..(m - 1)
      <4>1. j + 1 \in 1..m /\ i - (m - 1) \in 1..k /\ queue[j + 1] = sorted[i - (m - 1)]
          BY <2>1, <3>4, <1>7
      <4>. QED BY <4>1, <1>9
    <3>. QED BY <3>1, <3>2, <3>3, <3>4
  <2>. QED BY <2>1 DEF Once
<1>12. Once(longer)
  <2>1. ASSUME NEW i \in 1..(n + 1), NEW j \in 1..(n + 1), longer[i] = longer[j]
        PROVE  i = j
    <3>1. CASE i # n + 1 /\ j # n + 1
      <4>1. i \in 1..n /\ j \in 1..n
          BY <3>1, <1>1
      <4>2. order[i] = order[j]
          BY <2>1, <4>1, <1>5
      <4>. QED BY <4>1, <4>2, <1>1 DEF PlaceOK, Once
    <3>2. CASE i = n + 1 /\ j # n + 1
      <4>1. j \in 1..n /\ 1 \in 1..m
          BY <3>2, <1>1
      <4>. QED BY <2>1, <3>2, <4>1, <1>1, <1>5 DEF PlaceOK, Unshared
    <3>3. CASE i # n + 1 /\ j = n + 1
      <4>1. i \in 1..n /\ 1 \in 1..m
          BY <3>3, <1>1
      <4>. QED BY <2>1, <3>3, <4>1, <1>1, <1>5 DEF PlaceOK, Unshared
    <3>. QED BY <3>1, <3>2, <3>3
  <2>. QED BY <2>1, <1>5 DEF Once
<1>13. Unshared(after, longer)
  <2>1. ASSUME NEW i \in DOMAIN after
        PROVE  after[i] \notin ToSet(longer)
    <3>1. CASE i \in 1..(m - 1)
      <4>1. after[i] = queue[i + 1] /\ i + 1 \in 1..m /\ i + 1 # 1 /\ 1 \in 1..m
          BY <3>1, <1>1, <1>7
      <4>2. after[i] # queue[1]
          BY <4>1, <1>1 DEF PlaceOK, Once
      <4>3. \A j \in 1..n : order[j] # after[i]
          BY <4>1, <1>1 DEF PlaceOK, Unshared
      <4>. QED BY <4>2, <4>3, <1>8
    <3>2. CASE i \notin 1..(m - 1)
        BY <3>2, <1>7, <1>10
    <3>. QED BY <3>1, <3>2
  <2>2. \A j \in DOMAIN longer : longer[j] \in ToSet(longer)
      BY <1>5, SeqFacts
  <2>. QED BY <2>1, <2>2 DEF Unshared
<1>14. \A i \in DOMAIN after : after[i] \in Ready(defs, checks, ToSet(longer))
  <2>1. ASSUME NEW i \in 1..(m - 1)
        PROVE  after[i] \in Ready(defs, checks, ToSet(longer))
    <3>1. queue[i + 1] \in Ready(defs, checks, ToSet(order))
        BY <1>1, <1>7 DEF PlaceOK
    <3>. QED BY <3>1, <1>7, <1>8 DEF Ready
  <2>2. ASSUME NEW i \in DOMAIN after \ (1..(m - 1))
        PROVE  after[i] \in Ready(defs, checks, ToSet(longer))
      BY <1>3, <1>7
  <2>. QED BY <2>1, <2>2
<1>15. ASSUME NEW i \in DOMAIN longer
       PROVE  BehindItsDeps(defs, checks, longer, i)
  <2>1. CASE i = n + 1
    <3>1. 1 \in 1..m /\ i - 1 = n
        BY <2>1, <1>1
    <3>2. Deps(defs, longer[i]) \cap checks \subseteq ToSet(order)
        BY <2>1, <3>1, <1>1, <1>5 DEF PlaceOK, Ready
    <3>3. \A d \in ToSet(order) : \E j \in 1..n : longer[j] = d
        BY <1>5, <1>8
    <3>. QED BY <3>1, <3>2, <3>3 DEF BehindItsDeps
  <2>2. CASE i # n + 1
    <3>1. i \in 1..n /\ longer[i] = order[i] /\ \A j \in 1..(i - 1) : j \in 1..n /\ longer[j] = order[j]
        BY <2>2, <1>1, <1>5
    <3>. QED BY <3>1, <1>1 DEF PlaceOK, BehindItsDeps
  <2>. QED BY <2>1, <2>2
<1>. QED BY <1>5, <1>6, <1>11, <1>12, <1>13, <1>14, <1>15 DEF PlaceOK

Seed(defs, checks) == [queue |-> Sorted(Ready(defs, checks, {})), order |-> <<>>]
Places(defs, checks, n, g) ==
    g = [k \in 0..n |-> IF k = 0 THEN Seed(defs, checks) ELSE Placed(defs, checks, g[k - 1])]

\* The places are defined: those up to n can be continued by one more.
LEMMA PlacesExist ==
    ASSUME NEW defs, NEW checks, NEW n \in Nat
    PROVE  \E g : Places(defs, checks, n, g)
<1>1. ASSUME NEW m \in Nat, NEW g, Places(defs, checks, m, g)
      PROVE  \E h : Places(defs, checks, m + 1, h)
  <2>. DEFINE h == [k \in 0..(m + 1) |-> IF k = m + 1 THEN Placed(defs, checks, g[m]) ELSE g[k]]
  <2>1. \A k \in 0..(m + 1) : h[k] = IF k = 0 THEN Seed(defs, checks) ELSE Placed(defs, checks, h[k - 1])
    <3>1. \A k \in 0..m : g[k] = IF k = 0 THEN Seed(defs, checks) ELSE Placed(defs, checks, g[k - 1])
        BY <1>1 DEF Places
    <3>2. \A k \in 0..m : h[k] = g[k]
        OBVIOUS
    <3>3. h[m + 1] = Placed(defs, checks, h[m]) /\ (m + 1) - 1 = m /\ m + 1 # 0
        BY <3>2
    <3>4. ASSUME NEW k \in 0..(m + 1), k # m + 1, k # 0
          PROVE  h[k] = Placed(defs, checks, h[k - 1])
      <4>1. k \in 0..m /\ k - 1 \in 0..m
          BY <3>4
      <4>. HIDE DEF h
      <4>. QED BY <3>1, <3>2, <3>4, <4>1
    <3>5. h[0] = Seed(defs, checks)
        BY <3>1
    <3>. QED BY <3>3, <3>4, <3>5
  <2>2. Places(defs, checks, m + 1, h)
      BY <2>1 DEF Places
  <2>. QED BY <2>2
<1>2. \E g : Places(defs, checks, 0, g)
  <2>. DEFINE h == [k \in 0..0 |-> Seed(defs, checks)]
  <2>1. Places(defs, checks, 0, h)
      BY DEF Places
  <2>. QED BY <2>1
<1>. DEFINE Missing == {m \in Nat : ~ \E g : Places(defs, checks, m, g)}
<1>. SUFFICES ASSUME Missing # {} PROVE FALSE
    OBVIOUS
<1>3. PICK m \in Missing : \A k \in Missing : m <= k
    BY LeastNumber
<1>4. m # 0
    BY <1>2
<1>5. m - 1 \in Nat /\ m - 1 \notin Missing
    BY <1>3, <1>4
<1>6. PICK g : Places(defs, checks, m - 1, g)
    BY <1>5
<1>7. \E h : Places(defs, checks, (m - 1) + 1, h)
    BY <1>1, <1>5, <1>6
<1>. QED BY <1>7

\* Every place is in order, for the first is and a place makes the next so.
LEMMA EveryPlaceIsOK ==
    ASSUME NEW defs, NEW checks, IsFiniteSet(checks), checks \subseteq Nat,
           NEW n \in Nat, NEW g, Places(defs, checks, n, g), NEW k \in 0..n
    PROVE  PlaceOK(defs, checks, g[k].queue, g[k].order)
<1>1. PlaceOK(defs, checks, g[0].queue, g[0].order)
  <2>. DEFINE first == Ready(defs, checks, {})
  <2>1. first \subseteq checks /\ IsFiniteSet(first) /\ first \subseteq Nat
    <3>1. first \subseteq checks
        BY DEF Ready
    <3>. QED BY <3>1, FS_Subset
  <2>2. Sorted(first) \in Seq(first) /\ Once(Sorted(first))
      BY <2>1, SortedHoldsEachOnce
  <2>3. g[0].queue = Sorted(first) /\ g[0].order = <<>>
      BY DEF Places, Seed
  <2>. HIDE DEF first
  <2>4. Sorted(first) \in Seq(checks) /\ <<>> \in Seq(checks)
    <3>1. Sorted(first) \in Seq(first) /\ first \subseteq checks
        BY <2>1, <2>2
    <3>2. Sorted(first) \in Seq(checks)
        BY <3>1, SeqWidens
    <3>. QED BY <3>2
  <2>5. \A i \in DOMAIN Sorted(first) : Sorted(first)[i] \in first
      BY <2>2
  <2>6. ToSet(<<>>) = {}
      BY DEF ToSet
  <2>7. Once(<<>>) /\ Unshared(Sorted(first), <<>>) /\ \A i \in DOMAIN <<>> : BehindItsDeps(defs, checks, <<>>, i)
      BY DEF Once, Unshared
  <2>. QED BY <2>2, <2>3, <2>4, <2>5, <2>6, <2>7 DEF PlaceOK, first
<1>2. ASSUME NEW m \in 1..n, PlaceOK(defs, checks, g[m - 1].queue, g[m - 1].order)
      PROVE  PlaceOK(defs, checks, g[m].queue, g[m].order)
  <2>. DEFINE last == g[m - 1]
  <2>1. g[m] = Placed(defs, checks, last)
      BY DEF Places
  <2>2. CASE last.queue = <<>>
      BY <1>2, <2>1, <2>2 DEF Placed
  <2>3. CASE last.queue # <<>>
    <3>. DEFINE order == Append(last.order, Head(last.queue))
                fresh == Ready(defs, checks, ToSet(order)) \ (ToSet(order) \cup ToSet(last.queue))
    <3>1. g[m].queue = Tail(last.queue) \o Sorted(fresh) /\ g[m].order = order
        BY <2>1, <2>3 DEF Placed
    <3>. HIDE DEF last
    <3>2. PlaceOK(defs, checks, last.queue, last.order)
        BY <1>2 DEF last
    <3>3. PlaceOK(defs, checks, Tail(last.queue) \o Sorted(fresh), order)
        BY <2>3, <3>2, PlacesAreOK
    <3>. QED BY <3>1, <3>3
  <2>. QED BY <2>2, <2>3
<1>. DEFINE Wrong == {m \in 0..n : ~ PlaceOK(defs, checks, g[m].queue, g[m].order)}
<1>. SUFFICES ASSUME Wrong # {} PROVE FALSE
    OBVIOUS
<1>3. PICK m \in Wrong : \A i \in Wrong : m <= i
  <2>1. Wrong \subseteq Nat
      OBVIOUS
  <2>. HIDE DEF Wrong
  <2>. QED BY <2>1, LeastNumber
<1>4. m # 0
    BY <1>1
<1>5. m \in 1..n /\ m - 1 \in 0..n /\ m - 1 \notin Wrong
    BY <1>3, <1>4
<1>6. PlaceOK(defs, checks, g[m - 1].queue, g[m - 1].order)
    BY <1>5
<1>. QED BY <1>2, <1>5, <1>6

\* The order places a check after all it depends on, each check once; when it
\* is as long as there are checks it places them all.
OrderOK(defs, checks, order) ==
    /\ order \in Seq(checks) /\ Once(order)
    /\ \A i \in DOMAIN order : BehindItsDeps(defs, checks, order, i)

LEMMA OrderGoesByDeps ==
    ASSUME NEW defs, NEW checks, IsFiniteSet(checks), checks \subseteq Nat
    PROVE  /\ OrderOK(defs, checks, Order(defs, checks))
           /\ Len(Order(defs, checks)) = Cardinality(checks) => ToSet(Order(defs, checks)) = checks
<1>. DEFINE n == Cardinality(checks)
            order == Order(defs, checks)
<1>1. n \in Nat
    BY FS_CardinalityType
<1>2. \E g : Places(defs, checks, n, g)
    BY <1>1, PlacesExist
<1>3. OrderOK(defs, checks, order)
  <2>. DEFINE place == CHOOSE g : g = [k \in 0..n |-> IF k = 0 THEN Seed(defs, checks) ELSE Placed(defs, checks, g[k - 1])]
  <2>3. Places(defs, checks, n, place)
    <3>1. \E g : g = [k \in 0..n |-> IF k = 0 THEN Seed(defs, checks) ELSE Placed(defs, checks, g[k - 1])]
        BY <1>2 DEF Places
    <3>. QED BY <3>1 DEF Places
  <2>4. order = place[n].order
      BY DEF Order, Seed
  <2>. HIDE DEF place, order
  <2>1. PICK g : Places(defs, checks, n, g) /\ order = g[n].order
      BY <2>3, <2>4
  <2>2. PlaceOK(defs, checks, g[n].queue, g[n].order)
    <3>1. n \in 0..n
        BY <1>1
    <3>. HIDE DEF n
    <3>. QED BY <1>1, <2>1, <3>1, EveryPlaceIsOK
  <2>. QED BY <2>1, <2>2 DEF PlaceOK, OrderOK
<1>4. ASSUME Len(order) = n
      PROVE  ToSet(order) = checks
  <2>. HIDE DEF order
  <2>1. order \in [1..n -> checks] /\ DOMAIN order = 1..n
      BY <1>3, <1>4 DEF OrderOK
  <2>2. order \in Injection(1..n, checks)
      BY <1>3, <2>1 DEF OrderOK, Once, Injection, IsInjective
  <2>3. Cardinality(1..n) = n
      BY <1>1, FS_Interval
  <2>4. order \in Surjection(1..n, checks)
      BY <2>2, <2>3, FS_Injection
  <2>. QED BY <2>1, <2>4 DEF Surjection, ToSet
<1>. QED BY <1>3, <1>4

-----------------------------------------------------------------------------
(* The invariant: what a run x has decided, and why it may go on.            *)

Fields == {"home", "at", "request", "cwd", "known", "order", "next", "called", "rows",
           "failed", "listed", "broke", "covered", "read", "exit"}
Covering == {"look", "read", "merge", "compare", "fill"}
Calling == {"awaits"} \cup Covering
Working == {"rows"} \cup Calling
Stages == {"idle", "over", "refused"} \cup Working
Results == {"pass", "fail", "warn", "skip", "off", "cascade"}
Harmless == {"pass", "skip", "warn", "off"}

\* The checks a run has been through, and those with an outcome of their own.
Through(x) == {x.order[i] : i \in 1..(x.next - 1)}
RanIn(x) == {c \in DOMAIN x.rows : x.rows[c] \notin {"off", "cascade"}}

\* It goes by an order that holds each check once, behind all it depended on
\* when the run began.
GoesByOrder(x) ==
    /\ x = [field \in Fields |-> x[field]] /\ x.at \in Stages
    /\ OrderOK(x.known, ToSet(x.order), x.order) /\ Closed(x.known, ToSet(x.order))
    /\ x.next \in 1..(Len(x.order) + 1)
    /\ x.at \in Calling => x.next <= Len(x.order)

\* Whatever it has been through is a row or listed; failed is what may not be
\* built upon.
Records(x) ==
    /\ x.rows = [c \in DOMAIN x.rows |-> x.rows[c]]
    /\ \A c \in DOMAIN x.rows : x.rows[c] \in Results
    /\ DOMAIN x.rows \cup x.listed = Through(x)
    /\ DOMAIN x.rows \cap x.listed = {}
    /\ x.failed = {c \in DOMAIN x.rows : x.rows[c] \in {"fail", "cascade"}}
    /\ (\E c \in DOMAIN x.rows : x.rows[c] = "cascade") => \E c \in DOMAIN x.rows : x.rows[c] = "fail"
    /\ \A c \in x.broke : c \in DOMAIN x.rows /\ x.rows[c] = "fail"

\* What it called it had come to, by a definition of the app; and none of the
\* checks before it that this definition depends on stands in its way.
Clear(x, i) ==
    \A j \in 1..(i - 1) : x.order[j] \in Deps(x.called, x.order[i]) =>
        x.order[j] \in DOMAIN x.rows /\ x.rows[x.order[j]] \in Harmless
BuildsOn(x) ==
    /\ ~ x.request.pure => x.listed = {}
    /\ \A c \in DOMAIN x.called :
            x.called[c] \in Definitions(app.names) /\ (x.request.pure => x.called[c].pure)
    /\ x.at \in Calling => x.order[x.next] \in DOMAIN x.called
    /\ \A i \in DOMAIN x.order : x.order[i] \in DOMAIN x.called =>
            i <= x.next /\ (i = x.next => x.at \in Calling) /\ Clear(x, i)

\* Its order holds all that was selected, and it is over when it is through.
Accounts(x) ==
    /\ x.at \in Working => Select(DOMAIN x.known, x.request) \subseteq ToSet(x.order)
    /\ x.at = "over" =>
        /\ Select(DOMAIN x.known, x.request) \subseteq Through(x)
        /\ Closed(x.known, Through(x)) /\ x.exit = ExitCode(x)

\* What it takes as covered has been exercised, and holds what it has read.
Earned(x) == x.read.names \subseteq x.covered /\ x.covered \subseteq exercised
Covers(x) ==
    /\ x.at = "awaits" => x.order[x.next] # Coverage
    /\ x.at \in Covering => x.order[x.next] = Coverage
    /\ Earned(x)
    /\ (Coverage \in DOMAIN x.rows /\ x.rows[Coverage] = "pass") => Commands \subseteq exercised

RunOK(x) == GoesByOrder(x) /\ Records(x) /\ BuildsOn(x) /\ Accounts(x) /\ Covers(x)

ProcFields == {"cwd", "memo", "defs", "holder"}
ProcOK(x) ==
    /\ x = [field \in ProcFields |-> x[field]]
    /\ x.cwd \in Cwds /\ DefsOK(x.defs)

ChecksInv ==
    /\ app \in Apps
    /\ proc = [p \in Procs |-> proc[p]] /\ \A p \in Procs : ProcOK(proc[p])
    /\ run = [r \in Runs |-> run[r]] /\ \A r \in Runs : run[r].home \in Procs /\ RunOK(run[r])
    /\ manifest.names \subseteq exercised /\ shards \subseteq exercised

-----------------------------------------------------------------------------
(* One step along the order.                                                 *)

LEMMA NextIsNew ==
    ASSUME NEW x, GoesByOrder(x), x.next <= Len(x.order), NEW c, c = x.order[x.next]
    PROVE  /\ c \in ToSet(x.order) /\ c \notin Through(x)
           /\ x.next \in DOMAIN x.order /\ x.next \in Nat
           /\ DOMAIN x.order = 1..Len(x.order) /\ Len(x.order) \in Nat
           /\ \A i \in DOMAIN x.order : i # x.next => x.order[i] # c
<1>1. x.order \in Seq(ToSet(x.order)) /\ Len(x.order) \in Nat /\ DOMAIN x.order = 1..Len(x.order)
      /\ x.next \in 1..Len(x.order) /\ x.next \in Nat
  <2>1. x.order \in Seq(ToSet(x.order)) /\ x.next \in 1..(Len(x.order) + 1) /\ x.next <= Len(x.order)
      BY DEF GoesByOrder, OrderOK
  <2>. QED BY <2>1
<1>2. c \in ToSet(x.order)
    BY <1>1 DEF ToSet
<1>3. \A i \in 1..(x.next - 1) : i \in DOMAIN x.order /\ i # x.next
    BY <1>1
<1>4. c \notin Through(x) /\ \A i \in DOMAIN x.order : i # x.next => x.order[i] # c
    BY <1>1, <1>3 DEF GoesByOrder, OrderOK, Once, Through
<1>. QED BY <1>1, <1>2, <1>4

\* The fields that say where a run is.
Moved(x, y, at) ==
    /\ y = [field \in Fields |-> y[field]]
    /\ y.home = x.home /\ y.request = x.request /\ y.known = x.known /\ y.order = x.order
    /\ y.at = at

LEMMA GoesOn ==
    ASSUME NEW x, GoesByOrder(x), x.next <= Len(x.order), NEW c, c = x.order[x.next],
           NEW y, Moved(x, y, "rows"), y.next = x.next + 1
    PROVE  GoesByOrder(y) /\ Through(y) = Through(x) \cup {c}
<1>1. x.order \in Seq(ToSet(x.order)) /\ x.next \in 1..(Len(x.order) + 1)
    BY DEF GoesByOrder, OrderOK
<1>2. Len(x.order) \in Nat /\ x.next \in Nat
    BY <1>1
<1>3. x.next + 1 \in 1..(Len(x.order) + 1) /\ (x.next + 1) - 1 = x.next
      /\ 1..x.next = 1..(x.next - 1) \cup {x.next}
    BY <1>1, <1>2
<1>4. GoesByOrder(y)
    BY <1>3 DEF GoesByOrder, Moved, Stages, Working, Calling, Covering
<1>5. Through(y) = Through(x) \cup {c}
  <2>1. Through(y) = {x.order[i] : i \in 1..x.next}
      BY <1>3 DEF Through, Moved
  <2>2. {x.order[i] : i \in 1..x.next} = {x.order[i] : i \in 1..(x.next - 1)} \cup {x.order[x.next]}
      BY <1>3
  <2>. QED BY <2>1, <2>2 DEF Through
<1>. QED BY <1>4, <1>5

Lowers == {"fail", "cascade"}

\* A row for the check it has come to.
GivesRow(x, y, c, row) ==
    /\ x.next <= Len(x.order) /\ c = x.order[x.next] /\ row \in Results
    /\ row = "cascade" => x.failed # {}
    /\ (c = Coverage /\ row = "pass") => Commands \subseteq exercised
    /\ Moved(x, y, "rows") /\ y.next = x.next + 1
    /\ y.rows = [d \in DOMAIN x.rows \cup {c} |-> IF d = c THEN row ELSE x.rows[d]]
    /\ y.failed = IF row \in Lowers THEN x.failed \cup {c} ELSE x.failed
    /\ y.listed = x.listed /\ y.called = x.called
    /\ \A d \in y.broke : d \in x.broke \/ (d = c /\ row = "fail")
    /\ Earned(y)

LEMMA RowsGoOn ==
    ASSUME app \in Apps, NEW x, RunOK(x), x.at \in Working,
           NEW c, NEW row, NEW y, GivesRow(x, y, c, row)
    PROVE  RunOK(y)
<1>. USE DEF GivesRow
<1>1. /\ c \notin Through(x) /\ x.next \in Nat /\ DOMAIN x.order = 1..Len(x.order)
      /\ Len(x.order) \in Nat
      /\ \A i \in DOMAIN x.order : i # x.next => x.order[i] # c
    BY NextIsNew DEF RunOK
<1>2. GoesByOrder(y) /\ Through(y) = Through(x) \cup {c}
    BY GoesOn DEF RunOK
<1>3. /\ DOMAIN x.rows \cup x.listed = Through(x) /\ DOMAIN x.rows \cap x.listed = {}
      /\ \A d \in DOMAIN x.rows : x.rows[d] \in Results
      /\ x.failed = {d \in DOMAIN x.rows : x.rows[d] \in Lowers}
    BY DEF RunOK, Records, Lowers
<1>4. c \notin DOMAIN x.rows /\ c \notin x.listed
    BY <1>1, <1>3
<1>5. /\ DOMAIN y.rows = DOMAIN x.rows \cup {c} /\ y.rows[c] = row
      /\ \A d \in DOMAIN x.rows : d # c /\ y.rows[d] = x.rows[d]
    BY <1>4
<1>6. Records(y)
  <2>1. y.rows = [d \in DOMAIN y.rows |-> y.rows[d]]
      BY <1>5
  <2>2. \A d \in DOMAIN y.rows : y.rows[d] \in Results
      BY <1>3, <1>5
  <2>3. DOMAIN y.rows \cup y.listed = Through(y) /\ DOMAIN y.rows \cap y.listed = {}
      BY <1>2, <1>3, <1>4, <1>5
  <2>4. y.failed = {d \in DOMAIN y.rows : y.rows[d] \in Lowers}
    <3>1. CASE row \in Lowers
        BY <3>1, <1>3, <1>5
    <3>2. CASE row \notin Lowers
      <4>1. y.failed = x.failed /\ y.rows[c] \notin Lowers
          BY <3>2, <1>5
      <4>2. \A d : d \in DOMAIN y.rows /\ y.rows[d] \in Lowers <=> d \in DOMAIN x.rows /\ x.rows[d] \in Lowers
          BY <4>1, <1>5
      <4>. QED BY <4>1, <4>2, <1>3
    <3>. QED BY <3>1, <3>2
  <2>5. ASSUME NEW e \in DOMAIN y.rows, y.rows[e] = "cascade"
        PROVE  \E d \in DOMAIN y.rows : y.rows[d] = "fail"
    <3>1. \E d \in DOMAIN x.rows : x.rows[d] \in Lowers
        BY <2>5, <1>3, <1>5 DEF Lowers
    <3>2. \E d \in DOMAIN x.rows : x.rows[d] = "fail"
        BY <3>1 DEF RunOK, Records, Lowers
    <3>. QED BY <3>2, <1>5
  <2>6. \A d \in y.broke : d \in DOMAIN y.rows /\ y.rows[d] = "fail"
      BY <1>5 DEF RunOK, Records
  <2>. QED BY <2>1, <2>2, <2>3, <2>4, <2>5, <2>6 DEF Records, Lowers
<1>7. BuildsOn(y)
  <2>1. /\ y.request = x.request /\ y.order = x.order /\ y.at = "rows" /\ y.at \notin Calling
        /\ y.called = x.called /\ y.listed = x.listed /\ y.next = x.next + 1
      BY DEF Moved, Calling, Covering
  <2>2. BuildsOn(x)
      BY DEF RunOK
  <2>3. ASSUME NEW i \in DOMAIN x.order, x.order[i] \in DOMAIN x.called
        PROVE  i <= x.next /\ i # x.next + 1 /\ i <= x.next + 1 /\ Clear(y, i)
    <3>1. i <= x.next /\ Clear(x, i)
        BY <2>2, <2>3 DEF BuildsOn
    <3>2. ASSUME NEW j \in 1..(i - 1), x.order[j] \in Deps(x.called, x.order[i])
          PROVE  x.order[j] \in DOMAIN y.rows /\ y.rows[x.order[j]] \in Harmless
      <4>1. x.order[j] \in DOMAIN x.rows /\ x.rows[x.order[j]] \in Harmless
          BY <3>1, <3>2 DEF Clear
      <4>. QED BY <4>1, <1>5
    <3>3. Clear(y, i)
        BY <3>2, <2>1 DEF Clear
    <3>. QED BY <3>1, <3>3, <1>1
  <2>. QED BY <2>1, <2>2, <2>3 DEF BuildsOn
<1>8. Accounts(y)
    BY DEF RunOK, Accounts, Moved
<1>9. Covers(y)
  <2>1. y.at = "rows" /\ y.at \notin Covering
      BY DEF Moved, Covering
  <2>2. (Coverage \in DOMAIN y.rows /\ y.rows[Coverage] = "pass") => Commands \subseteq exercised
      BY <1>5 DEF RunOK, Covers
  <2>. QED BY <2>1, <2>2 DEF Covers
<1>. QED BY <1>2, <1>6, <1>7, <1>8, <1>9 DEF RunOK

\* In the purity partition the check it has come to is listed instead.
LEMMA ListGoesOn ==
    ASSUME app \in Apps, NEW x, RunOK(x), x.at \in Working, x.next <= Len(x.order),
           NEW c, c = x.order[x.next], x.request.pure,
           NEW y, Moved(x, y, "rows"), y.next = x.next + 1, y.called = x.called,
           y.rows = x.rows, y.failed = x.failed, y.listed = x.listed \cup {c},
           y.broke = x.broke, y.covered = x.covered, y.read = x.read
    PROVE  RunOK(y)
<1>1. /\ c \notin Through(x) /\ x.next \in Nat /\ DOMAIN x.order = 1..Len(x.order)
      /\ Len(x.order) \in Nat
    BY NextIsNew DEF RunOK
<1>2. GoesByOrder(y) /\ Through(y) = Through(x) \cup {c}
    BY GoesOn DEF RunOK
<1>3. Records(y)
  <2>1. DOMAIN x.rows \cup x.listed = Through(x) /\ DOMAIN x.rows \cap x.listed = {}
      BY DEF RunOK, Records
  <2>2. DOMAIN y.rows \cup y.listed = Through(y) /\ DOMAIN y.rows \cap y.listed = {}
      BY <2>1, <1>1, <1>2
  <2>. QED BY <2>2 DEF RunOK, Records
<1>4. BuildsOn(y)
  <2>1. BuildsOn(x) /\ y.at \notin Calling /\ y.request = x.request /\ y.order = x.order
      BY DEF RunOK, Moved, Calling, Covering
  <2>2. ASSUME NEW i \in DOMAIN x.order, x.order[i] \in DOMAIN x.called
        PROVE  i # x.next + 1 /\ i <= x.next + 1 /\ Clear(y, i)
      BY <1>1, <2>1, <2>2 DEF BuildsOn, Clear
  <2>. QED BY <2>1, <2>2 DEF BuildsOn
<1>5. Accounts(y)
    BY DEF RunOK, Accounts, Moved
<1>6. Covers(y)
    BY DEF RunOK, Covers, Earned, Moved, Covering
<1>. QED BY <1>2, <1>3, <1>4, <1>5, <1>6 DEF RunOK

CalledAlso(x, y, c, def) ==
    y.called = [e \in DOMAIN x.called \cup {c} |-> IF e = c THEN def ELSE x.called[e]]

\* A call of a definition whose dependencies have neither failed nor been
\* listed finds those that come before it with a harmless row.
LEMMA CallBuildsOn ==
    ASSUME NEW x, RunOK(x), x.at = "rows", x.next <= Len(x.order),
           NEW c, c = x.order[x.next], NEW def \in Definitions(app.names),
           ToSet(def.deps) \cap (x.failed \cup x.listed) = {}, x.request.pure => def.pure,
           NEW y, y.at \in Calling, y.order = x.order, y.next = x.next, y.request = x.request,
           y.rows = x.rows, y.listed = x.listed,
           CalledAlso(x, y, c, def)
    PROVE  BuildsOn(y)
<1>. USE DEF CalledAlso
<1>1. BuildsOn(x) /\ Records(x) /\ x.at \notin Calling
    BY DEF RunOK, Calling, Covering
<1>2. /\ x.next \in DOMAIN x.order /\ x.next \in Nat /\ DOMAIN x.order = 1..Len(x.order)
      /\ Len(x.order) \in Nat
      /\ \A i \in DOMAIN x.order : i # x.next => x.order[i] # c
    BY NextIsNew DEF RunOK
<1>3. ASSUME NEW i \in DOMAIN x.order, x.order[i] \in DOMAIN y.called
      PROVE  i <= y.next /\ (i = y.next => y.at \in Calling) /\ Clear(y, i)
  <2>1. CASE i = x.next
    <3>1. ASSUME NEW j \in 1..(i - 1), x.order[j] \in ToSet(def.deps)
          PROVE  x.order[j] \in DOMAIN x.rows /\ x.rows[x.order[j]] \in Harmless
      <4>1. x.order[j] \in Through(x)
          BY <2>1 DEF Through
      <4>2. x.order[j] \in DOMAIN x.rows /\ x.order[j] \notin x.failed
            /\ x.rows[x.order[j]] \in Results
          BY <1>1, <3>1, <4>1 DEF Records
      <4>3. x.rows[x.order[j]] \notin {"fail", "cascade"}
          BY <1>1, <4>2 DEF Records
      <4>. QED BY <4>2, <4>3 DEF Results, Harmless
    <3>2. Deps(y.called, y.order[i]) = ToSet(def.deps)
        BY <2>1 DEF Deps
    <3>. QED BY <2>1, <3>1, <3>2, <1>2 DEF Clear
  <2>2. CASE i # x.next
    <3>1. x.order[i] # c /\ x.order[i] \in DOMAIN x.called
        BY <2>2, <1>2, <1>3
    <3>2. i <= x.next /\ Clear(x, i)
        BY <3>1, <1>1 DEF BuildsOn
    <3>3. Deps(y.called, y.order[i]) = Deps(x.called, x.order[i])
        BY <3>1 DEF Deps
    <3>. QED BY <2>2, <3>2, <3>3 DEF Clear
  <2>. QED BY <2>1, <2>2
<1>4. \A e \in DOMAIN y.called :
            y.called[e] \in Definitions(app.names) /\ (y.request.pure => y.called[e].pure)
    BY <1>1 DEF BuildsOn
<1>5. y.order[y.next] \in DOMAIN y.called /\ (~ y.request.pure => y.listed = {})
    BY <1>1 DEF BuildsOn
<1>. QED BY <1>3, <1>4, <1>5 DEF BuildsOn

\* It comes to a call, or goes on inside the coverage check.
LEMMA CallGoesOn ==
    ASSUME NEW x, RunOK(x), x.at \in Working, x.next <= Len(x.order),
           NEW at \in Calling,
           at = "awaits" => x.order[x.next] # Coverage,
           at \in Covering => x.order[x.next] = Coverage,
           NEW y, Moved(x, y, at), y.next = x.next,
           y.rows = x.rows, y.failed = x.failed, y.listed = x.listed, y.broke = x.broke,
           BuildsOn(y), Earned(y)
    PROVE  RunOK(y)
<1>1. GoesByOrder(y) /\ Through(y) = Through(x)
    BY DEF RunOK, GoesByOrder, Moved, Stages, Working, Through
<1>2. Records(y)
    BY <1>1 DEF RunOK, Records
<1>4. Accounts(y)
    BY DEF RunOK, Accounts, Moved, Calling, Covering
<1>5. Covers(y)
    BY DEF RunOK, Covers, Moved
<1>. QED BY <1>1, <1>2, <1>4, <1>5 DEF RunOK

-----------------------------------------------------------------------------
(* What a step leaves as it was.                                             *)

LEMMA StillOK ==
    ASSUME NEW x, RunOK(x), app' = app, exercised \subseteq exercised'
    PROVE  RunOK(x)'
<1>1. GoesByOrder(x)'
    BY DEF RunOK, GoesByOrder, OrderOK, BehindItsDeps, Closed, Deps, Once
<1>2. Records(x)'
    BY DEF RunOK, Records, Through
<1>3. BuildsOn(x)'
    BY DEF RunOK, BuildsOn, Clear, Deps
<1>4. Accounts(x)'
    BY DEF RunOK, Accounts, Closed, Through, Deps, Select, ExitCode
<1>5. Covers(x)'
    BY DEF RunOK, Covers, Earned
<1>. QED BY <1>1, <1>2, <1>3, <1>4, <1>5 DEF RunOK

LEMMA ProcsStillOK ==
    ASSUME ChecksInv, app' = app, NEW r \in Runs, NEW holder,
           proc' = proc \/ proc' = Hold(r, holder)
    PROVE  /\ proc' = [p \in Procs |-> proc'[p]]
           /\ \A p \in Procs : ProcOK(proc[p])'
<1>1. CASE proc' = proc
    BY <1>1 DEF ChecksInv, ProcOK, Cwds, DefsOK
<1>2. CASE proc' = Hold(r, holder)
  <2>1. proc' = [p \in Procs |-> proc'[p]]
      BY <1>2 DEF Hold, ChecksInv
  <2>2. ASSUME NEW p \in Procs
        PROVE  ProcOK(proc[p])'
    <3>1. proc'[p] = proc[p] \/ proc'[p] = [proc[p] EXCEPT !.holder = holder]
        BY <1>2 DEF Hold, ChecksInv
    <3>2. ProcOK(proc[p])
        BY DEF ChecksInv
    <3>. QED BY <3>1, <3>2 DEF ProcOK, ProcFields, Cwds, DefsOK
  <2>. QED BY <2>1, <2>2
<1>. QED BY <1>1, <1>2

\* A step of a run disturbs no other.
LEMMA RunSteps ==
    ASSUME ChecksInv, app' = app, exercised' = exercised, shards' = shards,
           manifest'.names \subseteq exercised,
           NEW r \in Runs, NEW y, RunOK(y), y.home = run[r].home,
           run' = [run EXCEPT ![r] = y],
           NEW holder, proc' = proc \/ proc' = Hold(r, holder)
    PROVE  ChecksInv'
<1>1. run' = [q \in Runs |-> run'[q]] /\ run'[r] = y /\ \A q \in Runs : q # r => run'[q] = run[q]
    BY DEF ChecksInv
<1>2. ASSUME NEW q \in Runs
      PROVE  run'[q].home \in Procs /\ RunOK(run[q])'
  <2>1. PICK z : z = run'[q]
      OBVIOUS
  <2>2. RunOK(z) /\ z.home \in Procs
      BY <1>1, <2>1 DEF ChecksInv
  <2>3. RunOK(z)'
      BY <2>2, StillOK
  <2>. QED BY <2>1, <2>2, <2>3
<1>3. proc' = [p \in Procs |-> proc'[p]] /\ \A p \in Procs : ProcOK(proc[p])'
    BY ProcsStillOK
<1>. QED BY <1>1, <1>2, <1>3 DEF ChecksInv

-----------------------------------------------------------------------------
(* The steps of a run.                                                       *)

LEMMA RunOf ==
    ASSUME ChecksInv, NEW r \in Runs, NEW x, x = run[r]
    PROVE  RunOK(x) /\ x = [field \in Fields |-> x[field]]
    BY DEF ChecksInv, RunOK, GoesByOrder

LEMMA PassKeeps ==
    ASSUME ChecksInv, NEW r \in Runs, Pass(r)
    PROVE  ChecksInv'
<1>1. PICK x : x = run[r]
    OBVIOUS
<1>2. RunOK(x) /\ x = [field \in Fields |-> x[field]]
    BY <1>1, RunOf
<1>3. PICK c : c = x.order[x.next]
    OBVIOUS
<1>4. x.at = "rows" /\ x.at \in Working /\ x.next <= Len(x.order) /\ app \in Apps
    BY <1>1 DEF Pass, Turn, Left, Working, ChecksInv
<1>5. app' = app /\ exercised' = exercised /\ shards' = shards /\ manifest'.names \subseteq exercised
      /\ proc' = Hold(r, r)
    BY DEF Pass, ChecksInv
<1>6. Earned(x)
    BY <1>2 DEF RunOK, Covers
<1>7. CASE Off(r)
  <2>1. PICK y : y = WithRow(x, "off")
      OBVIOUS
  <2>2. run' = [run EXCEPT ![r] = y]
      BY <1>1, <1>7, <2>1 DEF Pass
  <2>3. /\ Moved(x, y, "rows") /\ y.next = x.next + 1
        /\ y.rows = [d \in DOMAIN x.rows \cup {c} |-> IF d = c THEN "off" ELSE x.rows[d]]
        /\ y.failed = x.failed /\ y.listed = x.listed /\ y.called = x.called /\ y.broke = x.broke
        /\ y.covered = x.covered /\ y.read = x.read
      BY <2>1, <1>2, <1>3, <1>4 DEF WithRow, Moved, Fields
  <2>4. /\ "off" \in Results
        /\ y.failed = IF "off" \in Lowers THEN x.failed \cup {c} ELSE x.failed
        /\ \A d \in y.broke : d \in x.broke \/ (d = c /\ "off" = "fail")
        /\ ~ (c = Coverage /\ "off" = "pass")
      BY <2>3 DEF Results, Lowers
  <2>5. GivesRow(x, y, c, "off")
      BY <2>3, <2>4, <1>3, <1>4, <1>6 DEF GivesRow, Earned
  <2>6. RunOK(y)
      BY <2>5, <1>2, <1>4, RowsGoOn
  <2>. QED BY <2>2, <2>3, <2>6, <1>1, <1>5, RunSteps DEF Moved
<1>8. CASE ~ Off(r) /\ Blocked(r)
  <2>1. PICK y : y = WithRow(x, "cascade")
      OBVIOUS
  <2>2. run' = [run EXCEPT ![r] = y]
      BY <1>1, <1>8, <2>1 DEF Pass
  <2>3. /\ Moved(x, y, "rows") /\ y.next = x.next + 1
        /\ y.rows = [d \in DOMAIN x.rows \cup {c} |-> IF d = c THEN "cascade" ELSE x.rows[d]]
        /\ y.failed = x.failed \cup {c} /\ y.listed = x.listed /\ y.called = x.called /\ y.broke = x.broke
        /\ y.covered = x.covered /\ y.read = x.read
      BY <2>1, <1>2, <1>3, <1>4 DEF WithRow, Moved, Fields
  <2>4. /\ "cascade" \in Results
        /\ y.failed = IF "cascade" \in Lowers THEN x.failed \cup {c} ELSE x.failed
        /\ \A d \in y.broke : d \in x.broke \/ (d = c /\ "cascade" = "fail")
        /\ ~ (c = Coverage /\ "cascade" = "pass")
        /\ x.failed # {}
      BY <2>3, <1>1, <1>8 DEF Results, Lowers, Blocked
  <2>5. GivesRow(x, y, c, "cascade")
      BY <2>3, <2>4, <1>3, <1>4, <1>6 DEF GivesRow, Earned
  <2>6. RunOK(y)
      BY <2>5, <1>2, <1>4, RowsGoOn
  <2>. QED BY <2>2, <2>3, <2>6, <1>1, <1>5, RunSteps DEF Moved
<1>9. CASE ~ Off(r) /\ ~ Blocked(r)
  <2>1. PICK y : y = PassedOver(x)
      OBVIOUS
  <2>2. run' = [run EXCEPT ![r] = y]
      BY <1>1, <1>9, <2>1 DEF Pass
  <2>3. x.request.pure
      BY <1>9, <1>1 DEF Pass, Listed
  <2>4. Moved(x, y, "rows") /\ y.next = x.next + 1 /\ y.rows = x.rows /\ y.failed = x.failed
        /\ y.listed = x.listed \cup {c} /\ y.called = x.called /\ y.broke = x.broke /\ y.covered = x.covered /\ y.read = x.read
      BY <2>1, <1>2, <1>3, <1>4 DEF PassedOver, Moved, Fields
  <2>5. RunOK(y)
      BY <2>3, <2>4, <1>2, <1>3, <1>4, ListGoesOn
  <2>. QED BY <2>2, <2>4, <2>5, <1>1, <1>5, RunSteps DEF Moved
<1>. QED BY <1>7, <1>8, <1>9

LEMMA GoneKeeps ==
    ASSUME ChecksInv, NEW r \in Runs, Gone(r)
    PROVE  ChecksInv'
<1>1. PICK x : x = run[r]
    OBVIOUS
<1>2. RunOK(x) /\ x = [field \in Fields |-> x[field]]
    BY <1>1, RunOf
<1>3. PICK y : y = [x EXCEPT !.at = "refused", !.exit = 1]
    OBVIOUS
<1>4. run' = [run EXCEPT ![r] = y]
    BY <1>1, <1>3 DEF Gone, ChecksInv
<1>5. Moved(x, y, "refused") /\ y.next = x.next /\ y.rows = x.rows /\ y.failed = x.failed
      /\ y.listed = x.listed /\ y.called = x.called /\ y.broke = x.broke /\ y.covered = x.covered /\ y.read = x.read
    BY <1>2, <1>3 DEF Moved, Fields
<1>6. GoesByOrder(y)
    BY <1>2, <1>5 DEF RunOK, GoesByOrder, Moved, Stages, Working, Calling, Covering
<1>7. Records(y)
  <2>1. Through(y) = Through(x)
      BY <1>5 DEF Through, Moved
  <2>2. Records(x)
      BY <1>2 DEF RunOK
  <2>. QED BY <1>5, <2>1, <2>2 DEF Records
<1>8. BuildsOn(y) /\ Accounts(y) /\ Covers(y)
  <2>1. x.at = "rows"
      BY <1>1 DEF Gone, Turn
  <2>. QED BY <1>2, <1>5, <2>1 DEF RunOK, BuildsOn, Clear, Accounts, Covers, Earned, Moved, Working,
                                   Calling, Covering
<1>9. app' = app /\ exercised' = exercised /\ shards' = shards /\ manifest'.names \subseteq exercised
      /\ proc' = Hold(r, None)
    BY DEF Gone, ChecksInv
<1>10. RunOK(y) /\ y.home = run[r].home
    BY <1>1, <1>5, <1>6, <1>7, <1>8 DEF RunOK, Moved
<1>. QED BY <1>4, <1>9, <1>10, RunSteps

LEMMA FinishKeeps ==
    ASSUME ChecksInv, NEW r \in Runs, Finish(r)
    PROVE  ChecksInv'
<1>1. PICK x : x = run[r]
    OBVIOUS
<1>2. RunOK(x) /\ x = [field \in Fields |-> x[field]]
    BY <1>1, RunOf
<1>3. PICK y : y = [x EXCEPT !.at = "over", !.exit = ExitCode(x)]
    OBVIOUS
<1>4. run' = [run EXCEPT ![r] = y]
    BY <1>1, <1>3 DEF Finish, ChecksInv
<1>5. Moved(x, y, "over") /\ y.next = x.next /\ y.rows = x.rows /\ y.failed = x.failed
      /\ y.listed = x.listed /\ y.called = x.called /\ y.broke = x.broke /\ y.covered = x.covered /\ y.read = x.read /\ y.exit = ExitCode(x)
    BY <1>2, <1>3 DEF Moved, Fields
<1>6. GoesByOrder(y)
    BY <1>2, <1>5 DEF RunOK, GoesByOrder, Moved, Stages, Working, Calling, Covering
<1>7. Records(y) /\ Through(y) = Through(x)
  <2>1. Through(y) = Through(x)
      BY <1>5 DEF Through, Moved
  <2>2. Records(x)
      BY <1>2 DEF RunOK
  <2>. QED BY <1>5, <2>1, <2>2 DEF Records
<1>9. x.at = "rows" /\ ~ (x.next <= Len(x.order))
    BY <1>1 DEF Finish, Turn, Left
<1>8. BuildsOn(y) /\ Covers(y)
    BY <1>2, <1>5, <1>9 DEF RunOK, BuildsOn, Clear, Covers, Earned, Moved, Calling, Covering
<1>10. Through(x) = ToSet(x.order)
  <2>1. x.order \in Seq(ToSet(x.order)) /\ x.next \in 1..(Len(x.order) + 1)
      BY <1>2 DEF RunOK, GoesByOrder, OrderOK
  <2>2. DOMAIN x.order = 1..Len(x.order) /\ Len(x.order) \in Nat
      BY <2>1
  <2>3. x.next - 1 = Len(x.order)
      BY <2>1, <2>2, <1>9
  <2>. QED BY <2>2, <2>3 DEF Through, ToSet
<1>11. Accounts(y)
  <2>1. Select(DOMAIN x.known, x.request) \subseteq ToSet(x.order) /\ Closed(x.known, ToSet(x.order))
      BY <1>2, <1>9 DEF RunOK, Accounts, GoesByOrder, Working
  <2>2. ExitCode(y) = ExitCode(x)
      BY <1>5 DEF ExitCode, Moved
  <2>. QED BY <2>1, <2>2, <1>5, <1>7, <1>10 DEF Accounts, Moved, Working, Calling, Covering
<1>12. app' = app /\ exercised' = exercised /\ shards' = shards /\ manifest'.names \subseteq exercised
       /\ proc' = Hold(r, None)
    BY DEF Finish, ChecksInv
<1>13. RunOK(y) /\ y.home = run[r].home
    BY <1>1, <1>5, <1>6, <1>7, <1>8, <1>11 DEF RunOK, Moved
<1>. QED BY <1>4, <1>12, <1>13, RunSteps

LEMMA CallKeeps ==
    ASSUME ChecksInv, NEW r \in Runs, Call(r)
    PROVE  ChecksInv'
<1>1. PICK x : x = run[r]
    OBVIOUS
<1>2. RunOK(x) /\ x = [field \in Fields |-> x[field]]
    BY <1>1, RunOf
<1>3. PICK c : c = x.order[x.next]
    OBVIOUS
<1>4. x.at = "rows" /\ x.at \in Working /\ x.next <= Len(x.order)
    BY <1>1 DEF Call, Turn, Left, Working
<1>5. PICK defs, def, at :
        /\ defs = Registry(r) /\ def = defs[c]
        /\ at = IF c = Coverage THEN "look" ELSE "awaits"
    OBVIOUS
<1>6. /\ def \in Definitions(app.names)
      /\ ToSet(def.deps) \cap (x.failed \cup x.listed) = {}
      /\ x.request.pure => def.pure
  <2>1. c = Check(r) /\ c \in DOMAIN defs /\ ~ Blocked(r) /\ ~ Listed(r)
      BY <1>1, <1>3, <1>5 DEF Call, Check, Defined
  <2>2. DefsOK(defs)
      BY <1>5 DEF ChecksInv, ProcOK, Registry, Home
  <2>3. ToSet(def.deps) \cap x.failed = {}
      BY <2>1, <1>1, <1>5 DEF Blocked, Deps
  <2>4. x.request.pure => def.pure /\ ToSet(def.deps) \cap x.listed = {}
      BY <2>1, <1>1, <1>5 DEF Listed, Deps
  <2>5. ~ x.request.pure => x.listed = {}
      BY <1>2 DEF RunOK, BuildsOn
  <2>. QED BY <2>1, <2>2, <2>3, <2>4, <2>5, <1>5 DEF DefsOK
<1>7. PICK y : y = WithCall(x, def)
    OBVIOUS
<1>8. run' = [run EXCEPT ![r] = y]
    BY <1>1, <1>3, <1>5, <1>7 DEF Call, Check, ChecksInv
<1>9. /\ Moved(x, y, at) /\ y.next = x.next /\ y.rows = x.rows /\ y.failed = x.failed
      /\ y.listed = x.listed /\ y.broke = x.broke /\ y.covered = x.covered /\ y.read = x.read
      /\ y.called = [e \in DOMAIN x.called \cup {c} |-> IF e = c THEN def ELSE x.called[e]]
    BY <1>2, <1>3, <1>5, <1>7 DEF WithCall, Moved, Fields
<1>10. /\ at \in Calling
       /\ at = "awaits" => c # Coverage
       /\ at \in Covering => c = Coverage
    BY <1>5 DEF Calling, Covering
<1>11. Earned(y)
    BY <1>2, <1>9 DEF RunOK, Covers, Earned
<1>12. BuildsOn(y)
  <2>1. /\ y.at \in Calling /\ y.order = x.order /\ y.next = x.next /\ y.request = x.request
        /\ y.rows = x.rows /\ y.listed = x.listed
      BY <1>9, <1>10 DEF Moved
  <2>2. CalledAlso(x, y, c, def)
      BY <1>9 DEF CalledAlso
  <2>. QED BY <2>1, <2>2, <1>2, <1>3, <1>4, <1>6, CallBuildsOn
<1>15. RunOK(y)
    BY <1>2, <1>3, <1>4, <1>9, <1>10, <1>11, <1>12, CallGoesOn
<1>13. \E holder : proc' = Hold(r, holder)
    BY DEF Call
<1>14. app' = app /\ exercised' = exercised /\ shards' = shards /\ manifest'.names \subseteq exercised
    BY DEF Call, ChecksInv
<1>. QED BY <1>1, <1>8, <1>9, <1>13, <1>14, <1>15, RunSteps DEF Moved

\* The row of a check that was called.
LEMMA RowsOfCalls ==
    ASSUME ChecksInv, NEW r \in Runs, NEW x, x = run[r], x.at \in Calling,
           NEW outcome \in {"pass", "fail", "warn", "skip", Throws}
    PROVE  /\ x.at \in Working /\ x.next <= Len(x.order) /\ x.order[x.next] \in DOMAIN x.called
           /\ Row(r, outcome) \in Results \ {"off", "cascade"}
           /\ outcome = Throws => Row(r, outcome) = "fail"
           /\ outcome # "pass" => Row(r, outcome) # "pass"
<1>1. RunOK(x)
    BY RunOf
<1>2. x.next <= Len(x.order) /\ x.order[x.next] \in DOMAIN x.called
    BY <1>1 DEF RunOK, GoesByOrder, BuildsOn
<1>3. x.at \in Working
    BY DEF Working
<1>4. outcome = Throws => Row(r, outcome) = "fail"
    BY DEF Row
<1>5. outcome # Throws => Row(r, outcome) = outcome \/ (outcome = "fail" /\ Row(r, outcome) = "warn")
    BY DEF Row
<1>6. outcome # Throws => outcome \in {"pass", "fail", "warn", "skip"}
    OBVIOUS
<1>7. Row(r, outcome) \in Results \ {"off", "cascade"}
    BY <1>4, <1>5, <1>6 DEF Results
<1>8. outcome # "pass" => Row(r, outcome) # "pass"
    BY <1>4, <1>5 DEF Throws
<1>. QED BY <1>2, <1>3, <1>4, <1>7, <1>8

LEMMA SettleKeeps ==
    ASSUME ChecksInv, NEW r \in Runs, Settle(r)
    PROVE  ChecksInv'
<1>1. PICK x : x = run[r]
    OBVIOUS
<1>2. RunOK(x) /\ x = [field \in Fields |-> x[field]] /\ app \in Apps
    BY <1>1, RunOf DEF ChecksInv
<1>3. PICK c : c = x.order[x.next]
    OBVIOUS
<1>4. x.at = "awaits" /\ x.at \in Calling /\ c # Coverage
    BY <1>1, <1>2, <1>3 DEF Settle, Calling, RunOK, Covers
<1>5. c \in DOMAIN x.called /\ x.called[c] \in Definitions(app.names) /\ c = Check(r)
    BY <1>1, <1>2, <1>3, <1>4 DEF RunOK, BuildsOn, Check
<1>6. PICK outcome \in x.called[c].outcomes :
        run' = [run EXCEPT ![r] =
            IF outcome = Throws
            THEN [WithRow(run[r], Row(r, outcome)) EXCEPT !.broke = @ \cup {Check(r)}]
            ELSE WithRow(run[r], Row(r, outcome))]
    BY <1>1, <1>5 DEF Settle
<1>7. outcome \in {"pass", "fail", "warn", "skip", Throws}
    BY <1>5, <1>6, DefinitionFacts
<1>8. PICK row : row = Row(r, outcome)
    OBVIOUS
<1>9. /\ x.at \in Working /\ x.next <= Len(x.order)
      /\ row \in Results \ {"off", "cascade"}
      /\ outcome = Throws => row = "fail"
    BY <1>1, <1>3, <1>4, <1>7, <1>8, RowsOfCalls
<1>10. PICK w : w = WithRow(x, row)
    OBVIOUS
<1>11. PICK y : y = IF outcome = Throws THEN [w EXCEPT !.broke = @ \cup {c}] ELSE w
    OBVIOUS
<1>12. run' = [run EXCEPT ![r] = y]
    BY <1>1, <1>5, <1>6, <1>8, <1>10, <1>11
<1>13. /\ Moved(x, w, "rows") /\ w.next = x.next + 1
       /\ w.rows = [d \in DOMAIN x.rows \cup {c} |-> IF d = c THEN row ELSE x.rows[d]]
       /\ w.failed = IF row \in Lowers THEN x.failed \cup {c} ELSE x.failed
       /\ w.listed = x.listed /\ w.called = x.called /\ w.broke = x.broke /\ w.covered = x.covered /\ w.read = x.read
    BY <1>2, <1>3, <1>10 DEF WithRow, Moved, Fields, Lowers
<1>14. /\ Moved(x, y, "rows") /\ y.next = w.next /\ y.rows = w.rows /\ y.failed = w.failed
       /\ y.listed = w.listed /\ y.called = w.called /\ y.covered = w.covered /\ y.read = w.read
       /\ \A d \in y.broke : d \in w.broke \/ (d = c /\ outcome = Throws)
    BY <1>11, <1>13 DEF Moved, Fields
<1>15. Earned(x)
    BY <1>2 DEF RunOK, Covers
<1>16. GivesRow(x, y, c, row)
    BY <1>3, <1>4, <1>9, <1>13, <1>14, <1>15 DEF GivesRow, Earned
<1>17. RunOK(y)
    BY <1>2, <1>9, <1>16, RowsGoOn
<1>18. app' = app /\ exercised' = exercised /\ shards' = shards /\ manifest'.names \subseteq exercised
       /\ proc' = Hold(r, r)
    BY DEF Settle, ChecksInv
<1>. QED BY <1>1, <1>12, <1>14, <1>17, <1>18, RunSteps DEF Moved

-----------------------------------------------------------------------------
(* The coverage check.                                                       *)

LEMMA ReportsKeep ==
    ASSUME ChecksInv, NEW r \in Runs, run[r].at \in Covering,
           NEW outcome \in {"pass", "fail", "skip"},
           outcome = "pass" => Commands \subseteq exercised,
           CovReports(r, outcome),
           app' = app, exercised' = exercised, shards' = shards, manifest'.names \subseteq exercised
    PROVE  ChecksInv'
<1>1. PICK x : x = run[r]
    OBVIOUS
<1>2. RunOK(x) /\ x = [field \in Fields |-> x[field]] /\ app \in Apps
    BY <1>1, RunOf DEF ChecksInv
<1>3. PICK c : c = x.order[x.next]
    OBVIOUS
<1>4. PICK row : row = Row(r, outcome)
    OBVIOUS
<1>5. /\ x.at \in Working /\ x.next <= Len(x.order)
      /\ row \in Results \ {"off", "cascade"}
      /\ outcome # "pass" => row # "pass"
    BY <1>1, <1>3, <1>4, RowsOfCalls DEF Calling
<1>6. PICK w : w = WithRow(x, row)
    OBVIOUS
<1>7. PICK y : y = [w EXCEPT !.covered = {}, !.read = AbsentManifest]
    OBVIOUS
<1>8. run' = [run EXCEPT ![r] = y]
    BY <1>1, <1>4, <1>6, <1>7 DEF CovReports
<1>9. /\ Moved(x, w, "rows") /\ w.next = x.next + 1
      /\ w.rows = [d \in DOMAIN x.rows \cup {c} |-> IF d = c THEN row ELSE x.rows[d]]
      /\ w.failed = IF row \in Lowers THEN x.failed \cup {c} ELSE x.failed
      /\ w.listed = x.listed /\ w.called = x.called /\ w.broke = x.broke
    BY <1>2, <1>3, <1>6 DEF WithRow, Moved, Fields, Lowers
<1>10. /\ Moved(x, y, "rows") /\ y.next = w.next /\ y.rows = w.rows /\ y.failed = w.failed
       /\ y.listed = w.listed /\ y.called = w.called /\ y.broke = w.broke /\ Earned(y)
    BY <1>7, <1>9 DEF Moved, Fields, Earned, AbsentManifest
<1>11. GivesRow(x, y, c, row)
    BY <1>3, <1>5, <1>9, <1>10 DEF GivesRow
<1>12. RunOK(y)
    BY <1>2, <1>5, <1>11, RowsGoOn
<1>13. proc' = Hold(r, None)
    BY DEF CovReports
<1>. QED BY <1>1, <1>8, <1>10, <1>12, <1>13, RunSteps DEF Moved

\* Inside the check: from one stage to the next, with what it has read.
LEMMA StageKeeps ==
    ASSUME ChecksInv, NEW r \in Runs, run[r].at \in Covering,
           NEW at \in Covering, NEW covered, covered \subseteq exercised,
           NEW read, read.names \subseteq covered,
           run' = [run EXCEPT ![r] = [run[r] EXCEPT !.at = at, !.covered = covered, !.read = read]],
           app' = app, proc' = proc, exercised' = exercised, shards' = shards,
           manifest'.names \subseteq exercised
    PROVE  ChecksInv'
<1>1. PICK x : x = run[r]
    OBVIOUS
<1>2. RunOK(x) /\ x = [field \in Fields |-> x[field]]
    BY <1>1, RunOf
<1>3. PICK y : y = [x EXCEPT !.at = at, !.covered = covered, !.read = read]
    OBVIOUS
<1>4. run' = [run EXCEPT ![r] = y]
    BY <1>1, <1>3
<1>5. Moved(x, y, at) /\ y.next = x.next /\ y.rows = x.rows /\ y.failed = x.failed
      /\ y.listed = x.listed /\ y.called = x.called /\ y.broke = x.broke /\ Earned(y)
    BY <1>2, <1>3 DEF Moved, Fields, Earned
<1>6. /\ x.at \in Covering /\ x.at \in Working /\ x.next <= Len(x.order)
      /\ x.order[x.next] = Coverage /\ BuildsOn(x)
    BY <1>1, <1>2 DEF RunOK, GoesByOrder, Covers, Working, Calling
<1>7. at \in Calling /\ at # "awaits"
    BY DEF Calling, Covering
<1>9. BuildsOn(y)
    BY <1>5, <1>6, <1>7 DEF BuildsOn, Clear, Moved, Calling
<1>8. RunOK(y)
    BY <1>2, <1>5, <1>6, <1>7, <1>9, CallGoesOn
<1>. QED BY <1>1, <1>4, <1>5, <1>8, RunSteps DEF Moved

LEMMA CoverageKeeps ==
    ASSUME ChecksInv, NEW r \in Runs,
           CovLook(r) \/ CovRead(r) \/ CovMerge(r) \/ CovCompare(r) \/ CovFill(r)
    PROVE  ChecksInv'
<1>1. PICK x : x = run[r]
    OBVIOUS
<1>2. RunOK(x) /\ x = [field \in Fields |-> x[field]]
    BY <1>1, RunOf
<1>3. x.read.names \subseteq x.covered /\ x.covered \subseteq exercised
    BY <1>2 DEF RunOK, Covers, Earned
<1>4. manifest.names \subseteq exercised /\ shards \subseteq exercised
    BY DEF ChecksInv
<1>5. \A at : [x EXCEPT !.at = at] = [x EXCEPT !.at = at, !.covered = x.covered, !.read = x.read]
    BY <1>2 DEF Fields
<1>6. Verdict(r) \in {"pass", "fail", "skip"} /\ (Verdict(r) = "pass" => Commands \subseteq exercised)
    BY <1>1, <1>3 DEF Verdict
<1>7. CASE CovLook(r)
  <2>1. x.at \in Covering
      BY <1>1, <1>7 DEF CovLook, Covering
  <2>2. app' = app /\ exercised' = exercised /\ shards' = shards /\ manifest'.names \subseteq exercised
      BY <1>4, <1>7 DEF CovLook
  <2>3. CASE manifest = AbsentManifest /\ shards = {}
    <3>1. CovReports(r, "skip")
        BY <1>7, <2>3 DEF CovLook
    <3>. QED BY <1>1, <2>1, <2>2, <3>1, ReportsKeep
  <2>4. CASE ~ (manifest = AbsentManifest /\ shards = {})
    <3>1. PICK at \in {"merge", "read"} : CovMoves(r, at)
        BY <1>7, <2>4 DEF CovLook
    <3>2. run' = [run EXCEPT ![r] = [run[r] EXCEPT !.at = at, !.covered = x.covered, !.read = x.read]]
          /\ proc' = proc
        BY <1>1, <1>5, <3>1 DEF CovMoves, ChecksInv
    <3>3. at \in Covering
        BY <3>1 DEF Covering
    <3>. QED BY <1>1, <1>3, <2>1, <2>2, <3>2, <3>3, StageKeeps
  <2>. QED BY <2>3, <2>4
<1>8. CASE CovRead(r)
  <2>1. x.at \in Covering /\ "merge" \in Covering
      BY <1>1, <1>8 DEF CovRead, Covering
  <2>2. run' = [run EXCEPT ![r] = [run[r] EXCEPT !.at = "merge", !.covered = manifest.names, !.read = manifest]]
      BY <1>8 DEF CovRead, ChecksInv
  <2>3. app' = app /\ proc' = proc /\ exercised' = exercised /\ shards' = shards
        /\ manifest'.names \subseteq exercised
      BY <1>4, <1>8 DEF CovRead
  <2>. QED BY <1>1, <1>4, <2>1, <2>2, <2>3, StageKeeps
<1>9. CASE CovMerge(r)
  <2>1. x.at \in Covering /\ "compare" \in Covering /\ x.at = "merge"
      BY <1>1, <1>9 DEF CovMerge, Covering
  <2>2. run' = [run EXCEPT ![r] = [run[r] EXCEPT !.at = "compare", !.covered = x.covered \cup shards,
                                                 !.read = x.read]]
      BY <1>1, <1>2, <1>9 DEF CovMerge, ChecksInv, Fields
  <2>3. app' = app /\ proc' = proc /\ exercised' = exercised /\ shards' = shards
        /\ manifest'.names \subseteq exercised
      BY <1>4, <1>9 DEF CovMerge
  <2>4. x.read.names \subseteq x.covered \cup shards /\ x.covered \cup shards \subseteq exercised
      BY <1>3, <1>4
  <2>. QED BY <1>1, <2>1, <2>2, <2>3, <2>4, StageKeeps
<1>10. CASE CovCompare(r)
  <2>1. x.at \in Covering /\ "fill" \in Covering /\ x.at = "compare"
      BY <1>1, <1>10 DEF CovCompare, Covering
  <2>2. app' = app /\ exercised' = exercised /\ shards' = shards
      BY <1>10 DEF CovCompare
  <2>3. CASE CovReports(r, Verdict(r)) /\ UNCHANGED manifest
      BY <1>1, <1>4, <1>6, <2>1, <2>2, <2>3, ReportsKeep
  <2>4. CASE CovMoves(r, "fill") /\ manifest' = CutManifest
    <3>1. run' = [run EXCEPT ![r] = [run[r] EXCEPT !.at = "fill", !.covered = x.covered, !.read = x.read]]
          /\ proc' = proc
        BY <1>1, <1>5, <2>4 DEF CovMoves, ChecksInv
    <3>2. manifest'.names \subseteq exercised
        BY <2>4 DEF CutManifest
    <3>. QED BY <1>1, <1>3, <2>1, <2>2, <3>1, <3>2, StageKeeps
  <2>. QED BY <1>10, <2>3, <2>4 DEF CovCompare
<1>11. CASE CovFill(r)
  <2>1. x.at \in Covering
      BY <1>1, <1>11 DEF CovFill, Covering
  <2>2. app' = app /\ exercised' = exercised /\ shards' = shards /\ CovReports(r, Verdict(r))
      BY <1>11 DEF CovFill
  <2>3. manifest'.names \subseteq exercised
      BY <1>1, <1>3, <1>11 DEF CovFill, Manifest
  <2>. QED BY <1>1, <1>6, <2>1, <2>2, <2>3, ReportsKeep
<1>. QED BY <1>7, <1>8, <1>9, <1>10, <1>11

-----------------------------------------------------------------------------
(* A run begins, and what happens around the runs.                           *)

LEMMA EmptyOrder ==
    /\ ToSet(<<>>) = {}
    /\ \A defs : OrderOK(defs, ToSet(<<>>), <<>>) /\ Closed(defs, ToSet(<<>>))
    /\ Len(<<>>) = 0 /\ DOMAIN <<>> = {}
<1>1. ToSet(<<>>) = {} /\ Len(<<>>) = 0 /\ DOMAIN <<>> = {}
    BY DEF ToSet
<1>2. <<>> \in Seq({})
    OBVIOUS
<1>. QED BY <1>1, <1>2 DEF OrderOK, Once, Closed

\* The fields of a run that has decided nothing yet.
Unstarted(y) ==
    /\ y = [field \in Fields |-> y[field]]
    /\ y.next = 1 /\ y.called = <<>> /\ y.rows = <<>> /\ y.failed = {} /\ y.listed = {} /\ y.broke = {}
    /\ y.covered = {} /\ y.read = AbsentManifest

LEMMA NewRunIsOK ==
    ASSUME app \in Apps, NEW y, Unstarted(y), y.at \in {"idle", "over", "refused", "rows"},
           OrderOK(y.known, ToSet(y.order), y.order), Closed(y.known, ToSet(y.order)),
           y.at = "rows" => Select(DOMAIN y.known, y.request) \subseteq ToSet(y.order),
           y.at = "over" => Select(DOMAIN y.known, y.request) = {} /\ y.exit = 0
    PROVE  RunOK(y)
<1>1. y.order \in Seq(ToSet(y.order))
    BY DEF OrderOK
<1>2. Len(y.order) \in Nat /\ y.next = 1 /\ 1 \in 1..(Len(y.order) + 1)
    BY <1>1 DEF Unstarted
<1>3. y.at \in Stages /\ y.at \notin Calling
    BY DEF Stages, Working, Calling, Covering
<1>4. GoesByOrder(y)
    BY <1>2, <1>3 DEF GoesByOrder, Unstarted
<1>5. Through(y) = {} /\ DOMAIN y.rows = {} /\ DOMAIN y.called = {}
    BY <1>2, EmptyOrder DEF Through, Unstarted
<1>6. Records(y)
  <2>1. y.rows = [c \in DOMAIN y.rows |-> y.rows[c]]
    <3>1. <<>> = [c \in {} |-> <<>>[c]]
        OBVIOUS
    <3>. QED BY <3>1, <1>5 DEF Unstarted
  <2>. QED BY <2>1, <1>5 DEF Records, Unstarted
<1>7. BuildsOn(y)
    BY <1>3, <1>5 DEF BuildsOn, Unstarted
<1>8. Accounts(y)
  <2>1. y.at = "over" => ExitCode(y) = 0
      BY <1>5 DEF ExitCode
  <2>2. y.at \in Working => y.at = "rows"
      BY DEF Working, Calling, Covering
  <2>3. Closed(y.known, {})
      BY DEF Closed
  <2>. QED BY <2>1, <2>2, <2>3, <1>5 DEF Accounts
<1>9. Covers(y)
    BY <1>3, <1>5 DEF Covers, Earned, Unstarted, AbsentManifest, Calling
<1>. QED BY <1>4, <1>6, <1>7, <1>8, <1>9 DEF RunOK

LEMMA NoRunIsOK ==
    ASSUME app \in Apps, NEW p, NEW y, y = NoRun(p)
    PROVE  Unstarted(y) /\ y.home = p /\ y.at = "idle" /\ y.order = <<>> /\ RunOK(y)
<1>1. Unstarted(y) /\ y.home = p /\ y.at = "idle" /\ y.order = <<>>
    BY DEF NoRun, Unstarted, Fields
<1>. QED BY <1>1, EmptyOrder, NewRunIsOK

\* The registry holds definitions of the app.
LEMMA MaterializedIsOK ==
    ASSUME app \in Apps, NEW process, ProcOK(process), NEW made, made = Materialize(process)
    PROVE  ProcOK(made.process) /\ DefsOK(made.process.defs)
<1>2. CASE process.memo = process.cwd
    BY <1>2 DEF Materialize, ProcOK
<1>3. CASE process.memo # process.cwd
  <2>1. PICK cwd, specs : cwd = process.cwd /\ specs = app.provided[cwd]
      OBVIOUS
  <2>2. /\ specs \in Seq(app.names \cup {Broken}) /\ cwd \in Cwds
        /\ \A c \in ProvidedIn(cwd) : app.specs[cwd][c] \in Definitions(app.names)
      BY <2>1, AppIsWellFormed DEF ProcOK
  <2>3. \A i \in DOMAIN specs : i \in Nat /\ specs[i] \in app.names \cup {Broken}
                                /\ specs[i] \in ToSet(specs)
      BY <2>2, SeqFacts
  <2>4. PICK added : added = Adds(cwd)
      OBVIOUS
  <2>5. \A c \in added.names : c \in app.names /\ c \in ProvidedIn(cwd)
    <3>. DEFINE bad == {i \in DOMAIN specs :
                    \/ specs[i] = Broken \/ specs[i] \in DOMAIN app.declared
                    \/ \E j \in 1..(i - 1) : specs[j] = specs[i]}
    <3>1. added.names = {specs[i] : i \in {i \in DOMAIN specs : \A j \in bad : i < j}}
        BY <2>1, <2>4 DEF Adds
    <3>2. \A i \in DOMAIN specs : (\A j \in bad : i < j) => specs[i] # Broken
        BY <2>3
    <3>. HIDE DEF bad
    <3>. QED BY <3>1, <3>2, <2>1, <2>3 DEF ProvidedIn
  <2>6. DefsOK(Registered(added.names, cwd))
      BY <2>2, <2>5, AppIsWellFormed DEF DefsOK, Registered
  <2>7. PICK defs, fresh : defs = Registered(added.names, cwd) /\ fresh = [process EXCEPT !.defs = defs]
      OBVIOUS
  <2>8. made = [process |-> IF added.threw THEN fresh ELSE [fresh EXCEPT !.memo = process.cwd],
                threw |-> added.threw]
      BY <1>3, <2>1, <2>4, <2>7 DEF Materialize
  <2>9. ProcOK(fresh)
      BY <2>6, <2>7 DEF ProcOK, ProcFields
  <2>10. ProcOK([fresh EXCEPT !.memo = process.cwd])
      BY <2>9 DEF ProcOK, ProcFields
  <2>11. ProcOK(made.process)
      BY <2>8, <2>9, <2>10
  <2>. QED BY <2>11 DEF ProcOK
<1>. QED BY <1>2, <1>3

LEMMA BeginKeeps ==
    ASSUME ChecksInv, NEW r \in Runs, Begin(r)
    PROVE  ChecksInv'
<1>1. PICK p \in Procs : p = run[r].home
    BY DEF ChecksInv
<1>2. app \in Apps /\ ProcOK(proc[p])
    BY DEF ChecksInv
<1>3. PICK made : made = Materialize(proc[p])
    OBVIOUS
<1>4. ProcOK(made.process) /\ DefsOK(made.process.defs)
    BY <1>2, <1>3, MaterializedIsOK
<1>5. PICK defs : defs = made.process.defs
    OBVIOUS
<1>6. PICK request \in Requests :
        /\ run' = [run EXCEPT ![r] = Outset(p, made, request)]
        /\ proc' = [proc EXCEPT ![p] =
                [made.process EXCEPT
                    !.holder = IF Outset(p, made, request).at = "rows" THEN r ELSE None]]
    BY <1>1, <1>3 DEF Begin, Home
<1>7. PICK selected, checks, order, empty, asked :
        /\ selected = Select(DOMAIN defs, request)
        /\ checks = Needed(defs, selected)
        /\ order = Order(defs, checks)
        /\ empty = NoRun(p)
        /\ asked = [empty EXCEPT !.request = request, !.known = defs, !.cwd = made.process.cwd]
    OBVIOUS
<1>8. PICK y : y = Outset(p, made, request)
    OBVIOUS
<1>9. /\ Unstarted(asked) /\ asked.home = p /\ asked.at = "idle" /\ asked.order = <<>>
      /\ asked.request = request /\ asked.known = defs
  <2>1. Unstarted(empty) /\ empty.home = p /\ empty.at = "idle" /\ empty.order = <<>>
      BY <1>2, <1>7, NoRunIsOK
  <2>. QED BY <2>1, <1>7 DEF Unstarted, Fields
<1>10. selected \subseteq DOMAIN defs
    BY <1>7 DEF Select
<1>11. /\ selected \subseteq checks /\ checks \subseteq Nat /\ IsFiniteSet(checks)
       /\ checks \subseteq DOMAIN defs => Closed(defs, checks)
    BY <1>2, <1>4, <1>5, <1>7, <1>10, NeededIsClosed
<1>12. OrderOK(defs, checks, order) /\ (Len(order) = Cardinality(checks) => ToSet(order) = checks)
    BY <1>7, <1>11, OrderGoesByDeps
<1>13. RunOK(y) /\ y.home = p
  <2>1. CASE y = [asked EXCEPT !.at = "refused", !.exit = 1]
    <3>1. Unstarted(y) /\ y.home = p /\ y.at = "refused" /\ y.order = <<>>
        BY <2>1, <1>9 DEF Unstarted, Fields
    <3>. QED BY <3>1, <1>2, EmptyOrder, NewRunIsOK
  <2>2. CASE selected = {} /\ y = [asked EXCEPT !.at = "over", !.exit = 0]
    <3>1. /\ Unstarted(y) /\ y.home = p /\ y.at = "over" /\ y.order = <<>> /\ y.exit = 0
          /\ y.known = defs /\ y.request = request
        BY <2>2, <1>9 DEF Unstarted, Fields
    <3>3. Select(DOMAIN y.known, y.request) = {}
        BY <3>1, <2>2, <1>7
    <3>. QED BY <3>1, <3>3, <1>2, EmptyOrder, NewRunIsOK
  <2>3. CASE /\ checks \subseteq DOMAIN defs /\ Len(order) = Cardinality(checks)
             /\ y = [asked EXCEPT !.at = "rows", !.order = order]
    <3>1. /\ Unstarted(y) /\ y.home = p /\ y.at = "rows" /\ y.order = order
          /\ y.known = defs /\ y.request = request
        BY <2>3, <1>9 DEF Unstarted, Fields
    <3>2. ToSet(y.order) = checks
        BY <2>3, <3>1, <1>12
    <3>3. /\ OrderOK(y.known, ToSet(y.order), y.order) /\ Closed(y.known, ToSet(y.order))
          /\ Select(DOMAIN y.known, y.request) \subseteq ToSet(y.order)
        BY <2>3, <3>1, <3>2, <1>7, <1>11, <1>12
    <3>. QED BY <3>1, <3>3, <1>2, NewRunIsOK
  <2>4. y = IF made.threw THEN [asked EXCEPT !.at = "refused", !.exit = 1]
            ELSE IF selected = {} THEN [asked EXCEPT !.at = "over", !.exit = 0]
            ELSE IF ~ (checks \subseteq DOMAIN defs) THEN [asked EXCEPT !.at = "refused", !.exit = 1]
            ELSE IF Len(order) = Cardinality(checks) /\ ValuesOK(defs, request, checks)
            THEN [asked EXCEPT !.at = "rows", !.order = order]
            ELSE [asked EXCEPT !.at = "refused", !.exit = 1]
      BY <1>5, <1>7, <1>8 DEF Outset
  <2>. QED BY <2>1, <2>2, <2>3, <2>4
<1>14. app' = app /\ exercised' = exercised /\ shards' = shards /\ manifest' = manifest
    BY DEF Begin
<1>15. proc' = [q \in Procs |-> proc'[q]] /\ \A q \in Procs : ProcOK(proc[q])'
  <2>1. PICK process : process = [made.process EXCEPT !.holder = IF y.at = "rows" THEN r ELSE None]
      OBVIOUS
  <2>2. ProcOK(process)
      BY <2>1, <1>4 DEF ProcOK, ProcFields
  <2>3. proc' = [proc EXCEPT ![p] = process]
      BY <2>1, <1>6, <1>8
  <2>4. proc' = [q \in Procs |-> proc'[q]] /\ \A q \in Procs : proc'[q] = proc[q] \/ proc'[q] = process
      BY <2>3 DEF ChecksInv
  <2>5. \A q \in Procs : ProcOK(proc[q])
      BY DEF ChecksInv
  <2>. QED BY <2>2, <2>4, <2>5, <1>14 DEF ProcOK, Cwds, DefsOK
<1>16. run' = [q \in Runs |-> run'[q]] /\ \A q \in Runs : run'[q] = run[q] \/ run'[q] = y
    BY <1>6, <1>8 DEF ChecksInv
<1>17. ASSUME NEW q \in Runs
       PROVE  run'[q].home \in Procs /\ RunOK(run[q])'
  <2>1. PICK z : z = run'[q]
      OBVIOUS
  <2>2. RunOK(z) /\ z.home \in Procs
      BY <1>13, <1>16, <2>1 DEF ChecksInv
  <2>3. RunOK(z)'
      BY <2>2, <1>14, StillOK
  <2>. QED BY <2>1, <2>2, <2>3
<1>. QED BY <1>14, <1>15, <1>16, <1>17 DEF ChecksInv

LEMMA ProcessKeeps ==
    ASSUME ChecksInv, NEW p \in Procs, Dispatch(p) \/ Chdir(p) \/ Reset(p) \/ Crash(p)
    PROVE  ChecksInv'
<1>1. app' = app /\ manifest' = manifest /\ app \in Apps
    BY DEF Dispatch, Chdir, Reset, Crash, ChecksInv
<1>2. exercised \subseteq exercised' /\ shards' \subseteq exercised' /\ manifest'.names \subseteq exercised'
  <2>1. manifest.names \subseteq exercised /\ shards \subseteq exercised
      BY DEF ChecksInv
  <2>2. CASE Dispatch(p)
    <3>1. PICK c \in Commands, approved \in BOOLEAN :
            /\ exercised' = IF approved \/ c \notin Consequential THEN exercised \cup {c} ELSE exercised
            /\ shards' = IF Consented(c, approved) THEN shards \cup {c} ELSE shards
        BY <2>2 DEF Dispatch
    <3>2. Consented(c, approved) => approved \/ c \notin Consequential
        BY DEF Consented
    <3>3. exercised \subseteq exercised'
        BY <3>1
    <3>4. shards' \subseteq exercised'
      <4>1. CASE Consented(c, approved)
          BY <2>1, <3>1, <3>2, <4>1
      <4>2. CASE ~ Consented(c, approved)
          BY <2>1, <3>1, <3>3, <4>2
      <4>. QED BY <4>1, <4>2
    <3>. QED BY <2>1, <3>3, <3>4, <1>1
  <2>3. CASE Chdir(p) \/ Reset(p) \/ Crash(p)
      BY <2>1, <2>3 DEF Chdir, Reset, Crash
  <2>. QED BY <2>2, <2>3
<1>3. proc' = [q \in Procs |-> proc'[q]] /\ \A q \in Procs : ProcOK(proc[q])'
  <2>1. PICK old : old = proc[p] /\ ProcOK(old)
      BY DEF ChecksInv
  <2>2. \E process : ProcOK(process) /\ proc' = [proc EXCEPT ![p] = process]
    <3>1. CASE Dispatch(p)
        BY <2>1, <3>1 DEF Dispatch, ChecksInv
    <3>2. CASE Chdir(p)
      <4>1. PICK cwd \in Cwds : proc' = [proc EXCEPT ![p].cwd = cwd]
          BY <3>2 DEF Chdir
      <4>2. ProcOK([old EXCEPT !.cwd = cwd])
          BY <2>1 DEF ProcOK, ProcFields
      <4>3. proc' = [proc EXCEPT ![p] = [old EXCEPT !.cwd = cwd]]
          BY <2>1, <4>1
      <4>. QED BY <4>2, <4>3
    <3>3. CASE Reset(p)
      <4>1. PICK dropped : dropped = [old EXCEPT !.defs = app.declared]
          OBVIOUS
      <4>2. ProcOK([dropped EXCEPT !.memo = Nowhere])
          BY <2>1, <4>1, <1>1, AppIsWellFormed DEF ProcOK, ProcFields
      <4>3. proc' = [proc EXCEPT ![p] = [dropped EXCEPT !.memo = Nowhere]]
          BY <2>1, <3>3, <4>1 DEF Reset, Dropped
      <4>. QED BY <4>2, <4>3
    <3>4. CASE Crash(p)
      <4>1. ProcOK(Fresh(old.cwd))
          BY <2>1, <1>1, AppIsWellFormed DEF ProcOK, ProcFields, Fresh
      <4>2. proc' = [proc EXCEPT ![p] = Fresh(old.cwd)]
          BY <2>1, <3>4 DEF Crash
      <4>. QED BY <4>1, <4>2
    <3>. QED BY <3>1, <3>2, <3>3, <3>4
  <2>3. PICK process : ProcOK(process) /\ proc' = [proc EXCEPT ![p] = process]
      BY <2>2
  <2>4. proc' = [q \in Procs |-> proc'[q]] /\ \A q \in Procs : proc'[q] = proc[q] \/ proc'[q] = process
      BY <2>3 DEF ChecksInv
  <2>5. \A q \in Procs : ProcOK(proc[q])
      BY DEF ChecksInv
  <2>. QED BY <2>3, <2>4, <2>5, <1>1 DEF ProcOK, Cwds, DefsOK
<1>4. /\ run' = [q \in Runs |-> run'[q]]
      /\ \A q \in Runs : run'[q] = run[q] \/ (run'[q] = NoRun(p))
    BY DEF Dispatch, Chdir, Reset, Crash, ChecksInv
<1>5. ASSUME NEW q \in Runs
      PROVE  run'[q].home \in Procs /\ RunOK(run[q])'
  <2>1. PICK z : z = run'[q]
      OBVIOUS
  <2>2. RunOK(z) /\ z.home \in Procs
    <3>1. CASE z = run[q]
        BY <3>1 DEF ChecksInv
    <3>2. CASE z = NoRun(p)
        BY <3>2, <1>1, NoRunIsOK
    <3>. QED BY <2>1, <1>4, <3>1, <3>2
  <2>3. RunOK(z)'
      BY <2>2, <1>1, <1>2, StillOK
  <2>. QED BY <2>1, <2>2, <2>3
<1>. QED BY <1>1, <1>2, <1>3, <1>4, <1>5 DEF ChecksInv

LEMMA ChecksStart ==
    ChecksInit => ChecksInv
<1>. SUFFICES ASSUME ChecksInit PROVE ChecksInv
    OBVIOUS
<1>1. app \in Apps /\ manifest.names \subseteq exercised /\ shards \subseteq exercised
    BY DEF ChecksInit
<1>2. proc = [p \in Procs |-> proc[p]] /\ \A p \in Procs : ProcOK(proc[p])
  <2>1. PICK cwd \in Cwds : proc = [p \in Procs |-> Fresh(cwd)]
      BY DEF ChecksInit
  <2>2. ProcOK(Fresh(cwd))
      BY <1>1, AppIsWellFormed DEF ProcOK, ProcFields, Fresh
  <2>. QED BY <2>1, <2>2
<1>3. run = [r \in Runs |-> run[r]] /\ \A r \in Runs : run[r].home \in Procs /\ RunOK(run[r])
  <2>1. PICK home \in [Runs -> Procs] : run = [r \in Runs |-> NoRun(home[r])]
      BY DEF ChecksInit
  <2>2. ASSUME NEW r \in Runs
        PROVE  run[r].home \in Procs /\ RunOK(run[r])
    <3>1. PICK y : y = NoRun(home[r])
        OBVIOUS
    <3>2. y.home \in Procs /\ RunOK(y)
        BY <3>1, <1>1, NoRunIsOK
    <3>. QED BY <2>1, <3>1, <3>2
  <2>. QED BY <2>1, <2>2
<1>. QED BY <1>1, <1>2, <1>3 DEF ChecksInv

\* The invariant: every run goes by an order that puts a check behind all it
\* depends on, has a row or a listing for what it has been through, has called
\* nothing on top of a failure it knew of, and takes as covered what was exercised.
THEOREM ChecksInvHolds ==
    ChecksSpec => []ChecksInv
<1>1. ChecksInit => ChecksInv
    BY ChecksStart
<1>2. ASSUME ChecksInv, [ChecksNext]_checkVars PROVE ChecksInv'
  <2>1. CASE UNCHANGED checkVars
    <3>1. app' = app /\ exercised' = exercised /\ shards' = shards /\ manifest' = manifest
          /\ run' = run /\ proc' = proc
        BY <2>1 DEF checkVars
    <3>2. ASSUME NEW q \in Runs PROVE RunOK(run[q])'
      <4>1. PICK z : z = run'[q]
          OBVIOUS
      <4>2. RunOK(z)
          BY <3>1, <4>1, <1>2 DEF ChecksInv
      <4>3. RunOK(z)'
          BY <3>1, <4>2, StillOK
      <4>. QED BY <4>1, <4>3
    <3>3. \A q \in Procs : ProcOK(proc[q])'
        BY <3>1, <1>2 DEF ChecksInv, ProcOK, Cwds, DefsOK
    <3>. QED BY <3>1, <3>2, <3>3, <1>2 DEF ChecksInv
  <2>2. CASE ChecksNext
    <3>1. CASE \E p \in Procs : Dispatch(p) \/ Chdir(p) \/ Reset(p) \/ Crash(p)
        BY <3>1, <1>2, ProcessKeeps
    <3>2. CASE \E r \in Runs : Begin(r) \/ Pass(r) \/ Gone(r) \/ Call(r) \/ Settle(r) \/ Finish(r)
        BY <3>2, <1>2, BeginKeeps, PassKeeps, GoneKeeps, CallKeeps, SettleKeeps, FinishKeeps
    <3>3. CASE \E r \in Runs : CovLook(r) \/ CovRead(r) \/ CovMerge(r) \/ CovCompare(r) \/ CovFill(r)
        BY <3>3, <1>2, CoverageKeeps
    <3>. QED BY <2>2, <3>1, <3>2, <3>3 DEF ChecksNext
  <2>. QED BY <1>2, <2>1, <2>2
<1>. QED BY <1>1, <1>2, PTL DEF ChecksSpec

Before(state, i) == {state.order[j] : j \in 1..(i - 1)}
Decided(state, i, earlier) ==
    /\ earlier \subseteq DOMAIN state.rows \cup state.listed
    /\ Deps(state.known, state.order[i]) \subseteq earlier
    /\ \A d \in earlier \cap Deps(state.called, state.order[i]) :
            d \in DOMAIN state.rows /\ state.rows[d] \in {"pass", "skip", "warn", "off"}

\* When the function of a check is called, each check before it, and among
\* these all it depended on when the run began, has been decided; and none of
\* them that the definition called depends on failed, was passed over behind a
\* failure, or was left to a run with side effects.  This holds also when the
\* registry was rebuilt with other definitions while the run waited.
THEOREM PreconditionsAlwaysHeld ==
    ChecksSpec => []PreconditionsHeld
<1>1. ChecksInv => PreconditionsHeld
  <2>. SUFFICES ASSUME ChecksInv, NEW r \in Runs, NEW i \in DOMAIN run[r].order,
                       run[r].order[i] \in DOMAIN run[r].called
                PROVE  Decided(run[r], i, Before(run[r], i))
      BY DEF PreconditionsHeld, Decided, Before
  <2>0. PICK earlier : earlier = Before(run[r], i)
      OBVIOUS
  <2>1. PICK x : x = run[r] /\ RunOK(x)
      BY DEF ChecksInv
  <2>2. i <= x.next /\ Clear(x, i)
      BY <2>1 DEF RunOK, BuildsOn
  <2>3. DOMAIN x.order \subseteq Nat /\ i \in Nat /\ x.next \in Nat
        /\ OrderOK(x.known, ToSet(x.order), x.order) /\ Closed(x.known, ToSet(x.order))
    <3>1. /\ x.order \in Seq(ToSet(x.order)) /\ x.next \in 1..(Len(x.order) + 1)
          /\ OrderOK(x.known, ToSet(x.order), x.order) /\ Closed(x.known, ToSet(x.order))
        BY <2>1 DEF RunOK, GoesByOrder, OrderOK
    <3>2. DOMAIN x.order = 1..Len(x.order) /\ Len(x.order) \in Nat
        BY <3>1
    <3>. QED BY <3>1, <3>2, <2>1
  <2>4. earlier \subseteq DOMAIN x.rows \cup x.listed
    <3>1. earlier \subseteq Through(x)
        BY <2>0, <2>1, <2>2, <2>3 DEF Through, Before
    <3>. QED BY <3>1, <2>1 DEF RunOK, Records
  <2>5. Deps(x.known, x.order[i]) \subseteq earlier
    <3>1. x.order[i] \in ToSet(x.order)
        BY <2>1 DEF ToSet
    <3>2. Deps(x.known, x.order[i]) \subseteq ToSet(x.order)
        BY <3>1, <2>3 DEF Closed
    <3>. QED BY <3>2, <2>0, <2>1, <2>3 DEF OrderOK, BehindItsDeps, Before
  <2>6. ASSUME NEW d \in earlier \cap Deps(x.called, x.order[i])
        PROVE  d \in DOMAIN x.rows /\ x.rows[d] \in {"pass", "skip", "warn", "off"}
      BY <2>0, <2>1, <2>2 DEF Clear, Harmless, Before
  <2>. QED BY <2>0, <2>1, <2>4, <2>5, <2>6 DEF Decided
<1>. QED BY <1>1, ChecksInvHolds, PTL

\* A run that is over has accounted for each check it selected and all these
\* need, is green exactly when nothing it ran failed, broke or warned, and in
\* the purity partition has called nothing impure, also when a definition was
\* replaced on the way.
THEOREM RunsAreAccounted ==
    ChecksSpec => []RunIsAccounted
<1>1. ChecksInv => RunIsAccounted
  <2>. SUFFICES ASSUME ChecksInv, NEW r \in Runs, run[r].at = "over"
                PROVE  LET state == run[r]
                           need(S) == \A c \in S : Deps(state.known, c) \subseteq S
                           done == DOMAIN state.rows \cup state.listed
                       IN  /\ Select(DOMAIN state.known, state.request) \subseteq done
                           /\ need(done) /\ DOMAIN state.rows \cap state.listed = {}
                           /\ state.exit = 0 <=>
                                \A c \in Ran(r) : c \notin state.broke /\ state.rows[c] \notin
                                    (IF state.request.failing THEN {"fail"} ELSE {"fail", "warn"})
                           /\ state.request.pure => \A c \in DOMAIN state.called : state.called[c].pure
      BY DEF RunIsAccounted
  <2>. DEFINE x == run[r]
              done == DOMAIN x.rows \cup x.listed
              bad == IF x.request.failing THEN {"fail"} ELSE {"fail", "warn"}
  <2>1. RunOK(x)
      BY DEF ChecksInv
  <2>2. done = Through(x) /\ DOMAIN x.rows \cap x.listed = {}
      BY <2>1 DEF RunOK, Records
  <2>3. Select(DOMAIN x.known, x.request) \subseteq done /\ Closed(x.known, done)
      BY <2>1, <2>2 DEF RunOK, Accounts
  <2>4. Ran(r) = RanIn(x)
      BY DEF Ran, RanIn
  <2>5. x.request.pure => \A c \in DOMAIN x.called : x.called[c].pure
      BY <2>1 DEF RunOK, BuildsOn
  <2>6. x.exit = ExitCode(x) /\ Records(x)
      BY <2>1 DEF RunOK, Accounts
  <2>7. x.exit = 0 <=> ~ \E c \in DOMAIN x.rows : x.rows[c] \in IF x.request.failing THEN {"fail"} ELSE Bad
      BY <2>6 DEF ExitCode
  <2>8. \A c \in x.broke : c \in DOMAIN x.rows /\ x.rows[c] = "fail"
      BY <2>6 DEF Records
  <2>9. CASE x.request.failing
    <3>1. x.exit = 0 <=> \A c \in DOMAIN x.rows : x.rows[c] # "fail"
        BY <2>7, <2>9
    <3>2. (\A c \in DOMAIN x.rows : x.rows[c] # "fail")
            <=> \A c \in RanIn(x) : c \notin x.broke /\ x.rows[c] # "fail"
        BY <2>8 DEF RanIn
    <3>3. x.exit = 0 <=> \A c \in Ran(r) : c \notin x.broke /\ x.rows[c] \notin bad
        BY <3>1, <3>2, <2>4, <2>9
    <3>. QED BY <2>2, <2>3, <2>5, <3>3 DEF Closed
  <2>10. CASE ~ x.request.failing
    <3>1. x.exit = 0 <=> \A c \in DOMAIN x.rows : x.rows[c] \notin {"fail", "warn", "cascade"}
        BY <2>7, <2>10 DEF Bad
    <3>2. (\E c \in DOMAIN x.rows : x.rows[c] = "cascade") => \E c \in DOMAIN x.rows : x.rows[c] = "fail"
        BY <2>6 DEF Records
    <3>3. (\A c \in DOMAIN x.rows : x.rows[c] \notin {"fail", "warn", "cascade"})
            <=> \A c \in RanIn(x) : c \notin x.broke /\ x.rows[c] \notin {"fail", "warn"}
        BY <3>2, <2>8 DEF RanIn
    <3>4. x.exit = 0 <=> \A c \in Ran(r) : c \notin x.broke /\ x.rows[c] \notin bad
        BY <3>1, <3>3, <2>4, <2>10
    <3>. QED BY <2>2, <2>3, <2>5, <3>4 DEF Closed
  <2>. QED BY <2>9, <2>10
<1>. QED BY <1>1, ChecksInvHolds, PTL

\* Only the run itself ends its rewrite of the manifest.
LEMMA RewritesEndInFill ==
    ASSUME ChecksInv, ChecksNext, NEW r \in Runs, run[r].at = "fill", run'[r].at = "rows"
    PROVE  manifest' = Manifest(run[r].covered)
<1>1. run = [q \in Runs |-> run[q]]
    BY DEF ChecksInv
<1>2. CASE CovFill(r)
    BY <1>2 DEF CovFill
<1>3. CASE Begin(r) \/ Pass(r) \/ Gone(r) \/ Call(r) \/ Settle(r) \/ Finish(r)
        \/ CovLook(r) \/ CovRead(r) \/ CovMerge(r) \/ CovCompare(r)
    BY <1>3 DEF Begin, Pass, Gone, Call, Settle, Finish, Turn, CovLook, CovRead, CovMerge, CovCompare
<1>4. ASSUME run'[r] = run[r] \/ \E p \in Procs : run'[r] = NoRun(p)
      PROVE  FALSE
  <2>1. \A p \in Procs : NoRun(p).at = "idle"
      BY DEF NoRun
  <2>2. run'[r].at = "fill" \/ run'[r].at = "idle"
      BY <1>4, <2>1
  <2>. QED BY <2>2
<1>5. CASE \E p \in Procs : Dispatch(p) \/ Chdir(p) \/ Reset(p) \/ Crash(p)
    BY <1>1, <1>4, <1>5 DEF Dispatch, Chdir, Reset, Crash
<1>6. ASSUME NEW q \in Runs, q # r,
             Begin(q) \/ Pass(q) \/ Gone(q) \/ Call(q) \/ Settle(q) \/ Finish(q)
             \/ CovLook(q) \/ CovRead(q) \/ CovMerge(q) \/ CovCompare(q) \/ CovFill(q)
      PROVE  FALSE
  <2>1. \E y : run' = [run EXCEPT ![q] = y]
    <3>1. CASE Begin(q)
        BY <3>1 DEF Begin
    <3>2. CASE Pass(q)
        BY <3>2 DEF Pass
    <3>3. CASE Gone(q)
      <4>1. PICK y : y = [run[q] EXCEPT !.at = "refused", !.exit = 1]
          OBVIOUS
      <4>2. run' = [run EXCEPT ![q] = y]
          BY <1>1, <3>3, <4>1 DEF Gone
      <4>. QED BY <4>2
    <3>4. CASE Call(q)
        BY <3>4 DEF Call
    <3>5. CASE Settle(q)
        BY <3>5 DEF Settle
    <3>6. CASE Finish(q)
      <4>1. PICK y : y = [run[q] EXCEPT !.at = "over", !.exit = ExitCode(run[q])]
          OBVIOUS
      <4>2. run' = [run EXCEPT ![q] = y]
          BY <1>1, <3>6, <4>1 DEF Finish
      <4>. QED BY <4>2
    <3>7. ASSUME NEW outcome, CovReports(q, outcome)
          PROVE  \E y : run' = [run EXCEPT ![q] = y]
        BY <3>7 DEF CovReports
    <3>8. ASSUME NEW at, CovMoves(q, at)
          PROVE  \E y : run' = [run EXCEPT ![q] = y]
        BY <3>8 DEF CovMoves
    <3>9. CASE CovLook(q)
        BY <3>7, <3>8, <3>9 DEF CovLook
    <3>10. CASE CovRead(q)
      <4>1. PICK y : y = [run[q] EXCEPT !.at = "merge", !.covered = manifest.names, !.read = manifest]
          OBVIOUS
      <4>2. run' = [run EXCEPT ![q] = y]
          BY <1>1, <3>10, <4>1 DEF CovRead
      <4>. QED BY <4>2
    <3>11. CASE CovMerge(q)
      <4>1. PICK y : y = [run[q] EXCEPT !.at = "compare", !.covered = @ \cup shards]
          OBVIOUS
      <4>2. run' = [run EXCEPT ![q] = y]
          BY <1>1, <3>11, <4>1 DEF CovMerge
      <4>. QED BY <4>2
    <3>12. CASE CovCompare(q)
        BY <3>7, <3>8, <3>12 DEF CovCompare
    <3>13. CASE CovFill(q)
        BY <3>7, <3>13 DEF CovFill
    <3>. QED BY <1>6, <3>1, <3>2, <3>3, <3>4, <3>5, <3>6, <3>9, <3>10, <3>11, <3>12, <3>13
  <2>2. run'[r] = run[r]
      BY <1>1, <1>6, <2>1
  <2>. QED BY <2>2, <1>4
<1>. QED BY <1>2, <1>3, <1>5, <1>6 DEF ChecksNext

\* The manifest, and a verdict of full coverage, name only commands that were
\* dispatched under test or committed, whatever processes run, overlap or die;
\* a rewrite loses a name only when the manifest was not what its run had read.
THEOREM ManifestOnlyEarned ==
    ChecksSpec => ManifestIsEarned
<1>. DEFINE Earns ==
        /\ manifest'.names \subseteq exercised'
        /\ \A r \in Runs :
            /\ (run[r].at = "fill" /\ run'[r].at = "rows") =>
                    run[r].read.names \subseteq manifest'.names
            /\ (Coverage \in DOMAIN run'[r].rows /\ run'[r].rows[Coverage] = "pass") =>
                    Commands \subseteq exercised'
<1>1. ASSUME ChecksInv, ChecksInv', [ChecksNext]_checkVars
      PROVE  [Earns]_checkVars
  <2>. SUFFICES ASSUME ChecksNext PROVE Earns
      BY <1>1
  <2>1. manifest'.names \subseteq exercised'
      BY <1>1 DEF ChecksInv
  <2>2. ASSUME NEW r \in Runs, run[r].at = "fill", run'[r].at = "rows"
        PROVE  run[r].read.names \subseteq manifest'.names
    <3>1. manifest' = Manifest(run[r].covered)
        BY <1>1, <2>2, RewritesEndInFill
    <3>2. run[r].read.names \subseteq run[r].covered
        BY <1>1 DEF ChecksInv, RunOK, Covers, Earned
    <3>. QED BY <3>1, <3>2 DEF Manifest
  <2>3. ASSUME NEW r \in Runs, Coverage \in DOMAIN run'[r].rows, run'[r].rows[Coverage] = "pass"
        PROVE  Commands \subseteq exercised'
    <3>1. Covers(run[r])'
        BY <1>1 DEF ChecksInv, RunOK
    <3>. QED BY <2>3, <3>1 DEF Covers
  <2>. QED BY <2>1, <2>2, <2>3
<1>2. ChecksInv /\ ChecksInv' /\ [ChecksNext]_checkVars => [Earns]_checkVars
    BY <1>1
<1>3. ChecksSpec => [][Earns]_checkVars
  <2>. HIDE DEF Earns
  <2>. QED BY <1>2, ChecksInvHolds, PTL DEF ChecksSpec
<1>. QED BY <1>3 DEF ManifestIsEarned
=============================================================================
