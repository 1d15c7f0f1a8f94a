---------------------------- MODULE TraceProofs -----------------------------
(***************************************************************************)
(* Theorems about the process trace store, for any number of processes,    *)
(* any length of an hour and any threshold.                                *)
(*                                                                         *)
(* Only AppendEntry writes lines and only StartChild sets a variable, so   *)
(* both arguments are about those two: the line is clamped to the label it *)
(* is written under, however old the choice of that label is, and a child  *)
(* that somebody is about to start does not run, and is nobody else's.     *)
(***************************************************************************)
EXTENDS TraceStore, FiniteSetTheorems, TLAPS

-----------------------------------------------------------------------------
(* Lemmas about the operators.                                             *)

LEMMA LabelTypes ==
    ASSUME NEW ms \in Nat
    PROVE  LabelOf(ms) \in Nat
BY SizesAssumption DEF LabelOf

LEMMA StartsTypes ==
    ASSUME NEW l \in Nat
    PROVE  Starts(l) \in Nat
BY SizesAssumption DEF Starts

LEMMA ClampedAfter ==
    ASSUME NEW ms \in Nat, NEW l \in Nat
    PROVE  Clamped(ms, l) \in Nat /\ Clamped(ms, l) >= Starts(l)
BY StartsTypes DEF Clamped

LEMMA RecordedTypes ==
    ASSUME NEW v \in Variable
    PROVE  Recorded(v) \in Variable
BY DEF Recorded, Variable, Unset

LEMMA ValueTypes == Unset \in Variable /\ Foreign \in Variable /\ Invalid \in Variable
BY DEF Variable, Unset, Foreign, Invalid

\* A file is created empty; the others stay as they are.
LEMMA CreatedFile ==
    ASSUME TraceTypeOK, NEW l \in Nat
    PROVE  /\ DOMAIN WithFile(l) = DOMAIN files \cup {l}
           /\ \A k \in DOMAIN WithFile(l) :
                 /\ WithFile(l)[k] \in Seq(DOMAIN issued)
                 /\ k \in DOMAIN files => WithFile(l)[k] = files[k]
                 /\ k \notin DOMAIN files => WithFile(l)[k] = << >>
<1>1. DOMAIN WithFile(l) = DOMAIN files \cup {l}
  BY DEF WithFile
<1>2. << >> \in Seq(DOMAIN issued)
  OBVIOUS
<1>3. ASSUME NEW k \in DOMAIN files \cup {l}
      PROVE  WithFile(l)[k] = IF k \in DOMAIN files THEN files[k] ELSE << >>
  BY DEF WithFile
<1>4. \A k \in DOMAIN files : files[k] \in Seq(DOMAIN issued)
  BY DEF TraceTypeOK
<1> QED
  BY <1>1, <1>2, <1>3, <1>4

-----------------------------------------------------------------------------
(* Classes of steps.                                                       *)

\* What may happen to the files and to the entries.
Deleted ==
    /\ UNCHANGED issued
    /\ \A l \in DOMAIN files' : l \in DOMAIN files /\ files'[l] = files[l]
Created ==
    /\ UNCHANGED issued
    /\ \E l \in Nat : files' = WithFile(l)
Appended(p) ==
    LET t == task[p] IN
    /\ issued' = Append(issued, [writer |-> p, child |-> t.child,
                                 ms |-> Clamped(t.ms, t.label),
                                 parent |-> Recorded(inherited[p])])
    /\ files' = [WithFile(t.label) EXCEPT ![t.label] = Append(@, Len(issued) + 1)]

LEMMA TaskTypes ==
    ASSUME TraceTypeOK, NEW p \in Procs, task[p] # Idle
    PROVE  /\ task[p] \in Task
           /\ task[p].child \in Procs /\ task[p].ms \in Nat /\ task[p].label \in Nat
BY DEF TraceTypeOK, Task

LEMMA AtTypes ==
    ASSUME TraceTypeOK, NEW p \in Procs, NEW s, At(p, s), s # "idle"
    PROVE  /\ task[p] \in Task /\ p \in started
           /\ task[p].child \in Procs /\ task[p].ms \in Nat /\ task[p].label \in Nat
<1>1. task[p] # Idle
  BY DEF At, Idle
<1> QED
  BY <1>1, TaskTypes DEF At

LEMMA StoreClasses ==
    ASSUME TraceTypeOK, [TraceNext]_vars
    PROVE  \/ Deleted
           \/ Created
           \/ \E p \in started : At(p, "append") /\ Appended(p)
<1>1. CASE UNCHANGED <<files, issued>>
  BY <1>1 DEF Deleted
<1>2. ASSUME NEW p \in Procs, Create(p)
      PROVE  Deleted \/ Created
  <2>1. task[p].label \in Nat
    BY <1>2, AtTypes DEF Create
  <2> QED
    BY <1>2, <2>1 DEF Create, Deleted, Created, treeVars
<1>3. ASSUME NEW p \in Procs, AppendEntry(p)
      PROVE  At(p, "append") /\ p \in started /\ Appended(p)
  BY <1>3 DEF AppendEntry, Appended, At
<1>4. CASE DeleteStore
  BY <1>4 DEF DeleteStore, Deleted, treeVars
<1>5. ASSUME NEW l \in DOMAIN files, Prune(l)
      PROVE  Deleted
  BY <1>5 DEF Prune, Deleted, treeVars
<1>6. ASSUME NEW p \in Procs, NEW c \in Procs, Begin(p, c)
      PROVE  UNCHANGED <<files, issued>>
  BY <1>6 DEF Begin, treeVars
<1>7. ASSUME NEW p \in Procs, List(p) \/ Stat(p) \/ Fail(p)
      PROVE  UNCHANGED <<files, issued>>
  BY <1>7 DEF List, Stat, Fail, storeVars, treeVars
<1>8. CASE Tick \/ SetBack \/ UNCHANGED vars
  BY <1>1, <1>8 DEF Tick, SetBack, vars, storeVars, treeVars
<1>9. ASSUME NEW p \in Procs, Write(p)
      PROVE  \/ Deleted
             \/ Created
             \/ At(p, "append") /\ p \in started /\ Appended(p)
  BY <1>2, <1>3, <1>6, <1>7, <1>9 DEF Write, Deleted
<1> QED
  BY <1>4, <1>5, <1>8, <1>9 DEF TraceNext

\* What may happen to the environment of a process: a child that is not
\* running yet is started with its own entry, or with nothing.
Born(p) ==
    LET c == task[p].child IN
    /\ started' = started \cup {c}
    /\ starter' = [starter EXCEPT ![c] = p]
    /\ \/ inherited' = [inherited EXCEPT ![c] = Unset] /\ UNCHANGED issued
       \/ /\ inherited' = [inherited EXCEPT ![c] = [kind |-> "entry", id |-> Len(issued) + 1]]
          /\ Appended(p)

LEMMA BirthSteps ==
    ASSUME TraceTypeOK, [TraceNext]_vars
    PROVE  \/ UNCHANGED <<started, starter, inherited>>
           \/ \E p \in started : task[p] # Idle /\ Born(p)
<1>1. ASSUME NEW p \in Procs, Fail(p)
      PROVE  \/ UNCHANGED <<started, starter, inherited>>
             \/ p \in started /\ task[p] # Idle /\ Born(p)
  <2>1. p \in started /\ task[p] # Idle /\ StartChild(p, Unset) /\ UNCHANGED issued
    BY <1>1 DEF Fail, At, Idle
  <2> QED
    BY <2>1 DEF StartChild, Born, Compose
<1>2. ASSUME NEW p \in Procs, AppendEntry(p)
      PROVE  \/ UNCHANGED <<started, starter, inherited>>
             \/ p \in started /\ task[p] # Idle /\ Born(p)
  <2>1. /\ p \in started /\ task[p] # Idle
        /\ StartChild(p, [kind |-> "entry", id |-> Len(issued) + 1])
        /\ Appended(p)
    BY <1>2 DEF AppendEntry, Appended, At, Idle
  <2> QED
    BY <2>1 DEF StartChild, Born, Compose
<1>3. ASSUME NEW p \in Procs, NEW c \in Procs, Begin(p, c)
      PROVE  UNCHANGED <<started, starter, inherited>>
  BY <1>3 DEF Begin, treeVars
<1>4. ASSUME NEW p \in Procs, List(p) \/ Stat(p) \/ Create(p)
      PROVE  UNCHANGED <<started, starter, inherited>>
  BY <1>4 DEF List, Stat, Create, treeVars
<1>5. CASE Tick \/ SetBack \/ DeleteStore \/ UNCHANGED vars
  BY <1>5 DEF Tick, SetBack, DeleteStore, vars, treeVars
<1>6. CASE \E l \in DOMAIN files : Prune(l)
  BY <1>6 DEF Prune, treeVars
<1> QED
  BY <1>1, <1>2, <1>3, <1>4, <1>5, <1>6 DEF TraceNext, Write

-----------------------------------------------------------------------------
(* The type of the state.                                                  *)

LEMMA AppendedTypes ==
    ASSUME TraceTypeOK, NEW p \in Procs, task[p] # Idle, Appended(p)
    PROVE  /\ issued' \in Seq(Entry)
           /\ DOMAIN issued' = DOMAIN issued \cup {Len(issued) + 1}
           /\ Len(issued) + 1 \in Nat /\ Len(issued) + 1 \notin DOMAIN issued
           /\ \A i \in DOMAIN issued : issued'[i] = issued[i]
           /\ issued'[Len(issued) + 1] =
                 [writer |-> p, child |-> task[p].child,
                  ms |-> Clamped(task[p].ms, task[p].label),
                  parent |-> Recorded(inherited[p])]
<1> DEFINE new == [writer |-> p, child |-> task[p].child,
                   ms |-> Clamped(task[p].ms, task[p].label),
                   parent |-> Recorded(inherited[p])]
<1>1. task[p].child \in Procs /\ task[p].ms \in Nat /\ task[p].label \in Nat
  BY TaskTypes
<1>2. inherited[p] \in Variable
  BY DEF TraceTypeOK
<1>3. new \in Entry
  BY <1>1, <1>2, ClampedAfter, RecordedTypes DEF Entry
<1>4. issued' = Append(issued, new) /\ issued \in Seq(Entry)
  BY DEF Appended, TraceTypeOK
<1> HIDE DEF new
<1>5. /\ issued' \in Seq(Entry)
      /\ DOMAIN issued' = DOMAIN issued \cup {Len(issued) + 1}
      /\ Len(issued) + 1 \in Nat /\ Len(issued) + 1 \notin DOMAIN issued
      /\ \A i \in DOMAIN issued : issued'[i] = issued[i]
      /\ issued'[Len(issued) + 1] = new
  BY <1>3, <1>4
<1> QED
  BY <1>5 DEF new

\* The files after a line has been appended to one of them.
LEMMA AppendedFile ==
    ASSUME TraceTypeOK, NEW p \in Procs, task[p] # Idle, Appended(p)
    PROVE  /\ DOMAIN files' = DOMAIN files \cup {task[p].label}
           /\ \A l \in DOMAIN files' :
                 \/ l \in DOMAIN files /\ files'[l] = files[l]
                 \/ /\ l = task[p].label
                    /\ \E s \in Seq(DOMAIN issued) :
                          /\ s = << >> \/ (l \in DOMAIN files /\ s = files[l])
                          /\ files'[l] = Append(s, Len(issued) + 1)
<1>1. task[p].label \in Nat
  BY TaskTypes
<1>2. PICK l : l = task[p].label
  OBVIOUS
<1>3. PICK w : w = WithFile(l)
  OBVIOUS
<1>4. /\ DOMAIN w = DOMAIN files \cup {l}
      /\ \A k \in DOMAIN w :
            /\ w[k] \in Seq(DOMAIN issued)
            /\ k \in DOMAIN files => w[k] = files[k]
            /\ k \notin DOMAIN files => w[k] = << >>
  BY <1>1, <1>2, <1>3, CreatedFile
<1>5. files' = [w EXCEPT ![l] = Append(@, Len(issued) + 1)]
  BY <1>2, <1>3 DEF Appended
<1>6. DOMAIN files' = DOMAIN files \cup {l}
  BY <1>4, <1>5
<1>7. files'[l] = Append(w[l], Len(issued) + 1) /\ w[l] \in Seq(DOMAIN issued)
  BY <1>4, <1>5
<1>8. \A k \in DOMAIN files : k # l => files'[k] = files[k]
  BY <1>4, <1>5
<1>9. w[l] = << >> \/ (l \in DOMAIN files /\ w[l] = files[l])
  BY <1>4
<1> QED
  BY <1>2, <1>6, <1>7, <1>8, <1>9

LEMMA FilesTyped ==
    ASSUME TraceTypeOK, [TraceNext]_vars
    PROVE  /\ DOMAIN files' \subseteq Nat
           /\ \A l \in DOMAIN files' : files'[l] \in Seq(DOMAIN issued')
           /\ issued' \in Seq(Entry)
<1>1. /\ DOMAIN files \subseteq Nat /\ issued \in Seq(Entry)
      /\ \A l \in DOMAIN files : files[l] \in Seq(DOMAIN issued)
  BY DEF TraceTypeOK
<1>2. CASE Deleted
  BY <1>1, <1>2 DEF Deleted
<1>3. CASE Created
  BY <1>1, <1>3, CreatedFile DEF Created
<1>4. ASSUME NEW p \in started, At(p, "append"), Appended(p)
      PROVE  /\ DOMAIN files' \subseteq Nat
             /\ \A l \in DOMAIN files' : files'[l] \in Seq(DOMAIN issued')
             /\ issued' \in Seq(Entry)
  <2>1. p \in Procs /\ task[p] # Idle /\ task[p].label \in Nat
    BY <1>4, AtTypes DEF TraceTypeOK, At, Idle
  <2>2. /\ issued' \in Seq(Entry) /\ DOMAIN issued \subseteq DOMAIN issued'
        /\ Len(issued) + 1 \in DOMAIN issued'
    BY <1>4, <2>1, AppendedTypes
  <2>3. Seq(DOMAIN issued) \subseteq Seq(DOMAIN issued')
    BY <2>2
  <2>4. ASSUME NEW s \in Seq(DOMAIN issued)
        PROVE  Append(s, Len(issued) + 1) \in Seq(DOMAIN issued')
    BY <2>2, <2>3
  <2> QED
    BY <1>1, <1>4, <2>1, <2>2, <2>3, <2>4, AppendedFile
<1> QED
  BY <1>2, <1>3, <1>4, StoreClasses

LEMMA TreeTyped ==
    ASSUME TraceTypeOK, [TraceNext]_vars
    PROVE  /\ started' \subseteq Procs /\ starter' \in [Procs -> Procs]
           /\ inherited' \in [Procs -> Variable]
<1>1. /\ started \subseteq Procs /\ starter \in [Procs -> Procs]
      /\ inherited \in [Procs -> Variable] /\ Len(issued) + 1 \in Nat
  BY DEF TraceTypeOK
<1>2. ASSUME NEW p \in started, task[p] # Idle, Born(p)
      PROVE  /\ started' \subseteq Procs /\ starter' \in [Procs -> Procs]
             /\ inherited' \in [Procs -> Variable]
  <2>1. PICK c : c = task[p].child
    OBVIOUS
  <2>2. c \in Procs /\ p \in Procs
    BY <1>1, <1>2, <2>1, TaskTypes
  <2>3. [kind |-> "entry", id |-> Len(issued) + 1] \in Variable
    BY <1>1 DEF Variable
  <2> QED
    BY <1>1, <1>2, <2>1, <2>2, <2>3, ValueTypes DEF Born
<1> QED
  BY <1>1, <1>2, BirthSteps

LEMMA TaskTyped ==
    ASSUME TraceTypeOK, [TraceNext]_vars
    PROVE  task' \in [Procs -> Task \cup {Idle}]
<1>1. task \in [Procs -> Task \cup {Idle}] /\ now \in Nat /\ DOMAIN files \subseteq Nat
  BY DEF TraceTypeOK
<1>2. ASSUME NEW p \in Procs, NEW c \in Procs, Begin(p, c)
      PROVE  task' \in [Procs -> Task \cup {Idle}]
  <2>1. [step |-> "list", child |-> c, ms |-> now, label |-> 0] \in Task
    BY <1>1 DEF Task
  <2> QED
    BY <1>1, <1>2, <2>1 DEF Begin
<1>3. ASSUME NEW p \in Procs, task[p] \in Task, NEW l \in Nat,
             NEW s \in {"list", "stat", "create", "append"}, Goto(p, s, l)
      PROVE  task' \in [Procs -> Task \cup {Idle}]
  <2>1. [task[p] EXCEPT !.step = s, !.label = l] \in Task
    BY <1>3 DEF Task
  <2>2. task' = [task EXCEPT ![p] = [task[p] EXCEPT !.step = s, !.label = l]]
    BY <1>1, <1>3 DEF Goto
  <2> QED
    BY <1>1, <2>1, <2>2
<1>4. ASSUME NEW p \in Procs, List(p)
      PROVE  task' \in [Procs -> Task \cup {Idle}]
  <2>1. task[p] \in Task /\ LabelOf(task[p].ms) \in Nat
    BY <1>4, AtTypes, LabelTypes DEF List
  <2>2. \/ Goto(p, "create", LabelOf(task[p].ms))
        \/ \E active \in DOMAIN files : Goto(p, "stat", active) \/ Goto(p, "append", active)
    BY <1>4 DEF List
  <2> QED
    BY <1>1, <1>3, <2>1, <2>2
<1>5. ASSUME NEW p \in Procs, Stat(p) \/ Create(p)
      PROVE  task' \in [Procs -> Task \cup {Idle}]
  <2>1. task[p] \in Task /\ LabelOf(task[p].ms) \in Nat /\ task[p].label \in Nat
    BY <1>5, AtTypes, LabelTypes DEF Stat, Create
  <2>2. \/ Goto(p, "create", LabelOf(task[p].ms))
        \/ Goto(p, "append", task[p].label)
    BY <1>5 DEF Stat, Create
  <2> QED
    BY <1>3, <2>1, <2>2
<1>6. ASSUME NEW p \in Procs, AppendEntry(p) \/ Fail(p)
      PROVE  task' \in [Procs -> Task \cup {Idle}]
  <2>1. task' = [task EXCEPT ![p] = Idle]
    BY <1>6 DEF AppendEntry, Fail, StartChild
  <2> QED
    BY <1>1, <2>1
<1>7. CASE Tick \/ SetBack \/ DeleteStore \/ UNCHANGED vars
  BY <1>1, <1>7 DEF Tick, SetBack, DeleteStore, vars
<1>8. CASE \E l \in DOMAIN files : Prune(l)
  BY <1>1, <1>8 DEF Prune
<1> QED
  BY <1>2, <1>4, <1>5, <1>6, <1>7, <1>8 DEF TraceNext, Write

LEMMA MachineTyped ==
    ASSUME TraceTypeOK, [TraceNext]_vars
    PROVE  /\ now' \in Nat /\ setBack' \in BOOLEAN /\ mishaps' \in Nat
           /\ store' \in BOOLEAN /\ marker' \in BOOLEAN
<1>1. /\ now \in Nat /\ setBack \in BOOLEAN /\ mishaps \in Nat
      /\ store \in BOOLEAN /\ marker \in BOOLEAN
  BY DEF TraceTypeOK
<1> DEFINE Typed == /\ now' \in Nat /\ setBack' \in BOOLEAN /\ mishaps' \in Nat
                    /\ store' \in BOOLEAN /\ marker' \in BOOLEAN
<1>2. ASSUME Mishap
      PROVE  mishaps' \in Nat
  BY <1>1, <1>2 DEF Mishap
<1>3. ASSUME NEW p \in Procs, NEW c \in Procs, Begin(p, c)
      PROVE  Typed
  BY <1>1, <1>3 DEF Begin, machineVars, clockVars
<1>4. ASSUME NEW p \in Procs, List(p) \/ Stat(p) \/ Create(p) \/ AppendEntry(p)
      PROVE  Typed
  BY <1>1, <1>4 DEF List, Stat, Create, AppendEntry, machineVars, clockVars, storeVars
<1>5. ASSUME NEW p \in Procs, Fail(p)
      PROVE  Typed
  <2>1. mishaps' \in Nat
    BY <1>1, <1>2, <1>5 DEF Fail
  <2>2. marker' \in {marker, marker \/ store} /\ UNCHANGED <<now, setBack, store>>
    BY <1>5 DEF Fail, clockVars
  <2>3. marker \/ store \in BOOLEAN
    BY <1>1
  <2>4. marker' \in BOOLEAN
    BY <1>1, <2>2, <2>3
  <2> QED
    BY <1>1, <2>1, <2>2, <2>4
<1>6. CASE Tick
  BY <1>1, <1>6 DEF Tick, storeVars
<1>7. CASE SetBack
  <2>1. now' \in 0 .. now - 1 /\ setBack' = TRUE /\ UNCHANGED <<store, marker>>
    BY <1>7 DEF SetBack, storeVars
  <2> QED
    BY <1>1, <1>2, <1>7, <2>1 DEF SetBack
<1>8. CASE DeleteStore
  BY <1>1, <1>2, <1>8 DEF DeleteStore, clockVars
<1>9. ASSUME NEW l \in DOMAIN files, Prune(l)
      PROVE  Typed
  BY <1>1, <1>2, <1>9 DEF Prune, clockVars
<1>10. CASE UNCHANGED vars
  BY <1>1, <1>10 DEF vars, machineVars, clockVars, storeVars
<1> QED
  BY <1>3, <1>4, <1>5, <1>6, <1>7, <1>8, <1>9, <1>10 DEF TraceNext, Write

LEMMA InitTyped ==
    ASSUME TraceInit
    PROVE  TraceTypeOK
<1>1. inherited \in [Procs -> Variable]
  BY ValueTypes, RootEnvAssumption, RootsAssumption DEF TraceInit
<1>2. task \in [Procs -> Task \cup {Idle}] /\ starter \in [Procs -> Procs]
  BY DEF TraceInit
<1>3. files = << >> /\ issued = << >>
  BY DEF TraceInit
<1>4. DOMAIN files = {} /\ issued \in Seq(Entry)
  BY <1>3
<1> QED
  BY <1>1, <1>2, <1>4, RootsAssumption DEF TraceInit, TraceTypeOK

LEMMA TypedStep == TraceTypeOK /\ [TraceNext]_vars => TraceTypeOK'
BY FilesTyped, TreeTyped, TaskTyped, MachineTyped DEF TraceTypeOK

\* The state of the store and of its writers keeps its type: labels, instants
\* and identifiers are natural numbers, and every line names an entry
\* (traceWriteEntry() with the calls it makes).
THEOREM TraceTypeCorrect == TraceSpec => []TraceTypeOK
BY InitTyped, TypedStep, PTL DEF TraceSpec

-----------------------------------------------------------------------------
(* No line is older than the label of its file.                            *)

LEMMA LabelStep ==
    ASSUME TraceTypeOK, NeverBeforeLabel, [TraceNext]_vars
    PROVE  NeverBeforeLabel'
<1>1. /\ DOMAIN files \subseteq Nat
      /\ \A l \in DOMAIN files : files[l] \in Seq(DOMAIN issued)
  BY DEF TraceTypeOK
<1>2. \A l \in DOMAIN files : \A i \in DOMAIN files[l] :
         issued[files[l][i]].ms >= Starts(l)
  BY DEF NeverBeforeLabel
<1>3. CASE Deleted
  <2>1. \A l \in DOMAIN files' : \A i \in DOMAIN files'[l] :
           issued'[files'[l][i]].ms >= Starts(l)
    BY <1>2, <1>3 DEF Deleted
  <2> QED
    BY <2>1 DEF NeverBeforeLabel, Starts
<1>4. CASE Created
  <2>1. PICK k \in Nat : files' = WithFile(k)
    BY <1>4 DEF Created
  <2>2. ASSUME NEW l \in DOMAIN files'
        PROVE  (l \in DOMAIN files /\ files'[l] = files[l]) \/ files'[l] = << >>
    BY <2>1, <2>2, CreatedFile
  <2>3. \A l \in DOMAIN files' : \A i \in DOMAIN files'[l] :
           issued'[files'[l][i]].ms >= Starts(l)
    BY <1>2, <1>4, <2>2 DEF Created
  <2> QED
    BY <2>3 DEF NeverBeforeLabel, Starts
<1>5. ASSUME NEW p \in started, At(p, "append"), Appended(p)
      PROVE  NeverBeforeLabel'
  <2>1. p \in Procs /\ task[p] # Idle /\ task[p].label \in Nat /\ task[p].ms \in Nat
    BY <1>5, AtTypes DEF TraceTypeOK, At, Idle
  <2>2. PICK id : id = Len(issued) + 1
    OBVIOUS
  <2>3. /\ id \notin DOMAIN issued
        /\ \A i \in DOMAIN issued : issued'[i] = issued[i]
        /\ issued'[id] = [writer |-> p, child |-> task[p].child,
                          ms |-> Clamped(task[p].ms, task[p].label),
                          parent |-> Recorded(inherited[p])]
    BY <1>5, <2>1, <2>2, AppendedTypes
  <2>4. issued'[id].ms >= Starts(task[p].label)
    <3>1. issued'[id].ms = Clamped(task[p].ms, task[p].label)
      BY <2>3
    <3> QED
      BY <2>1, <3>1, ClampedAfter
  <2>5. ASSUME NEW l \in DOMAIN files', NEW i \in DOMAIN files'[l]
        PROVE  issued'[files'[l][i]].ms >= Starts(l)
    <3>1. CASE l \in DOMAIN files /\ files'[l] = files[l]
      <4>1. files[l][i] \in DOMAIN issued
        BY <1>1, <2>5, <3>1
      <4> QED
        BY <1>2, <2>3, <2>5, <3>1, <4>1
    <3>2. ASSUME l = task[p].label, NEW s \in Seq(DOMAIN issued),
                 s = << >> \/ (l \in DOMAIN files /\ s = files[l]),
                 files'[l] = Append(s, id)
          PROVE  issued'[files'[l][i]].ms >= Starts(l)
      <4>1. CASE i = Len(s) + 1
        <5>1. files'[l][i] = id
          BY <3>2, <4>1
        <5> QED
          BY <2>4, <3>2, <5>1
      <4>2. CASE i \in DOMAIN s
        <5>1. files'[l][i] = s[i] /\ s[i] \in DOMAIN issued
          BY <3>2, <4>2
        <5>2. l \in DOMAIN files /\ s = files[l]
          BY <3>2, <4>2
        <5> QED
          BY <1>2, <2>3, <4>2, <5>1, <5>2
      <4>3. i = Len(s) + 1 \/ i \in DOMAIN s
        BY <2>5, <3>2
      <4> QED
        BY <4>1, <4>2, <4>3
    <3> QED
      BY <1>5, <2>1, <2>2, <2>5, <3>1, <3>2, AppendedFile
  <2> QED
    BY <2>5 DEF NeverBeforeLabel, Starts
<1> QED
  BY <1>3, <1>4, <1>5, StoreClasses

\* Whatever the clock does between the choice of a partition and the write, a
\* file holds no line older than its own label (the clamp of traceWriteEntry()).
THEOREM NothingBeforeItsLabel == TraceSpec => []NeverBeforeLabel
<1>1. TraceInit => NeverBeforeLabel
  BY DEF TraceInit, NeverBeforeLabel
<1>2. TraceTypeOK /\ NeverBeforeLabel /\ [TraceNext]_vars => NeverBeforeLabel'
  BY LabelStep
<1> QED
  BY <1>1, <1>2, TraceTypeCorrect, PTL DEF TraceSpec

-----------------------------------------------------------------------------
(* What a child inherits.                                                  *)

\* A child that somebody is about to start does not run yet, so it has written
\* nothing, and nobody else is about to start it.
Expected ==
    \A q \in Procs : task[q] # Idle => q \in started /\ task[q].child \notin started
Apart ==
    \A q, r \in Procs : task[q] # Idle /\ task[r] # Idle /\ q # r
                            => task[q].child # task[r].child
\* ChainIsAncestry, with the domains that make it inductive.
Attributed ==
    \A p \in started \ Roots :
        \/ inherited[p] = Unset
        \/ /\ inherited[p].kind = "entry" /\ inherited[p].id \in DOMAIN issued
           /\ issued[inherited[p].id].child = p
           /\ issued[inherited[p].id].writer = starter[p]
Handed ==
    \A i \in DOMAIN issued :
        issued[i].writer \in started /\ issued[i].parent = Recorded(inherited[issued[i].writer])
ChainInv == TraceTypeOK /\ Roots \subseteq started /\ Expected /\ Apart /\ Attributed /\ Handed

\* What may happen to the tasks.
Moved ==
    /\ UNCHANGED started
    /\ \A q \in Procs : task'[q] # Idle => task[q] # Idle /\ task'[q].child = task[q].child
Begun(p, c) ==
    /\ UNCHANGED started
    /\ p \in started /\ c \in Procs \ started
    /\ \A q \in started : task[q].step # "idle" => task[q].child # c
    /\ task'[p].child = c /\ \A q \in Procs : q # p => task'[q] = task[q]
Ended(p) ==
    /\ task[p] # Idle
    /\ task'[p] = Idle /\ \A q \in Procs : q # p => task'[q] = task[q]
    /\ started' \in {started, started \cup {task[p].child}}

LEMMA TaskClasses ==
    ASSUME TraceTypeOK, [TraceNext]_vars
    PROVE  \/ Moved
           \/ \E p, c \in Procs : Begun(p, c)
           \/ \E p \in Procs : Ended(p)
<1>1. task \in [Procs -> Task \cup {Idle}]
  BY DEF TraceTypeOK
<1>2. ASSUME NEW p \in Procs, NEW c \in Procs, Begin(p, c)
      PROVE  Begun(p, c)
  <2>1. /\ task' = [task EXCEPT ![p] = [step |-> "list", child |-> c, ms |-> now, label |-> 0]]
        /\ UNCHANGED started /\ p \in started /\ c \in Procs \ started
        /\ \A q \in started : task[q].step # "idle" => task[q].child # c
    BY <1>2 DEF Begin, At, treeVars
  <2>2. task'[p] = [step |-> "list", child |-> c, ms |-> now, label |-> 0]
    BY <1>1, <2>1
  <2>3. \A q \in Procs : q # p => task'[q] = task[q]
    BY <1>1, <2>1
  <2>4. task'[p].child = c
    BY <2>2
  <2> QED
    BY <2>1, <2>3, <2>4 DEF Begun
<1>3. ASSUME NEW p \in Procs, task[p] # Idle, NEW s, NEW l, Goto(p, s, l)
      PROVE  \A q \in Procs : task'[q] # Idle => task[q] # Idle /\ task'[q].child = task[q].child
  <2>1. task[p] \in Task
    BY <1>3, TaskTypes
  <2>2. task' = [task EXCEPT ![p] = [task[p] EXCEPT !.step = s, !.label = l]]
    BY <1>1, <1>3 DEF Goto
  <2>3. [task[p] EXCEPT !.step = s, !.label = l].child = task[p].child
    BY <2>1 DEF Task
  <2> QED
    BY <1>1, <1>3, <2>2, <2>3
<1>4. ASSUME NEW p \in Procs, List(p) \/ Stat(p) \/ Create(p)
      PROVE  Moved
  <2>1. task[p] # Idle /\ UNCHANGED started
    BY <1>4 DEF List, Stat, Create, At, Idle, treeVars
  <2>2. \E s, l : Goto(p, s, l)
    BY <1>4 DEF List, Stat, Create
  <2> QED
    BY <1>3, <2>1, <2>2 DEF Moved
<1>5. ASSUME NEW p \in Procs, AppendEntry(p) \/ Fail(p)
      PROVE  Ended(p)
  <2>1. task[p] # Idle /\ task' = [task EXCEPT ![p] = Idle]
    BY <1>5 DEF AppendEntry, Fail, StartChild, At, Idle
  <2>2. started' \in {started, started \cup {task[p].child}}
    BY <1>5 DEF AppendEntry, Fail, StartChild
  <2> QED
    BY <1>1, <2>1, <2>2 DEF Ended
<1>6. CASE Tick \/ SetBack \/ DeleteStore \/ UNCHANGED vars
  BY <1>6 DEF Tick, SetBack, DeleteStore, vars, treeVars, Moved
<1>7. CASE \E l \in DOMAIN files : Prune(l)
  BY <1>7 DEF Prune, treeVars, Moved
<1> QED
  BY <1>2, <1>4, <1>5, <1>6, <1>7 DEF TraceNext, Write

LEMMA ExpectedStep ==
    ASSUME TraceTypeOK, Expected, Apart, [TraceNext]_vars
    PROVE  Expected' /\ Apart'
<1>1. CASE Moved
  BY <1>1 DEF Moved, Expected, Apart, Idle
<1>2. ASSUME NEW p \in Procs, NEW c \in Procs, Begun(p, c)
      PROVE  Expected' /\ Apart'
  <2>1. \A q \in Procs : task[q] # Idle => task[q].child # c
    <3>1. ASSUME NEW q \in Procs, task[q] # Idle
          PROVE  task[q].step # "idle" /\ q \in started
      BY <3>1, TaskTypes DEF Task, Expected
    <3> QED
      BY <1>2, <3>1 DEF Begun
  <2>2. Expected'
    BY <1>2 DEF Begun, Expected, Idle
  <2>3. Apart'
    BY <1>2, <2>1 DEF Begun, Apart, Idle
  <2> QED
    BY <2>2, <2>3
<1>3. ASSUME NEW p \in Procs, Ended(p)
      PROVE  Expected' /\ Apart'
  <2>1. \A q \in Procs : task'[q] # Idle => q # p /\ task'[q] = task[q]
    BY <1>3 DEF Ended
  <2>2. Apart'
    BY <2>1 DEF Apart, Idle
  <2>3. \A q \in Procs : q # p /\ task[q] # Idle => task[q].child # task[p].child
    BY <1>3 DEF Apart, Ended
  <2>4. Expected'
    BY <1>3, <2>1, <2>3 DEF Expected, Ended, Idle
  <2> QED
    BY <2>2, <2>4
<1> QED
  BY <1>1, <1>2, <1>3, TaskClasses

\* Entries are never rewritten, and only the writer of one that is added matters.
LEMMA EntriesStand ==
    ASSUME TraceTypeOK, [TraceNext]_vars
    PROVE  /\ \A i \in DOMAIN issued : i \in DOMAIN issued' /\ issued'[i] = issued[i]
           /\ \A i \in DOMAIN issued' \ DOMAIN issued :
                 \E p \in started : /\ issued'[i].writer = p
                                    /\ issued'[i].parent = Recorded(inherited[p])
<1>1. CASE UNCHANGED issued
  BY <1>1
<1>2. ASSUME NEW p \in started, At(p, "append"), Appended(p)
      PROVE  /\ \A i \in DOMAIN issued : i \in DOMAIN issued' /\ issued'[i] = issued[i]
             /\ \A i \in DOMAIN issued' \ DOMAIN issued :
                   /\ issued'[i].writer = p
                   /\ issued'[i].parent = Recorded(inherited[p])
  <2>1. p \in Procs /\ task[p] # Idle
    BY <1>2 DEF TraceTypeOK, At, Idle
  <2>2. PICK id : id = Len(issued) + 1
    OBVIOUS
  <2>3. /\ DOMAIN issued' = DOMAIN issued \cup {id}
        /\ \A i \in DOMAIN issued : issued'[i] = issued[i]
        /\ issued'[id] = [writer |-> p, child |-> task[p].child,
                          ms |-> Clamped(task[p].ms, task[p].label),
                          parent |-> Recorded(inherited[p])]
    BY <1>2, <2>1, <2>2, AppendedTypes
  <2>4. issued'[id].writer = p /\ issued'[id].parent = Recorded(inherited[p])
    BY <2>3
  <2> QED
    BY <2>3, <2>4
<1> QED
  BY <1>1, <1>2, StoreClasses DEF Deleted, Created

\* A process that runs keeps its environment and its starter.
LEMMA EnvironmentsStand ==
    ASSUME TraceTypeOK, Expected, [TraceNext]_vars
    PROVE  /\ started \subseteq started'
           /\ \A q \in started : inherited'[q] = inherited[q] /\ starter'[q] = starter[q]
<1>1. CASE UNCHANGED <<started, starter, inherited>>
  BY <1>1
<1>2. ASSUME NEW p \in started, task[p] # Idle, Born(p)
      PROVE  /\ started \subseteq started'
             /\ \A q \in started : inherited'[q] = inherited[q] /\ starter'[q] = starter[q]
  <2>1. PICK c : c = task[p].child
    OBVIOUS
  <2>2. c \notin started /\ started \subseteq Procs
        /\ starter \in [Procs -> Procs] /\ inherited \in [Procs -> Variable]
    BY <1>2, <2>1 DEF Expected, TraceTypeOK
  <2>3. /\ started' = started \cup {c} /\ starter' = [starter EXCEPT ![c] = p]
        /\ \E v : inherited' = [inherited EXCEPT ![c] = v]
    BY <1>2, <2>1 DEF Born
  <2> QED
    BY <2>2, <2>3
<1> QED
  BY <1>1, <1>2, BirthSteps

LEMMA HandedStep ==
    ASSUME TraceTypeOK, Expected, Handed, [TraceNext]_vars
    PROVE  Handed'
<1>1. ASSUME NEW q \in started
      PROVE  q \in started' /\ Recorded(inherited'[q]) = Recorded(inherited[q])
  BY <1>1, EnvironmentsStand
<1>2. \A i \in DOMAIN issued' :
         /\ issued'[i].writer \in started'
         /\ issued'[i].parent = Recorded(inherited'[issued'[i].writer])
  BY <1>1, EntriesStand DEF Handed
<1> QED
  BY <1>2 DEF Handed, Recorded, Unset

LEMMA AttributedStep ==
    ASSUME TraceTypeOK, Expected, Attributed, [TraceNext]_vars
    PROVE  Attributed'
<1> DEFINE Right(p) ==
        \/ inherited'[p] = Unset
        \/ /\ inherited'[p].kind = "entry" /\ inherited'[p].id \in DOMAIN issued'
           /\ issued'[inherited'[p].id].child = p
           /\ issued'[inherited'[p].id].writer = starter'[p]
<1>1. ASSUME NEW q \in started \ Roots
      PROVE  Right(q)
  BY <1>1, EnvironmentsStand, EntriesStand DEF Attributed
<1>2. ASSUME NEW p \in started, task[p] # Idle, Born(p)
      PROVE  Right(task[p].child) /\ started' = started \cup {task[p].child}
  <2>1. PICK c : c = task[p].child
    OBVIOUS
  <2>2. p \in Procs /\ c \in Procs
        /\ starter \in [Procs -> Procs] /\ inherited \in [Procs -> Variable]
    BY <1>2, <2>1, TaskTypes DEF TraceTypeOK
  <2>3. started' = started \cup {c} /\ starter'[c] = p
    BY <1>2, <2>1, <2>2 DEF Born
  <2>4. CASE inherited' = [inherited EXCEPT ![c] = Unset]
    BY <2>1, <2>2, <2>3, <2>4
  <2>5. CASE inherited' = [inherited EXCEPT ![c] = [kind |-> "entry", id |-> Len(issued) + 1]]
             /\ Appended(p)
    <3>1. PICK id : id = Len(issued) + 1
      OBVIOUS
    <3>2. /\ id \in DOMAIN issued'
          /\ issued'[id] = [writer |-> p, child |-> c,
                            ms |-> Clamped(task[p].ms, task[p].label),
                            parent |-> Recorded(inherited[p])]
      BY <1>2, <2>1, <2>2, <2>5, <3>1, AppendedTypes
    <3>3. issued'[id].child = c /\ issued'[id].writer = p
      BY <3>2
    <3>4. inherited'[c].kind = "entry" /\ inherited'[c].id = id
      BY <2>2, <2>5, <3>1
    <3> QED
      BY <2>1, <2>3, <3>2, <3>3, <3>4
  <2> QED
    BY <1>2, <2>1, <2>3, <2>4, <2>5 DEF Born
<1>3. \A q \in started' \ Roots : Right(q)
  BY <1>1, <1>2, BirthSteps
<1> QED
  BY <1>3 DEF Attributed, Unset

LEMMA ChainStep == ChainInv /\ [TraceNext]_vars => ChainInv'
<1> SUFFICES ASSUME ChainInv, [TraceNext]_vars
             PROVE  ChainInv'
  OBVIOUS
<1>1. TraceTypeOK /\ Roots \subseteq started /\ Expected /\ Apart /\ Attributed /\ Handed
  BY DEF ChainInv
<1>2. (Roots \subseteq started)'
  BY <1>1, EnvironmentsStand
<1> QED
  BY <1>1, <1>2, TypedStep, ExpectedStep, AttributedStep, HandedStep DEF ChainInv

LEMMA ChainInit == TraceInit => ChainInv
<1> SUFFICES ASSUME TraceInit
             PROVE  ChainInv
  OBVIOUS
<1>1. \A q \in Procs : task[q] = Idle
  BY DEF TraceInit
<1>2. started = Roots /\ DOMAIN issued = {}
  BY DEF TraceInit
<1> QED
  BY <1>1, <1>2, InitTyped DEF ChainInv, Expected, Apart, Attributed, Handed

\* A child is attributed to the invocation that started it and to no other, and
\* every entry's parent is what its writer was started with (traceChildEnv()).
THEOREM ChainsAreAncestry == TraceSpec => []ChainIsAncestry
<1>1. ChainInv => ChainIsAncestry
  BY DEF ChainInv, Attributed, Handed, ChainIsAncestry
<1> QED
  BY <1>1, ChainInit, ChainStep, PTL DEF TraceSpec

-----------------------------------------------------------------------------
(* What a full file still takes.  A writer of a later hour reaches an old   *)
(* file only by having found room in it.  From then on the clock is past    *)
(* the hour of the file, so that no writer of that hour can begin: those    *)
(* who may still write are counted, and every line takes one away.          *)

Size(l) == IF l \in DOMAIN files THEN Len(files[l]) ELSE 0

\* The instant p drew is past the hour of l; p will write to l next.
Late(p, l) == task[p].ms >= Starts(l + 1)
Chosen(p, l) == task[p].step = "append" /\ task[p].label = l
MayWrite(l) == {p \in Procs : task[p] # Idle /\ (Chosen(p, l) \/ ~Late(p, l))}

Writers ==
    \A p \in Procs : task[p] # Idle =>
        /\ p \in started
        /\ task[p].step = "create" => task[p].label = LabelOf(task[p].ms)
        /\ ~setBack => task[p].ms <= now

Room ==
    ~setBack =>
        \A l \in Nat, p \in Procs :
            task[p] # Idle /\ Chosen(p, l) /\ Late(p, l) =>
                Size(l) + Cardinality(MayWrite(l)) < Roll + Cardinality(started)

LEMMA LateLabel ==
    ASSUME NEW ms \in Nat, NEW l \in Nat, ms >= Starts(l + 1)
    PROVE  LabelOf(ms) > l /\ LabelOf(ms) \in Nat
<1>1. \A h \in Nat \ {0} : ms >= (l + 1) * h => ms \div h > l /\ ms \div h \in Nat
  OBVIOUS
<1> QED
  BY <1>1, SizesAssumption DEF Starts, LabelOf

\* The counts are of finite sets.
LEMMA Counts ==
    ASSUME TraceTypeOK, Writers, NEW l
    PROVE  /\ IsFiniteSet(started) /\ Cardinality(started) \in Nat
           /\ IsFiniteSet(MayWrite(l)) /\ Cardinality(MayWrite(l)) \in Nat
           /\ MayWrite(l) \subseteq started
           /\ Cardinality(MayWrite(l)) <= Cardinality(started)
           /\ Size(l) \in Nat
<1>1. MayWrite(l) \subseteq started /\ started \subseteq Procs
  BY DEF MayWrite, Writers, TraceTypeOK
<1>2. IsFiniteSet(started) /\ Cardinality(started) \in Nat
  BY <1>1, RootsAssumption, FS_Subset, FS_CardinalityType
<1>3. /\ IsFiniteSet(MayWrite(l)) /\ Cardinality(MayWrite(l)) \in Nat
      /\ Cardinality(MayWrite(l)) <= Cardinality(started)
  BY <1>1, <1>2, FS_Subset, FS_CardinalityType
<1>4. Size(l) \in Nat
  BY DEF Size, TraceTypeOK
<1> QED
  BY <1>1, <1>2, <1>3, <1>4

LEMMA MoreStarted ==
    ASSUME TraceTypeOK, NEW S \in SUBSET Procs, started \subseteq S
    PROVE  Cardinality(S) \in Nat /\ Cardinality(started) \in Nat
           /\ Cardinality(started) <= Cardinality(S)
<1>1. IsFiniteSet(S)
  BY RootsAssumption, FS_Subset
<1>2. IsFiniteSet(started)
  BY <1>1, FS_Subset
<1> QED
  BY <1>1, <1>2, FS_Subset, FS_CardinalityType

\* Fewer writers and no more lines keep the room.
LEMMA RoomShrinks ==
    ASSUME TraceTypeOK, Writers, Room, ~setBack, NEW l \in Nat, NEW p \in Procs,
           task[p] # Idle, Chosen(p, l), Late(p, l),
           NEW B \in SUBSET MayWrite(l), NEW S \in SUBSET Procs, started \subseteq S,
           NEW n \in Nat,
           \/ n <= Size(l)
           \/ n <= Size(l) + 1 /\ \E q \in MayWrite(l) : q \notin B
    PROVE  n + Cardinality(B) < Roll + Cardinality(S)
<1>1. Size(l) + Cardinality(MayWrite(l)) < Roll + Cardinality(started)
  BY DEF Room
<1>2. /\ IsFiniteSet(MayWrite(l)) /\ Cardinality(MayWrite(l)) \in Nat
      /\ Cardinality(started) \in Nat /\ Size(l) \in Nat
  BY Counts
<1>3. Cardinality(started) <= Cardinality(S) /\ Cardinality(S) \in Nat
  BY MoreStarted
<1>4. IsFiniteSet(B) /\ Cardinality(B) \in Nat /\ Cardinality(B) <= Cardinality(MayWrite(l))
  BY <1>2, FS_Subset, FS_CardinalityType
<1>5. ASSUME NEW q \in MayWrite(l), q \notin B
      PROVE  Cardinality(B) < Cardinality(MayWrite(l))
  <2>1. B # MayWrite(l)
    BY <1>5
  <2>2. Cardinality(MayWrite(l)) # Cardinality(B)
    BY <1>2, <2>1, FS_Subset
  <2> QED
    BY <1>2, <1>4, <2>2
<1>6. Roll \in Nat
  BY SizesAssumption
<1> QED
  BY <1>1, <1>2, <1>3, <1>4, <1>5, <1>6

LEMMA SizeSteps ==
    ASSUME TraceTypeOK, NEW l \in Nat
    PROVE  /\ Deleted => Size(l)' \in Nat /\ Size(l)' <= Size(l)
           /\ Created => Size(l)' \in Nat /\ Size(l)' <= Size(l)
           /\ \A p \in Procs : task[p] # Idle /\ Appended(p) =>
                 /\ Size(l)' \in Nat
                 /\ IF task[p].label = l THEN Size(l)' <= Size(l) + 1
                                         ELSE Size(l)' <= Size(l)
<1>1. \A k \in DOMAIN files : files[k] \in Seq(DOMAIN issued) /\ Len(files[k]) \in Nat
  BY DEF TraceTypeOK
<1>2. ASSUME Deleted PROVE Size(l)' \in Nat /\ Size(l)' <= Size(l)
  BY <1>1, <1>2 DEF Deleted, Size
<1>3. ASSUME Created PROVE Size(l)' \in Nat /\ Size(l)' <= Size(l)
  <2>1. PICK k \in Nat : files' = WithFile(k)
    BY <1>3 DEF Created
  <2>2. /\ DOMAIN files' = DOMAIN files \cup {k}
        /\ \A j \in DOMAIN files' :
              /\ j \in DOMAIN files => files'[j] = files[j]
              /\ j \notin DOMAIN files => files'[j] = << >>
    BY <2>1, CreatedFile
  <2>3. Len(<< >>) = 0
    OBVIOUS
  <2> QED
    BY <1>1, <2>2, <2>3 DEF Size
<1>4. ASSUME NEW p \in Procs, task[p] # Idle, Appended(p)
      PROVE  /\ Size(l)' \in Nat
             /\ IF task[p].label = l THEN Size(l)' <= Size(l) + 1
                                     ELSE Size(l)' <= Size(l)
  <2>1. ASSUME NEW s \in Seq(DOMAIN issued), NEW e
        PROVE  Len(Append(s, e)) = Len(s) + 1 /\ Len(s) \in Nat
    OBVIOUS
  <2>2. Len(<< >>) = 0
    OBVIOUS
  <2>3. /\ DOMAIN files' = DOMAIN files \cup {task[p].label}
        /\ \A k \in DOMAIN files' :
              \/ k \in DOMAIN files /\ files'[k] = files[k]
              \/ /\ k = task[p].label
                 /\ \E s \in Seq(DOMAIN issued) :
                       /\ s = << >> \/ (k \in DOMAIN files /\ s = files[k])
                       /\ files'[k] = Append(s, Len(issued) + 1)
    BY <1>4, AppendedFile
  <2>4. CASE l \in DOMAIN files'
    <3>1. CASE l \in DOMAIN files /\ files'[l] = files[l]
      BY <1>1, <2>4, <3>1 DEF Size
    <3>2. ASSUME l = task[p].label, NEW s \in Seq(DOMAIN issued),
                 s = << >> \/ (l \in DOMAIN files /\ s = files[l]),
                 files'[l] = Append(s, Len(issued) + 1)
          PROVE  Size(l)' \in Nat /\ Size(l)' <= Size(l) + 1
      BY <1>1, <2>1, <2>2, <2>4, <3>2 DEF Size
    <3> QED
      BY <2>3, <2>4, <3>1, <3>2
  <2>5. CASE l \notin DOMAIN files'
    BY <2>3, <2>5 DEF Size
  <2> QED
    BY <2>4, <2>5
<1> QED
  BY <1>2, <1>3, <1>4

\* What a step does to the clock and to the tasks.
Passes == ~setBack' => ~setBack /\ now <= now'

LEMMA ClockSteps ==
    ASSUME TraceTypeOK, [TraceNext]_vars
    PROVE  Passes
<1>1. now \in Nat
  BY DEF TraceTypeOK
<1>2. ASSUME NEW p \in Procs, Write(p)
      PROVE  UNCHANGED <<now, setBack>>
  BY <1>2 DEF Write, Begin, List, Stat, Create, AppendEntry, Fail, machineVars, clockVars
<1>3. CASE Tick \/ SetBack \/ DeleteStore \/ UNCHANGED vars
  BY <1>1, <1>3 DEF Tick, SetBack, DeleteStore, vars, machineVars, clockVars, Passes
<1>4. CASE \E l \in DOMAIN files : Prune(l)
  BY <1>1, <1>4 DEF Prune, clockVars, Passes
<1> QED
  BY <1>1, <1>2, <1>3, <1>4 DEF TraceNext, Passes

\* One process moves: it begins, chooses, or is done.
Drew(p) ==
    /\ task[p].step = "idle" /\ p \in started /\ started' = started /\ UNCHANGED now
    /\ task'[p].step = "list" /\ task'[p].ms = now
Chose(p) ==
    /\ task[p] # Idle /\ p \in started /\ started' = started
    /\ task'[p].ms = task[p].ms
    /\ \/ task'[p].step = "create" /\ task'[p].label = LabelOf(task[p].ms)
       \/ task'[p].step = "stat"
       \/ /\ task'[p].step = "append"
          /\ \/ LabelOf(task[p].ms) <= task'[p].label
             \/ task[p].step = "stat" /\ ~Full(task'[p].label) /\ UNCHANGED files
             \/ task[p].step = "create" /\ task'[p].label = task[p].label
Done(p) ==
    /\ task[p] # Idle /\ task'[p] = Idle
    /\ started \subseteq started'
Others(p) == \A q \in Procs : q # p => task'[q] = task[q]

LEMMA TaskSteps ==
    ASSUME TraceTypeOK, [TraceNext]_vars
    PROVE  \/ UNCHANGED <<task, started>> /\ Deleted
           \/ \E p \in Procs :
                 /\ Others(p)
                 /\ \/ Drew(p) /\ Deleted
                    \/ Chose(p) /\ (Deleted \/ Created)
                    \/ Done(p) /\ (Deleted \/ (Appended(p) /\ At(p, "append")))
<1>1. /\ task \in [Procs -> Task \cup {Idle}] /\ now \in Nat
      /\ DOMAIN files \subseteq Nat /\ started \subseteq Procs
  BY DEF TraceTypeOK
<1>2. ASSUME NEW p \in Procs, NEW c \in Procs, Begin(p, c)
      PROVE  Others(p) /\ Drew(p) /\ Deleted
  <2>1. task' = [task EXCEPT ![p] = [step |-> "list", child |-> c, ms |-> now, label |-> 0]]
    BY <1>2 DEF Begin
  <2>2. task'[p] = [step |-> "list", child |-> c, ms |-> now, label |-> 0]
    BY <1>1, <2>1
  <2>3. task'[p].step = "list" /\ task'[p].ms = now
    BY <2>2
  <2>4. Others(p)
    BY <1>1, <2>1 DEF Others
  <2> QED
    BY <1>2, <2>3, <2>4 DEF Begin, At, machineVars, clockVars, treeVars, Drew, Deleted
<1>3. ASSUME NEW p \in Procs, task[p] # Idle, NEW s, NEW l, Goto(p, s, l)
      PROVE  /\ Others(p) /\ task'[p].ms = task[p].ms
             /\ task'[p].step = s /\ task'[p].label = l
  <2>1. task[p] \in Task
    BY <1>3, TaskTypes
  <2>2. task' = [task EXCEPT ![p] = [task[p] EXCEPT !.step = s, !.label = l]]
    BY <1>1, <1>3 DEF Goto
  <2>3. task'[p] = [task[p] EXCEPT !.step = s, !.label = l]
    BY <1>1, <2>2
  <2>4. task'[p].ms = task[p].ms /\ task'[p].step = s /\ task'[p].label = l
    BY <2>1, <2>3 DEF Task
  <2>5. Others(p)
    BY <1>1, <2>2 DEF Others
  <2> QED
    BY <2>4, <2>5
<1>4. ASSUME NEW p \in Procs, List(p) \/ Stat(p) \/ Create(p)
      PROVE  task[p] # Idle /\ p \in started /\ started' = started
  BY <1>4 DEF List, Stat, Create, At, Idle, treeVars
<1>5. ASSUME NEW p \in Procs, List(p)
      PROVE  Others(p) /\ Chose(p) /\ Deleted
  <2>1. task[p] # Idle /\ p \in started /\ started' = started /\ Deleted
    BY <1>4, <1>5 DEF List, storeVars, treeVars, Deleted
  <2>2. task[p].ms \in Nat /\ LabelOf(task[p].ms) \in Nat
    BY <2>1, TaskTypes, LabelTypes
  <2>3. \/ Goto(p, "create", LabelOf(task[p].ms))
        \/ \E l \in Nat : Goto(p, "stat", l)
        \/ \E l \in Nat : Goto(p, "append", l) /\ LabelOf(task[p].ms) <= l
    BY <1>1, <1>5, <2>2 DEF List
  <2> QED
    BY <1>3, <2>1, <2>3 DEF Chose
<1>6. ASSUME NEW p \in Procs, Stat(p)
      PROVE  Others(p) /\ Chose(p) /\ Deleted
  <2>1. /\ task[p] # Idle /\ p \in started /\ started' = started /\ Deleted
        /\ task[p].step = "stat" /\ UNCHANGED files
    BY <1>4, <1>6 DEF Stat, At, storeVars, treeVars, Deleted
  <2>2. CASE Full(task[p].label)
    <3>1. Goto(p, "create", LabelOf(task[p].ms))
      BY <1>6, <2>2 DEF Stat
    <3> QED
      BY <1>3, <2>1, <3>1 DEF Chose
  <2>3. CASE ~Full(task[p].label)
    <3>1. Goto(p, "append", task[p].label)
      BY <1>6, <2>3 DEF Stat
    <3>2. Others(p) /\ task'[p].ms = task[p].ms /\ task'[p].step = "append"
          /\ task'[p].label = task[p].label
      BY <1>3, <2>1, <3>1
    <3> QED
      BY <2>1, <2>3, <3>2 DEF Chose
  <2> QED
    BY <2>2, <2>3
<1>7. ASSUME NEW p \in Procs, Create(p)
      PROVE  Others(p) /\ Chose(p) /\ (Deleted \/ Created)
  <2>1. /\ task[p] # Idle /\ p \in started /\ started' = started
        /\ task[p].step = "create" /\ Goto(p, "append", task[p].label)
    BY <1>4, <1>7 DEF Create, At
  <2>2. task[p].label \in Nat
    BY <2>1, TaskTypes
  <2>3. Deleted \/ Created
    BY <1>7, <2>2 DEF Create, treeVars, Deleted, Created
  <2>4. /\ Others(p) /\ task'[p].ms = task[p].ms /\ task'[p].step = "append"
        /\ task'[p].label = task[p].label
    BY <1>3, <2>1
  <2> QED
    BY <2>1, <2>3, <2>4 DEF Chose
<1>8. ASSUME NEW p \in Procs, AppendEntry(p) \/ Fail(p)
      PROVE  Others(p) /\ Done(p)
  <2>1. task[p] # Idle /\ task' = [task EXCEPT ![p] = Idle]
    BY <1>8 DEF AppendEntry, Fail, StartChild, At, Idle
  <2>2. started \subseteq started'
    BY <1>8 DEF AppendEntry, Fail, StartChild
  <2> QED
    BY <1>1, <2>1, <2>2 DEF Others, Done
<1>9. ASSUME NEW p \in Procs, AppendEntry(p)
      PROVE  Appended(p) /\ At(p, "append")
  BY <1>9 DEF AppendEntry, Appended
<1>10. ASSUME NEW p \in Procs, Fail(p)
       PROVE  Deleted
  BY <1>10 DEF Fail, Deleted
<1>11. CASE Tick \/ SetBack \/ DeleteStore \/ UNCHANGED vars
  BY <1>11 DEF Tick, SetBack, DeleteStore, vars, storeVars, treeVars, Deleted
<1>12. CASE \E l \in DOMAIN files : Prune(l)
  BY <1>12 DEF Prune, treeVars, Deleted
<1> QED
  BY <1>2, <1>5, <1>6, <1>7, <1>8, <1>9, <1>10, <1>11, <1>12 DEF TraceNext, Write

LEMMA WritersStep ==
    ASSUME TraceTypeOK, Writers, [TraceNext]_vars
    PROVE  Writers'
<1>1. /\ Passes /\ now \in Nat
      /\ \A q \in Procs : task[q] # Idle => task[q].ms \in Nat
  BY ClockSteps, TaskTypes DEF TraceTypeOK
<1>2. now' \in Nat
  BY MachineTyped
<1>3. ASSUME NEW q \in Procs, task'[q] = task[q], task[q] # Idle, started \subseteq started'
      PROVE  /\ q \in started'
             /\ task'[q].step = "create" => task'[q].label = LabelOf(task'[q].ms)
             /\ ~setBack' => task'[q].ms <= now'
  BY <1>1, <1>2, <1>3 DEF Writers, Passes
<1>4. CASE UNCHANGED <<task, started>>
  BY <1>3, <1>4 DEF Writers, Idle
<1>5. ASSUME NEW p \in Procs, Others(p), Drew(p)
      PROVE  Writers'
  <2>1. /\ p \in started' /\ task'[p].step # "create" /\ task'[p].ms = now'
    BY <1>5 DEF Drew
  <2> QED
    BY <1>2, <1>3, <1>5, <2>1 DEF Writers, Others, Drew, Idle
<1>6. ASSUME NEW p \in Procs, Others(p), Chose(p)
      PROVE  Writers'
  <2>1. /\ p \in started'
        /\ task'[p].step = "create" => task'[p].label = LabelOf(task'[p].ms)
        /\ ~setBack' => task'[p].ms <= now'
    BY <1>1, <1>2, <1>6 DEF Chose, Writers, Passes
  <2> QED
    BY <1>3, <1>6, <2>1 DEF Writers, Others, Chose, Idle
<1>7. ASSUME NEW p \in Procs, Others(p), Done(p)
      PROVE  Writers'
  BY <1>3, <1>7 DEF Writers, Others, Done, Idle
<1> QED
  BY <1>4, <1>5, <1>6, <1>7, TaskSteps

\* Of the steps only the look at a file with room makes a late writer of it.
LEMMA RoomStep ==
    ASSUME TraceTypeOK, Writers, Room, [TraceNext]_vars
    PROVE  Room'
<1> SUFFICES ASSUME ~setBack', NEW l \in Nat, NEW p \in Procs,
                    task'[p] # Idle, task'[p].step = "append", task'[p].label = l,
                    task'[p].ms >= Starts(l + 1)
             PROVE  Size(l)' + Cardinality(MayWrite(l)') < Roll + Cardinality(started')
  BY DEF Room, Chosen, Late, Idle
<1> DEFINE after == MayWrite(l)'
<1>1. /\ ~setBack /\ now <= now' /\ now \in Nat
      /\ \A q \in Procs : task[q] # Idle =>
            task[q].ms \in Nat /\ task[q].label \in Nat /\ task[q].ms <= now
  BY ClockSteps, TaskTypes DEF Passes, TraceTypeOK, Writers
<1>2. TraceTypeOK' /\ Writers'
  BY TypedStep, WritersStep
<1>3. started' \in SUBSET Procs
  BY <1>2 DEF TraceTypeOK
<1>4. \A q \in after :
         /\ q \in Procs /\ task'[q] # Idle
         /\ \/ task'[q].step = "append" /\ task'[q].label = l
            \/ ~(task'[q].ms >= Starts(l + 1))
  BY DEF MayWrite, Chosen, Late, Idle
<1>5. \A q \in Procs : task[q] # Idle /\ (Chosen(q, l) \/ ~Late(q, l)) => q \in MayWrite(l)
  BY DEF MayWrite
<1>6. Starts(l + 1) \in Nat
  BY StartsTypes
\* A process that has not moved is counted as before.
<1>7. ASSUME NEW q \in after, task'[q] = task[q]
      PROVE  q \in MayWrite(l)
  BY <1>4, <1>5, <1>7 DEF Chosen, Late, Idle
<1>8. ASSUME task'[p] = task[p], after \subseteq MayWrite(l), started \subseteq started',
             \/ Deleted
             \/ Created
             \/ \E q \in Procs : /\ task[q] # Idle /\ Appended(q) /\ At(q, "append")
                                 /\ task'[q] = Idle
      PROVE  Size(l)' + Cardinality(after) < Roll + Cardinality(started')
  <2>1. task[p] # Idle /\ Chosen(p, l) /\ Late(p, l)
    BY <1>8 DEF Chosen, Late, Idle
  <2>2. Size(l)' \in Nat /\ (Size(l)' <= Size(l)
           \/ (Size(l)' <= Size(l) + 1 /\ \E q \in MayWrite(l) : q \notin after))
    <3>1. CASE Deleted \/ Created
      BY <3>1, SizeSteps
    <3>2. ASSUME NEW q \in Procs, task[q] # Idle, Appended(q), At(q, "append"),
                 task'[q] = Idle
          PROVE  Size(l)' \in Nat /\ (Size(l)' <= Size(l)
                    \/ (Size(l)' <= Size(l) + 1 /\ q \in MayWrite(l) /\ q \notin after))
      <4>1. q \notin after
        BY <1>4, <3>2 DEF Idle
      <4>2. task[q].label = l => q \in MayWrite(l)
        BY <1>5, <3>2 DEF At, Chosen
      <4> QED
        BY <3>2, <4>1, <4>2, SizeSteps
    <3> QED
      BY <1>8, <3>1, <3>2
  <2> HIDE DEF after
  <2> QED
    BY <1>1, <1>3, <1>8, <2>1, <2>2, RoomShrinks
<1>9. CASE UNCHANGED <<task, started>> /\ Deleted
  <2>1. after \subseteq MayWrite(l)
    BY <1>7, <1>9
  <2> QED
    BY <1>8, <1>9, <2>1
<1>10. ASSUME NEW r \in Procs, Others(r), Drew(r), Deleted
       PROVE  Size(l)' + Cardinality(after) < Roll + Cardinality(started')
  <2>1. p # r
    BY <1>10 DEF Drew
  <2>2. task'[p] = task[p] /\ task[p] # Idle /\ started' = started
    BY <1>10, <2>1 DEF Others, Drew, Idle
  <2>3. r \notin after
    <3>1. task'[r].ms = now /\ now >= Starts(l + 1) /\ task'[r].step # "append"
      BY <1>1, <1>6, <1>10, <2>2 DEF Drew
    <3> QED
      BY <1>4, <3>1
  <2>4. \A q \in after : task'[q] = task[q]
    BY <1>4, <1>10, <2>3 DEF Others
  <2>5. after \subseteq MayWrite(l)
    BY <1>7, <2>4
  <2> QED
    BY <1>8, <1>10, <2>2, <2>5
<1>11. ASSUME NEW r \in Procs, Others(r), Done(r),
              Deleted \/ (Appended(r) /\ At(r, "append"))
       PROVE  Size(l)' + Cardinality(after) < Roll + Cardinality(started')
  <2>1. p # r /\ task'[r] = Idle /\ task[r] # Idle /\ started \subseteq started'
    BY <1>11 DEF Done, Idle
  <2>2. r \notin after
    BY <1>4, <2>1 DEF Idle
  <2>3. task'[p] = task[p] /\ \A q \in after : task'[q] = task[q]
    BY <1>4, <1>11, <2>1, <2>2 DEF Others
  <2>4. after \subseteq MayWrite(l)
    BY <1>7, <2>3
  <2> QED
    BY <1>8, <1>11, <2>1, <2>3, <2>4
<1>12. ASSUME NEW r \in Procs, Others(r), Chose(r), Deleted \/ Created
       PROVE  Size(l)' + Cardinality(after) < Roll + Cardinality(started')
  <2>1. task[r] # Idle /\ started' = started /\ task'[r].ms = task[r].ms
    BY <1>12 DEF Chose
  <2>2. \A q \in after : q # r => q \in MayWrite(l)
    BY <1>4, <1>7, <1>12 DEF Others
  <2>3. task'[r].ms >= Starts(l + 1) => LabelOf(task[r].ms) > l /\ LabelOf(task[r].ms) \in Nat
    BY <1>1, <2>1, LateLabel
  <2>4. \/ ~(task'[r].step = "append" /\ task'[r].label = l)
        \/ ~(task'[r].ms >= Starts(l + 1))
        \/ ~Full(l) /\ UNCHANGED files
    <3> SUFFICES ASSUME task'[r].step = "append", task'[r].label = l,
                        task'[r].ms >= Starts(l + 1)
                 PROVE  ~Full(l) /\ UNCHANGED files
      OBVIOUS
    <3>1. ~(LabelOf(task[r].ms) <= l)
      BY <2>3
    <3>2. task[r].step = "create" => task[r].label # l
      BY <2>1, <2>3, <3>1 DEF Writers
    <3> QED
      BY <1>12, <3>1, <3>2 DEF Chose
  <2>5. CASE ~Full(l) /\ UNCHANGED files
    <3>1. Size(l)' < Roll /\ Size(l)' \in Nat
      <4>1. Size(l) < Roll /\ Size(l) \in Nat
        BY <2>5, SizesAssumption, Counts DEF Full, Size, TraceTypeOK
      <4> QED
        BY <2>5, <4>1 DEF Size
    <3>2. /\ Cardinality(after) <= Cardinality(started') /\ Cardinality(after) \in Nat
          /\ Cardinality(started') \in Nat
      <4>1. after \subseteq started'
        BY <1>2, <1>4 DEF Writers
      <4>2. IsFiniteSet(started') /\ IsFiniteSet(after)
        BY <1>3, <4>1, RootsAssumption, FS_Subset
      <4> HIDE DEF after
      <4> QED
        BY <4>1, <4>2, FS_Subset, FS_CardinalityType
    <3> HIDE DEF after
    <3> QED
      BY <3>1, <3>2, SizesAssumption
  <2>6. CASE /\ ~(~Full(l) /\ UNCHANGED files)
    <3>1. p # r
      BY <2>4, <2>6
    <3>2. r \in after => r \in MayWrite(l)
      BY <1>4, <1>5, <2>1, <2>4, <2>6 DEF Late
    <3>3. after \subseteq MayWrite(l)
      BY <2>2, <3>2
    <3>4. task'[p] = task[p]
      BY <1>12, <3>1 DEF Others
    <3> QED
      BY <1>8, <1>12, <2>1, <3>3, <3>4
  <2> QED
    BY <2>5, <2>6
<1> HIDE DEF after
<1> QED
  BY <1>9, <1>10, <1>11, <1>12, TaskSteps DEF after

LEMMA OverrunStep ==
    ASSUME TraceTypeOK, Writers, Room, OverrunIsBounded, [TraceNext]_vars
    PROVE  OverrunIsBounded'
<1> SUFFICES ASSUME ~setBack', NEW l \in DOMAIN files', NEW i \in DOMAIN files'[l],
                    issued'[files'[l][i]].ms >= Starts(l + 1)
             PROVE  i < Roll + Cardinality(started')
  BY DEF OverrunIsBounded
<1>1. ~setBack
  BY ClockSteps DEF Passes
<1>2. /\ Cardinality(started) <= Cardinality(started')
      /\ Cardinality(started) \in Nat /\ Cardinality(started') \in Nat
  <2>1. started' \in SUBSET Procs
    BY TreeTyped
  <2>2. started \subseteq started'
    BY TaskSteps DEF Drew, Chose, Done
  <2> QED
    BY <2>1, <2>2, MoreStarted
<1>3. DOMAIN files \subseteq Nat /\ \A k \in DOMAIN files : files[k] \in Seq(DOMAIN issued)
  BY DEF TraceTypeOK
<1>4. ASSUME l \in DOMAIN files, i \in DOMAIN files[l], files'[l][i] = files[l][i],
             issued'[files[l][i]] = issued[files[l][i]]
      PROVE  i < Roll + Cardinality(started')
  <2>1. i < Roll + Cardinality(started) /\ i \in Nat
    BY <1>1, <1>3, <1>4 DEF OverrunIsBounded
  <2> QED
    BY <1>2, <2>1, SizesAssumption
<1>5. CASE Deleted
  BY <1>4, <1>5 DEF Deleted
<1>6. CASE Created
  <2>1. /\ l \in DOMAIN files => files'[l] = files[l]
        /\ l \notin DOMAIN files => files'[l] = << >>
    BY <1>6, CreatedFile DEF Created
  <2>2. l \in DOMAIN files
    BY <2>1
  <2> QED
    BY <1>4, <1>6, <2>1, <2>2 DEF Created
<1>7. ASSUME NEW p \in Procs, task[p] # Idle, Appended(p), At(p, "append")
      PROVE  i < Roll + Cardinality(started')
  <2>1. /\ \A e \in DOMAIN issued : issued'[e] = issued[e]
        /\ issued'[Len(issued) + 1].ms = Clamped(task[p].ms, task[p].label)
    <3>1. issued'[Len(issued) + 1] =
             [writer |-> p, child |-> task[p].child,
              ms |-> Clamped(task[p].ms, task[p].label),
              parent |-> Recorded(inherited[p])]
      BY <1>7, AppendedTypes
    <3>2. \A e \in DOMAIN issued : issued'[e] = issued[e]
      BY <1>7, AppendedTypes
    <3> QED
      BY <3>1, <3>2
  <2>2. CASE l \in DOMAIN files /\ files'[l] = files[l]
    BY <1>3, <1>4, <2>1, <2>2
  <2>3. ASSUME l = task[p].label, NEW s \in Seq(DOMAIN issued),
               s = << >> \/ (l \in DOMAIN files /\ s = files[l]),
               files'[l] = Append(s, Len(issued) + 1)
        PROVE  i < Roll + Cardinality(started')
    <3>1. CASE i \in DOMAIN s
      <4>1. l \in DOMAIN files /\ s = files[l] /\ files'[l][i] = s[i] /\ s[i] \in DOMAIN issued
        BY <2>3, <3>1
      <4> QED
        BY <1>4, <2>1, <3>1, <4>1
    <3>2. CASE i \notin DOMAIN s
      <4>1. i = Len(s) + 1 /\ files'[l][i] = Len(issued) + 1 /\ Len(s) \in Nat
        BY <2>3, <3>2
      <4>2. Len(s) <= Size(l) /\ Size(l) \in Nat
        <5>1. Len(<< >>) = 0
          OBVIOUS
        <5> QED
          BY <2>3, <4>1, <5>1, Counts DEF Size
      <4>3. /\ l \in Nat /\ task[p].ms \in Nat
        BY <1>7, <2>3, TaskTypes
      <4>4. Clamped(task[p].ms, l) >= Starts(l + 1)
        BY <2>1, <2>3, <4>1
      <4>5. Late(p, l)
        <5>1. Starts(l) < Starts(l + 1) /\ Starts(l) \in Nat /\ Starts(l + 1) \in Nat
          BY <4>3, SizesAssumption DEF Starts
        <5> QED
          BY <4>3, <4>4, <5>1 DEF Clamped, Late
      <4>6. Chosen(p, l)
        BY <1>7, <2>3 DEF At, Chosen
      <4>7. p \in MayWrite(l)
        BY <1>7, <4>6 DEF MayWrite
      <4>8. Size(l) + Cardinality(MayWrite(l)) < Roll + Cardinality(started)
        BY <1>1, <1>7, <4>3, <4>5, <4>6 DEF Room
      <4>9. Cardinality(MayWrite(l)) \in Nat \ {0}
        BY <4>7, Counts, FS_EmptySet
      <4> QED
        BY <1>2, <4>1, <4>2, <4>8, <4>9, SizesAssumption
    <3> QED
      BY <3>1, <3>2
  <2>4. \/ l \in DOMAIN files /\ files'[l] = files[l]
        \/ /\ l = task[p].label
           /\ \E s \in Seq(DOMAIN issued) :
                 /\ s = << >> \/ (l \in DOMAIN files /\ s = files[l])
                 /\ files'[l] = Append(s, Len(issued) + 1)
    BY <1>7, AppendedFile
  <2> QED
    BY <2>2, <2>3, <2>4
<1> QED
  BY <1>5, <1>6, <1>7, TaskSteps DEF Done

\* A full file takes, after its own hour, no more than one line of each process
\* that had already found room in it, whatever fails or is deleted meanwhile,
\* unless the clock was set back (traceActiveLabel() and traceAppend()).
THEOREM OverrunBounded == TraceSpec => []OverrunIsBounded
<1> DEFINE Inv == TraceTypeOK /\ Writers /\ Room /\ OverrunIsBounded
<1>1. TraceInit => Inv
  <2> SUFFICES ASSUME TraceInit PROVE Inv
    OBVIOUS
  <2>1. \A p \in Procs : task[p] = Idle
    BY DEF TraceInit
  <2>2. Writers /\ Room
    BY <2>1 DEF Writers, Room
  <2>3. files = << >>
    BY DEF TraceInit
  <2>4. OverrunIsBounded
    BY <2>3 DEF OverrunIsBounded
  <2> QED
    BY <2>2, <2>4, InitTyped
<1>2. Inv /\ [TraceNext]_vars => Inv'
  BY TypedStep, WritersStep, RoomStep, OverrunStep
<1>3. Inv => OverrunIsBounded
  OBVIOUS
<1> QED
  BY <1>1, <1>2, <1>3, PTL DEF TraceSpec
=============================================================================
