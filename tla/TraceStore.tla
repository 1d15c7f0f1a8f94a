----------------------------- MODULE TraceStore -----------------------------
(***************************************************************************)
(* The process trace store (trace.ts): before a process starts a child it  *)
(* appends one line to a shared directory of files and puts the line's     *)
(* identifier in the child's environment.  Any number of processes write,  *)
(* each by a few system calls and without a lock; the clock may be set     *)
(* back, a call may fail, and the files may be deleted under the writers.  *)
(*                                                                         *)
(* A file is named for the UTC hour its range starts at and is a sequence  *)
(* of lines; its size is counted in lines.  An identifier is the index of  *)
(* its entry in `issued`: eighty random bits make no two alike.  Opening a *)
(* file for the append and writing to it are one step: deleted in between, *)
(* the file takes the line with it, as it would deleted right after.       *)
(***************************************************************************)
EXTENDS Integers, Sequences, FiniteSets

CONSTANTS
    Procs,       \* the processes
    Roots,       \* those started from outside
    RootEnv,     \* what they find in STRICTCLI_TRACE_PARENT
    Hour,        \* MS_PER_HOUR
    Roll,        \* TRACE_ROLL_BYTES
    MaxTime,     \* bound on the clock
    MaxEntries,  \* bound on the entries
    MaxMishaps   \* bound on failures, deletions and clock changes

\* What the variable holds: nothing, a text that is no identifier, an
\* identifier of nobody here, or the identifier of an entry.
Variable == [kind : {"none", "invalid", "foreign", "entry"}, id : Nat]
Unset == [kind |-> "none", id |-> 0]
Foreign == [kind |-> "foreign", id |-> 0]
Invalid == [kind |-> "invalid", id |-> 0]

ASSUME RootsAssumption == Roots \subseteq Procs /\ IsFiniteSet(Procs)
ASSUME RootEnvAssumption == RootEnv \in [Roots -> {Unset, Foreign, Invalid}]
ASSUME SizesAssumption == Hour \in Nat \ {0} /\ Roll \in Nat \ {0}
ASSUME BoundsAssumption == MaxTime \in Nat /\ MaxEntries \in Nat /\ MaxMishaps \in Nat

VARIABLES
    now,        \* Date.now()
    setBack,    \* the clock has been set back
    mishaps,    \* how many failures, deletions and clock changes there were
    store,      \* the directory exists
    files,      \* the partitions in it, by label
    marker,     \* the failure marker is in it
    issued,     \* the entries minted and written
    started,    \* the processes that run
    starter,    \* who started each of them
    inherited,  \* STRICTCLI_TRACE_PARENT in the environment of each
    task        \* how far each is in traceWriteEntry()

clockVars == <<now, setBack>>
machineVars == <<clockVars, mishaps>>
storeVars == <<store, files, marker>>
treeVars == <<issued, started, starter, inherited>>
vars == <<machineVars, storeVars, treeVars, task>>

Mishap == mishaps < MaxMishaps /\ mishaps' = mishaps + 1

LabelBefore(ms) == (ms \div Hour) - 1 \* mutated: rounded down once too often
LabelOf(ms) == ms \div Hour
Starts(label) == label * Hour

Entry == [writer : Procs, child : Procs, ms : Nat, parent : Variable]
Idle == [step |-> "idle"]
Task == [step : {"list", "stat", "create", "append"},
         child : Procs, ms : Nat, label : Nat]

TraceTypeOK ==
    /\ now \in Nat /\ setBack \in BOOLEAN /\ mishaps \in Nat
    /\ store \in BOOLEAN /\ marker \in BOOLEAN
    /\ DOMAIN files \subseteq Nat
    /\ \A l \in DOMAIN files : files[l] \in Seq(DOMAIN issued)
    /\ issued \in Seq(Entry)
    /\ started \subseteq Procs
    /\ starter \in [Procs -> Procs]
    /\ inherited \in [Procs -> Variable]
    /\ task \in [Procs -> Task \cup {Idle}]

-----------------------------------------------------------------------------
(* Choosing a partition: traceActiveLabel().                               *)

At(p, step) == p \in started /\ task[p].step = step
Goto(p, step, label) == task' = [task EXCEPT ![p].step = step, ![p].label = label]

\* mkdirSync() and Date.now(), on the way to starting `child`.  A mkdirSync()
\* that throws is a store deleted right after it, and Fail.
Begin(p, child) ==
    /\ At(p, "idle")
    /\ child \in Procs \ started
    /\ \A q \in started : task[q].step # "idle" => task[q].child # child
    /\ store' = TRUE
    /\ task' = [task EXCEPT ![p] = [step |-> "list", child |-> child, ms |-> now, label |-> 0]]
    /\ UNCHANGED <<machineVars, files, marker, treeVars>>

\* readdirSync(): the greatest-named file is the active partition.
List(p) ==
    /\ At(p, "list") /\ store
    /\ \/ files = << >> /\ Goto(p, "create", LabelOf(task[p].ms))
       \/ \E active \in DOMAIN files :
             /\ \A l \in DOMAIN files : l <= active
             /\ Goto(p, IF LabelOf(task[p].ms) > active THEN "stat" ELSE "append", active)
    /\ UNCHANGED <<machineVars, storeVars, treeVars>>

FullAfter(label) == label \in DOMAIN files /\ Len(files[label]) > Roll \* mutated: off by one
\* A file that cannot be read any more counts as empty.
Full(label) == label \in DOMAIN files /\ Len(files[label]) >= Roll

Stat(p) ==
    /\ At(p, "stat")
    /\ IF Full(task[p].label)
       THEN Goto(p, "create", LabelOf(task[p].ms))
       ELSE Goto(p, "append", task[p].label)
    /\ UNCHANGED <<machineVars, storeVars, treeVars>>

WithFile(label) ==
    [l \in DOMAIN files \cup {label} |-> IF l \in DOMAIN files THEN files[l] ELSE << >>]

\* traceCreatePartition(): O_EXCL makes one of several writers win, and every
\* failure is swallowed.
Create(p) ==
    /\ At(p, "create")
    /\ files' \in {files} \cup (IF store THEN {WithFile(task[p].label)} ELSE {})
    /\ Goto(p, "append", task[p].label)
    /\ UNCHANGED <<machineVars, store, marker, treeVars>>

-----------------------------------------------------------------------------
(* The entry, and the child's environment: traceChildEnv().                *)

ClampedNever(ms, label) == ms \* mutated: the clock is taken as it is
Clamped(ms, label) == IF ms < Starts(label) THEN Starts(label) ELSE ms

\* The value an entry records: an inherited text that is no identifier is null.
Recorded(v) == IF v.kind = "invalid" THEN Unset ELSE v

ComposeOver(base, own) == IF own = Unset THEN base ELSE own \* mutated: nothing is removed
\* The framework's value wins over what the handler's merge left there, and a
\* lost entry removes it.
Compose(base, own) == own

\* The start of the child, which may fail; the handler's merged environment
\* may carry the parent's own value, none, or another.
StartChild(p, own) ==
    LET child == task[p].child IN
    /\ task' = [task EXCEPT ![p] = Idle]
    /\ \/ UNCHANGED <<started, starter, inherited>>
       \/ /\ started' = started \cup {child}
          /\ starter' = [starter EXCEPT ![child] = p]
          /\ \E base \in {inherited[p], Unset, Foreign} :
                inherited' = [inherited EXCEPT ![child] = Compose(base, own)]

\* One O_APPEND write, which creates a file that is gone.
AppendEntry(p) ==
    LET t == task[p]  id == Len(issued) + 1 IN
    /\ At(p, "append") /\ store
    /\ Len(issued) < MaxEntries
    /\ issued' = Append(issued, [writer |-> p, child |-> t.child,
                                 ms |-> Clamped(t.ms, t.label),
                                 parent |-> Recorded(inherited[p])])
    /\ files' = [WithFile(t.label) EXCEPT ![t.label] = Append(@, id)]
    /\ StartChild(p, [kind |-> "entry", id |-> id])
    /\ UNCHANGED <<machineVars, store, marker>>

\* Any other call that throws, in a directory that is gone or not: the marker is
\* left there, if it can be, and the child starts without the variable.
Fail(p) ==
    /\ At(p, "list") \/ At(p, "append")
    /\ marker' \in {marker, marker \/ store}
    /\ StartChild(p, Unset)
    /\ IF store THEN Mishap ELSE UNCHANGED mishaps
    /\ UNCHANGED <<clockVars, store, files, issued>>

-----------------------------------------------------------------------------
(* The machine.                                                            *)

Tick ==
    /\ now < MaxTime
    /\ now' = now + 1
    /\ UNCHANGED <<setBack, mishaps, storeVars, treeVars, task>>

SetBack ==
    /\ now > 0
    /\ now' \in 0 .. now - 1 /\ setBack' = TRUE
    /\ Mishap
    /\ UNCHANGED <<storeVars, treeVars, task>>

\* Age-based pruning, by whoever owns the store.
Prune(label) ==
    /\ files' = [l \in DOMAIN files \ {label} |-> files[l]]
    /\ Mishap
    /\ UNCHANGED <<clockVars, store, marker, treeVars, task>>

\* "Deleting the store is a supported thing to do."
DeleteStore ==
    /\ store
    /\ store' = FALSE /\ files' = << >> /\ marker' = FALSE
    /\ Mishap
    /\ UNCHANGED <<clockVars, treeVars, task>>

-----------------------------------------------------------------------------
TraceInit ==
    /\ now = 0 /\ setBack = FALSE /\ mishaps = 0
    /\ store = FALSE /\ files = << >> /\ marker = FALSE
    /\ issued = << >>
    /\ started = Roots /\ starter = [p \in Procs |-> p]
    /\ inherited = [p \in Procs |-> IF p \in Roots THEN RootEnv[p] ELSE Unset]
    /\ task = [p \in Procs |-> Idle]

Write(p) ==
    \/ \E child \in Procs : Begin(p, child)
    \/ List(p) \/ Stat(p) \/ Create(p) \/ AppendEntry(p) \/ Fail(p)

TraceNext ==
    \/ \E p \in Procs : Write(p)
    \/ Tick \/ SetBack \/ DeleteStore
    \/ \E l \in DOMAIN files : Prune(l)

TraceSpec == TraceInit /\ [][TraceNext]_vars

-----------------------------------------------------------------------------
(* Properties.                                                             *)

\* "A file holds nothing older than its own label", whatever the clock did
\* between the choice of the file and the write: a reader that goes from the
\* greatest label not after an identifier's instant backward finds it.
NeverBeforeLabel ==
    \A l \in DOMAIN files : \A i \in DOMAIN files[l] :
        issued[files[l][i]].ms >= Starts(l)

\* A child is attributed to the invocation that started it and to no other:
\* what it inherited is the entry its starter wrote for this very start, or
\* nothing, and never what its starter inherited or its handler put there.
ChainIsAncestry ==
    /\ \A p \in started \ Roots :
          \/ inherited[p] = Unset
          \/ /\ inherited[p].kind = "entry"
             /\ issued[inherited[p].id].child = p
             /\ issued[inherited[p].id].writer = starter[p]
    /\ \A i \in DOMAIN issued :
          issued[i].parent = Recorded(inherited[issued[i].writer])

\* A file that is full takes, after its own hour, no more than one line of each
\* process that had already chosen it, unless the clock was set back: what is
\* left of "worst-case file size is therefore the 8 MB threshold plus one hour
\* of writes" when several processes roll without a lock.
OverrunIsBounded ==
    ~setBack =>
        \A l \in DOMAIN files : \A i \in DOMAIN files[l] :
            issued[files[l][i]].ms >= Starts(l + 1) => i < Roll + Cardinality(started)
=============================================================================
