-------------------------- MODULE ConfigStoreProofs --------------------------
(***************************************************************************)
(* Theorems about the configuration file, for every app, every job, every  *)
(* text an editor may leave and any number of processes.                   *)
(*                                                                         *)
(* What a step may do to a process is stated once (StepsOf); the invariant *)
(* ties what a process is about to write to the content it goes by.        *)
(***************************************************************************)
EXTENDS ConfigStore, TLAPS

Files == {"own", "other"}

\* The two files; a file that is not there has no keys.
FilesOK ==
    /\ file = [x \in Files |-> file[x]]
    /\ \A x \in Files : file[x].state = "absent" => file[x].data = NoKeys

\* A process is a record of these fields, whatever values the file holds.
Fields == {"at", "job", "memory", "pending", "known", "intact", "result"}
Shaped(x) == x = [field \in Fields |-> x[field]]

\* What a process is about to write, and the content it goes by.
GoesBy(x) ==
    /\ x.at \in {"splice", "write", "fill", "editor"} => Own(x.job)
    /\ x.at = "fill" => ~x.job.dry
    /\ x.at = "splice" => x.job.cmd = "set"
    /\ x.at = "handler" => \A old \in x.known : x.memory.data = old.data
    /\ x.at \in {"write", "fill"} /\ x.job.cmd = "set" =>
            \A old \in x.known : x.pending = Edited(old.data, x.job)
    /\ x.intact => x.known # {}

ProcessesOK ==
    /\ proc = [p \in Procs |-> proc[p]]
    /\ \A p \in Procs : Shaped(proc[p]) /\ GoesBy(proc[p])

StoreInv == FilesOK /\ ProcessesOK

-----------------------------------------------------------------------------
(* An edit changes the key it names.                                       *)

LEMMA EditIsApart ==
    ASSUME NEW data, NEW job
    PROVE  OneKeyApart(data, Edited(data, job), job)
<1> DEFINE new == Edited(data, job)
<1>1. CASE job.write = "default"
  <2>1. new = [k \in DOMAIN data \ {job.key} |-> data[k]]
    BY <1>1 DEF Edited
  <2> QED
    BY <1>1, <2>1 DEF OneKeyApart
<1>2. CASE job.write # "default"
  <2> DEFINE value == IF job.write = "clear" THEN <<>> ELSE job.words
  <2>1. new = [k \in DOMAIN data \cup {job.key} |-> IF k # job.key THEN data[k] ELSE value]
    BY <1>2 DEF Edited
  <2>2. job.write = "value" => value = job.words
    OBVIOUS
  <2> HIDE DEF value
  <2> QED
    BY <1>2, <2>1, <2>2 DEF OneKeyApart
<1> QED
  BY <1>1, <1>2

-----------------------------------------------------------------------------
(* One step of one process.                                                *)

\* Process p becomes y; the file changes only where p may change it.
Becomes(p, y) ==
    /\ Shaped(y) /\ GoesBy(y)
    /\ proc' = [proc EXCEPT ![p] = y]
    /\ \/ file' = file
       \/ /\ Own(Job(p)) /\ ~Job(p).dry /\ proc[p].at \in {"write", "fill", "editor"}
          /\ \E f : /\ f.state = "absent" => f.data = NoKeys
                    /\ file' = [file EXCEPT !.own = f]

\* A process that has ended goes by nothing any more.
LEMMA EndedIsOK ==
    ASSUME NEW memory, NEW result, NEW job
    PROVE  LET y == [Idle(memory, result) EXCEPT !.job = job] IN
           /\ Shaped(Idle(memory, result)) /\ GoesBy(Idle(memory, result))
           /\ Shaped(y) /\ GoesBy(y) /\ y.at = "idle"
<1>1. PICK x : x = Idle(memory, result)
  OBVIOUS
<1>2. Shaped(x) /\ x.at = "idle" /\ x.known = {} /\ x.intact = FALSE
  BY <1>1 DEF Idle, Shaped, Fields
<1>3. PICK y : y = [x EXCEPT !.job = job]
  OBVIOUS
<1>4. Shaped(y) /\ y.at = "idle" /\ y.known = {} /\ y.intact = FALSE
  BY <1>2, <1>3 DEF Shaped, Fields
<1>5. GoesBy(x) /\ GoesBy(y)
  BY <1>2, <1>4 DEF GoesBy
<1> QED
  BY <1>1, <1>2, <1>3, <1>4, <1>5

LEMMA EndsBecomes ==
    ASSUME NEW p \in Procs, NEW memory, NEW result, Ends(p, memory, result)
    PROVE  \E y : Shaped(y) /\ GoesBy(y) /\ proc' = [proc EXCEPT ![p] = y]
<1>1. PICK y : y = [Idle(memory, result) EXCEPT !.job = Job(p)]
  OBVIOUS
<1>2. proc' = [proc EXCEPT ![p] = y]
  BY <1>1 DEF Ends
<1>3. Shaped(y) /\ GoesBy(y)
  BY <1>1, EndedIsOK
<1> QED
  BY <1>2, <1>3

\* A process whose handler is about to run.
LEMMA HandlerIsOK ==
    ASSUME NEW memory, NEW job, NEW known, \A old \in known : memory.data = old.data
    PROVE  LET y == [Idle(memory, "none") EXCEPT !.at = "handler", !.job = job, !.known = known]
           IN  Shaped(y) /\ GoesBy(y)
<1>1. PICK x : x = Idle(memory, "none")
  OBVIOUS
<1>2. Shaped(x) /\ x.memory = memory /\ x.intact = FALSE
  BY <1>1 DEF Idle, Shaped, Fields
<1>3. PICK y : y = [x EXCEPT !.at = "handler", !.job = job, !.known = known]
  OBVIOUS
<1>4. Shaped(y) /\ y.at = "handler" /\ y.known = known /\ y.intact = FALSE /\ y.memory = memory
  BY <1>2, <1>3 DEF Shaped, Fields
<1>5. GoesBy(y)
  BY <1>4 DEF GoesBy
<1> QED
  BY <1>1, <1>3, <1>4, <1>5

LEMMA ParseBecomes ==
    ASSUME FilesOK, NEW p \in Procs, NEW job
    PROVE  Shaped(Parse(p, job)) /\ GoesBy(Parse(p, job))
<1> DEFINE load == IF job.hermetic THEN [data |-> NoKeys, err |-> FALSE] ELSE Load(job)
           memory == IF job.hermetic THEN proc[p].memory
                     ELSE [loaded |-> TRUE, err |-> load.err, data |-> load.data]
           stage == Stage(job, load)
           ownRead == ~job.hermetic /\ ~job.custom /\ ~app.noDefault /\ ~load.err
           known == IF ownRead THEN {file.own} ELSE {}
           y == [Idle(memory, "none") EXCEPT !.at = "handler", !.job = job, !.known = known]
<1>1. ownRead => memory.data = file.own.data
  <2>1. ~job.hermetic /\ ~job.custom /\ ~app.noDefault => load.data = file.own.data
    BY DEF Load, FilesOK, Files
  <2>2. ~job.hermetic => memory.data = load.data
    <3> HIDE DEF load
    <3> QED
      OBVIOUS
  <2> QED
    BY <2>1, <2>2
<1>2. Parse(p, job) = IF stage # "accepted" \/ ~Own(job)
                      THEN [Idle(memory, stage) EXCEPT !.job = job] ELSE y
  BY DEF Parse
<1>3. \A old \in known : memory.data = old.data
  <2> HIDE DEF memory, load
  <2> QED
    BY <1>1
<1> HIDE DEF known, memory, stage
<1>4. Shaped(y) /\ GoesBy(y)
  BY <1>3, HandlerIsOK
<1>5. LET z == [Idle(memory, stage) EXCEPT !.job = job] IN Shaped(z) /\ GoesBy(z)
  BY EndedIsOK
<1> HIDE DEF y
<1> QED
  BY <1>2, <1>4, <1>5

LEMMA BeginBecomes ==
    ASSUME StoreInv, NEW p \in Procs, Begin(p)
    PROVE  \E y : Becomes(p, y)
<1>1. PICK job \in Jobs :
        proc' = [proc EXCEPT ![p] =
            IF job.door = "call"
            THEN [Idle(@.memory, "none") EXCEPT !.at = "handler", !.job = job]
            ELSE Parse(p, job)]
  BY DEF Begin
<1>2. file' = file
  BY DEF Begin
<1>3. CASE job.door # "call"
  <2>1. proc' = [proc EXCEPT ![p] = Parse(p, job)]
    BY <1>1, <1>3
  <2>2. Shaped(Parse(p, job)) /\ GoesBy(Parse(p, job))
    BY ParseBecomes DEF StoreInv
  <2> QED
    BY <1>2, <2>1, <2>2 DEF Becomes
<1>4. CASE job.door = "call"
  <2> DEFINE z == [Idle(proc[p].memory, "none") EXCEPT !.at = "handler", !.job = job]
  <2>1. PICK x : x = Idle(proc[p].memory, "none")
    OBVIOUS
  <2>2. Shaped(x) /\ x.known = {}
    BY <2>1 DEF Idle, Shaped, Fields
  <2>3. PICK y : y = [x EXCEPT !.at = "handler", !.job = job, !.known = {}]
    OBVIOUS
  <2>4. [x EXCEPT !.at = "handler", !.job = job] = y
    BY <2>2, <2>3 DEF Shaped, Fields
  <2>5. Shaped(y) /\ GoesBy(y)
    BY <2>1, <2>3, HandlerIsOK
  <2>6. proc' = [proc EXCEPT ![p] = z] /\ z = y
    BY <1>1, <1>4, <2>1, <2>4
  <2> QED
    BY <1>2, <2>5, <2>6 DEF Becomes
<1> QED
  BY <1>3, <1>4

LEMMA SetBecomes ==
    ASSUME StoreInv, NEW p \in Procs, Set(p)
    PROVE  \E y : Becomes(p, y)
<1> DEFINE x == proc[p]
           job == Job(p)
           edited == Edited(x.memory.data, job)
           after == IF x.memory.loaded THEN [x.memory EXCEPT !.data = edited] ELSE x.memory
           place == IF app.format = "toml" THEN "splice" ELSE "write"
<1>1. x.at = "handler" /\ job.cmd = "set" /\ job = x.job /\ file' = file
  BY DEF Set, At, Job
<1>2. Shaped(x) /\ GoesBy(x)
  BY DEF StoreInv, ProcessesOK
<1>3. \/ Ends(p, x.memory, "failed")
      \/ proc' = [proc EXCEPT ![p].memory = after, ![p].pending = edited, ![p].at = place]
  BY DEF Set
<1>4. CASE proc' = [proc EXCEPT ![p].memory = after, ![p].pending = edited, ![p].at = place]
  <2>1. PICK y : y = [x EXCEPT !.memory = after, !.pending = edited, !.at = place]
    OBVIOUS
  <2>2. proc' = [proc EXCEPT ![p] = y]
    <3> HIDE DEF after, edited, place
    <3> QED
      BY <1>4, <2>1
  <2>3. /\ Shaped(y) /\ y.pending = edited /\ y.at = place /\ y.job = job
        /\ y.known = x.known /\ y.intact = x.intact
    <3> HIDE DEF after, edited, place
    <3> QED
      BY <1>1, <1>2, <2>1 DEF Shaped, Fields
  <2>4. GoesBy(y)
    <3>1. \A old \in y.known : y.pending = Edited(old.data, y.job)
      BY <1>1, <1>2, <2>3 DEF GoesBy
    <3>2. y.at \in {"splice", "write"} /\ Own(y.job)
      BY <1>1, <2>3 DEF Own
    <3>3. y.intact => y.known # {}
      BY <1>2, <2>3 DEF GoesBy
    <3> QED
      BY <1>1, <2>3, <3>1, <3>2, <3>3 DEF GoesBy
  <2> QED
    BY <1>1, <2>2, <2>3, <2>4 DEF Becomes
<1> QED
  BY <1>1, <1>3, <1>4, EndsBecomes DEF Becomes

LEMMA SpliceBecomes ==
    ASSUME StoreInv, NEW p \in Procs, Splice(p)
    PROVE  \E y : Becomes(p, y)
<1> DEFINE x == proc[p]
           edited == Edited(file.own.data, x.job)
<1>1. x.at = "splice" /\ file' = file
  BY DEF Splice
<1>2. Shaped(x) /\ GoesBy(x)
  BY DEF StoreInv, ProcessesOK
<1>3. \/ Ends(p, x.memory, "failed")
      \/ proc' = [proc EXCEPT ![p].pending = edited, ![p].known = {file.own}, ![p].at = "write"]
  BY DEF Splice, Job
<1>4. CASE proc' = [proc EXCEPT ![p].pending = edited, ![p].known = {file.own}, ![p].at = "write"]
  <2>1. PICK y : y = [x EXCEPT !.pending = edited, !.known = {file.own}, !.at = "write"]
    OBVIOUS
  <2>2. proc' = [proc EXCEPT ![p] = y]
    <3> HIDE DEF edited
    <3> QED
      BY <1>4, <2>1
  <2>3. /\ Shaped(y) /\ y.pending = edited /\ y.at = "write" /\ y.job = x.job
        /\ y.known = {file.own}
    <3> HIDE DEF edited
    <3> QED
      BY <1>2, <2>1 DEF Shaped, Fields
  <2>4. GoesBy(y)
    BY <1>1, <1>2, <2>3 DEF GoesBy
  <2> QED
    BY <1>1, <2>2, <2>3, <2>4 DEF Becomes
<1> QED
  BY <1>1, <1>3, <1>4, EndsBecomes DEF Becomes

\* Jobs that write something else than one key.
LEMMA HandlerGoes ==
    ASSUME NEW x, Shaped(x), GoesBy(x), Own(x.job), x.job.cmd # "set",
           NEW pending, NEW place \in {"write", "editor"}
    PROVE  LET y == [x EXCEPT !.pending = pending, !.at = place] IN Shaped(y) /\ GoesBy(y)
<1>1. PICK y : y = [x EXCEPT !.pending = pending, !.at = place]
  OBVIOUS
<1>2. /\ Shaped(y) /\ y.at = place /\ y.job = x.job
      /\ y.known = x.known /\ y.intact = x.intact
  BY <1>1 DEF Shaped, Fields
<1>3. GoesBy(y)
  BY <1>2 DEF GoesBy
<1> QED
  BY <1>1, <1>2, <1>3

LEMMA InitFileBecomes ==
    ASSUME StoreInv, NEW p \in Procs, InitFile(p)
    PROVE  \E y : Becomes(p, y)
<1>1. proc[p].job.cmd = "init" /\ Own(proc[p].job) /\ file' = file
  BY DEF InitFile, At, Job, Own
<1>2. Shaped(proc[p]) /\ GoesBy(proc[p])
  BY DEF StoreInv, ProcessesOK
<1>3. \/ Ends(p, proc[p].memory, "failed")
      \/ proc' = [proc EXCEPT ![p].pending = Template, ![p].at = "write"]
  BY DEF InitFile
<1>4. CASE proc' = [proc EXCEPT ![p].pending = Template, ![p].at = "write"]
  <2>1. PICK y : y = [proc[p] EXCEPT !.pending = Template, !.at = "write"]
    OBVIOUS
  <2>2. proc' = [proc EXCEPT ![p] = y]
    BY <1>4, <2>1
  <2>3. Shaped(y) /\ GoesBy(y)
    BY <1>1, <1>2, <2>1, HandlerGoes
  <2> QED
    BY <1>1, <2>2, <2>3 DEF Becomes
<1> QED
  BY <1>1, <1>3, <1>4, EndsBecomes DEF Becomes

LEMMA EditBecomes ==
    ASSUME StoreInv, NEW p \in Procs, Edit(p)
    PROVE  \E y : Becomes(p, y)
<1> DEFINE place == IF file.own.state = "absent" THEN "write" ELSE "editor"
<1>1. proc[p].job.cmd = "edit" /\ Own(proc[p].job) /\ file' = file
  BY DEF Edit, At, Job, Own
<1>2. Shaped(proc[p]) /\ GoesBy(proc[p])
  BY DEF StoreInv, ProcessesOK
<1>3. proc' = [proc EXCEPT ![p].pending = NoKeys, ![p].at = place]
  BY DEF Edit
<1>4. place \in {"write", "editor"}
  OBVIOUS
<1> HIDE DEF place
<1>5. PICK y : y = [proc[p] EXCEPT !.pending = NoKeys, !.at = place]
  OBVIOUS
<1>6. proc' = [proc EXCEPT ![p] = y]
  BY <1>3, <1>5
<1>7. Shaped(y) /\ GoesBy(y)
  BY <1>1, <1>2, <1>4, <1>5, HandlerGoes
<1> QED
  BY <1>1, <1>6, <1>7 DEF Becomes

LEMMA EditorBecomes ==
    ASSUME StoreInv, NEW p \in Procs, Editor(p)
    PROVE  \E y : Becomes(p, y)
<1>1. PICK y : Shaped(y) /\ GoesBy(y) /\ proc' = [proc EXCEPT ![p] = y]
  BY EndsBecomes DEF Editor
<1>2. proc[p].at = "editor" /\ Own(Job(p))
  BY DEF Editor, StoreInv, ProcessesOK, GoesBy, Job
<1>3. \A f \in Edits : f.state = "absent" => f.data = NoKeys
  BY FilesAssumption DEF AbsentFile
<1> QED
  BY <1>1, <1>2, <1>3 DEF Editor, Becomes

LEMMA ContinuesBecomes ==
    ASSUME StoreInv, NEW p \in Procs, Continues(p), Own(Job(p)), proc[p].at \in {"write", "fill"}
    PROVE  \E y : Shaped(y) /\ GoesBy(y) /\ proc' = [proc EXCEPT ![p] = y]
<1>1. CASE Job(p).cmd # "edit"
  BY <1>1, EndsBecomes DEF Continues
<1>2. CASE Job(p).cmd = "edit"
  <2>1. Shaped(proc[p]) /\ GoesBy(proc[p]) /\ Own(proc[p].job) /\ proc[p].job.cmd # "set"
    BY <1>2 DEF StoreInv, ProcessesOK, Job
  <2>2. PICK y : y = [proc[p] EXCEPT !.at = "editor"]
    OBVIOUS
  <2>3. proc' = [proc EXCEPT ![p] = y]
    BY <1>2, <2>2 DEF Continues
  <2>4. /\ Shaped(y) /\ y.at = "editor" /\ y.job = proc[p].job
        /\ y.known = proc[p].known /\ y.intact = proc[p].intact
    BY <2>1, <2>2 DEF Shaped, Fields
  <2>5. GoesBy(y)
    BY <2>1, <2>4 DEF GoesBy
  <2> QED
    BY <2>3, <2>4, <2>5
<1> QED
  BY <1>1, <1>2

LEMMA WriteBecomes ==
    ASSUME StoreInv, NEW p \in Procs, Write(p)
    PROVE  \E y : Becomes(p, y)
<1> DEFINE x == proc[p]
<1>1. Shaped(x) /\ GoesBy(x) /\ x.at = "write" /\ Own(Job(p)) /\ Job(p) = x.job
  BY DEF StoreInv, ProcessesOK, GoesBy, Write, Job
<1>2. CASE Job(p).dry
  <2>1. Continues(p) /\ file' = file
    BY <1>2 DEF Write
  <2> QED
    BY <1>1, <2>1, ContinuesBecomes DEF Becomes
<1>3. CASE ~Job(p).dry
  <2>1. PICK same : same = (x.known = {file.own})
    OBVIOUS
  <2>2. /\ proc' = [proc EXCEPT ![p].at = "fill", ![p].intact = same]
        /\ file' = [file EXCEPT !.own = Truncated]
    BY <1>3, <2>1 DEF Write
  <2>3. PICK y : y = [x EXCEPT !.at = "fill", !.intact = same]
    OBVIOUS
  <2>4. proc' = [proc EXCEPT ![p] = y]
    BY <2>2, <2>3
  <2>5. /\ Shaped(y) /\ y.at = "fill" /\ y.job = x.job /\ y.pending = x.pending
        /\ y.known = x.known /\ y.intact = same
    BY <1>1, <2>3 DEF Shaped, Fields
  <2>6. same => x.known # {}
    BY <2>1
  <2>7. GoesBy(y)
    BY <1>1, <1>3, <2>5, <2>6 DEF GoesBy
  <2>8. Truncated.state = "absent" => Truncated.data = NoKeys
    BY DEF Truncated, Table, BrokenFile
  <2> QED
    BY <1>1, <1>3, <2>2, <2>4, <2>5, <2>7, <2>8 DEF Becomes
<1> QED
  BY <1>2, <1>3

LEMMA FillBecomes ==
    ASSUME StoreInv, NEW p \in Procs, Fill(p)
    PROVE  \E y : Becomes(p, y)
<1>1. proc[p].at = "fill" /\ Own(Job(p)) /\ ~Job(p).dry
  BY DEF StoreInv, ProcessesOK, GoesBy, Fill, Job
<1>2. PICK y : Shaped(y) /\ GoesBy(y) /\ proc' = [proc EXCEPT ![p] = y]
  BY <1>1, ContinuesBecomes DEF Fill
<1>3. /\ file' = [file EXCEPT !.own = Table(proc[p].pending)]
      /\ Table(proc[p].pending).state # "absent"
  BY DEF Fill, Table
<1> QED
  BY <1>1, <1>2, <1>3 DEF Becomes

LEMMA CrashBecomes ==
    ASSUME StoreInv, NEW p \in Procs, Crash(p)
    PROVE  \E y : Becomes(p, y)
  BY EndedIsOK DEF Crash, Becomes

LEMMA ShowBecomes ==
    ASSUME StoreInv, NEW p \in Procs, Show(p)
    PROVE  \E y : Becomes(p, y)
  BY EndsBecomes DEF Show, Becomes

LEMMA StoreSteps ==
    ASSUME StoreInv, StoreNext
    PROVE  \E p, y : p \in Procs /\ Becomes(p, y)
  BY BeginBecomes, SetBecomes, SpliceBecomes, InitFileBecomes, EditBecomes, EditorBecomes,
     ShowBecomes, WriteBecomes, FillBecomes, CrashBecomes DEF StoreNext

-----------------------------------------------------------------------------
(* The invariant.                                                          *)

LEMMA StoreInvHolds ==
    ASSUME StoreInv, [StoreNext]_storeVars
    PROVE  StoreInv'
<1>1. CASE UNCHANGED storeVars
  BY <1>1 DEF storeVars, StoreInv, FilesOK, ProcessesOK
<1>2. CASE StoreNext
  <2>1. PICK p, y : p \in Procs /\ Becomes(p, y)
    BY <1>2, StoreSteps
  <2>2. ProcessesOK'
    BY <2>1 DEF Becomes, StoreInv, ProcessesOK
  <2>3. FilesOK'
    <3>1. CASE file' = file
      BY <3>1 DEF StoreInv, FilesOK
    <3>2. CASE file' # file
      <4>1. PICK f : /\ f.state = "absent" => f.data = NoKeys
                     /\ file' = [file EXCEPT !.own = f]
        BY <2>1, <3>2 DEF Becomes
      <4> QED
        BY <4>1 DEF StoreInv, FilesOK, Files
    <3> QED
      BY <3>1, <3>2
  <2> QED
    BY <2>2, <2>3 DEF StoreInv
<1> QED
  BY <1>1, <1>2

LEMMA StoreStarts == StoreInit => StoreInv
<1> SUFFICES ASSUME StoreInit PROVE StoreInv
  OBVIOUS
<1>1. FilesOK
  BY FilesAssumption DEF StoreInit, FilesOK, Files, AbsentFile
<1>2. ProcessesOK
  BY EndedIsOK DEF StoreInit, ProcessesOK
<1> QED
  BY <1>1, <1>2 DEF StoreInv

-----------------------------------------------------------------------------
(* The property.                                                           *)

LEMMA OnlyLiveCommandsWrite ==
    ASSUME StoreInv, [StoreNext]_storeVars, file' # file
    PROVE  /\ file'.other = file.other
           /\ \E p \in Procs : /\ Own(Job(p)) /\ ~Job(p).dry
                               /\ proc[p].at \in {"write", "fill", "editor"}
<1>1. StoreNext
  BY DEF storeVars
<1>2. PICK p, y : p \in Procs /\ Becomes(p, y)
  BY <1>1, StoreSteps
<1>3. PICK f : file' = [file EXCEPT !.own = f]
  BY <1>2 DEF Becomes
<1>4. file'.other = file.other
  BY <1>3 DEF StoreInv, FilesOK, Files
<1> QED
  BY <1>2, <1>4 DEF Becomes

\* A process fills its file only by Fill.
LEMMA FilledByFill ==
    ASSUME StoreInv, [StoreNext]_storeVars, NEW p \in Procs, Filled(p)
    PROVE  Fill(p)
<1>1. StoreNext
  BY DEF storeVars, Filled
<1>2. PICK q \in Procs :
        \/ Begin(q) \/ Set(q) \/ Splice(q) \/ InitFile(q) \/ Edit(q) \/ Editor(q)
        \/ Show(q) \/ Write(q) \/ Fill(q) \/ Crash(q)
  BY <1>1 DEF StoreNext
<1>3. q = p
  <2>1. PICK y : Becomes(q, y)
    BY <1>2, BeginBecomes, SetBecomes, SpliceBecomes, InitFileBecomes, EditBecomes, EditorBecomes,
       ShowBecomes, WriteBecomes, FillBecomes, CrashBecomes
  <2>2. q # p => proc'[p] = proc[p]
    BY <2>1 DEF Becomes, StoreInv, ProcessesOK
  <2> QED
    BY <2>2 DEF Filled
<1>4. proc[p].at = "fill"
  BY DEF Filled
<1>5. ~Crash(p)
  <2> SUFFICES ASSUME Crash(p) PROVE FALSE
    OBVIOUS
  <2>1. proc'[p] = Idle(Unloaded, "crashed")
    BY DEF Crash, StoreInv, ProcessesOK
  <2>2. proc'[p].result = "crashed"
    BY <2>1 DEF Idle
  <2> QED
    BY <2>2 DEF Filled
<1>6. ~Begin(p) /\ ~Set(p) /\ ~Splice(p) /\ ~InitFile(p) /\ ~Edit(p)
      /\ ~Editor(p) /\ ~Show(p) /\ ~Write(p)
  BY <1>4 DEF Begin, Set, Splice, InitFile, Edit, Editor, Show, Write, At
<1> QED
  BY <1>2, <1>3, <1>5, <1>6

LEMMA OneKeyChanges ==
    ASSUME StoreInv, [StoreNext]_storeVars, NEW p \in Procs,
           Filled(p), Job(p).cmd = "set", proc[p].intact
    PROVE  \E old \in proc[p].known : OneKeyApart(old.data, file'.own.data, Job(p))
<1>1. Fill(p)
  BY FilledByFill
<1>2. GoesBy(proc[p]) /\ proc[p].at = "fill" /\ proc[p].job = Job(p)
  BY <1>1 DEF StoreInv, ProcessesOK, Fill, Job
<1>3. PICK old \in proc[p].known : proc[p].pending = Edited(old.data, Job(p))
  BY <1>2 DEF GoesBy
<1>4. file'.own.data = proc[p].pending
  BY <1>1 DEF Fill, Table, StoreInv, FilesOK, Files
<1> QED
  BY <1>3, <1>4, EditIsApart

\* A file is changed only by a live config command, and only the app's own;
\* a config set that knew the file as it was changes the one key it names.
THEOREM StoreKeepsItsKeys == StoreSpec => OnlyItsKey
<1> DEFINE Live == file' # file =>
              /\ file'.other = file.other
              /\ \E p \in Procs : /\ Own(Job(p)) /\ ~Job(p).dry
                                  /\ proc[p].at \in {"write", "fill", "editor"}
           OneKey == \A p \in Procs : (Filled(p) /\ Job(p).cmd = "set" /\ proc[p].intact) =>
              \E old \in proc[p].known : OneKeyApart(old.data, file'.own.data, Job(p))
<1>1. StoreInv /\ [StoreNext]_storeVars => [Live /\ OneKey]_storeVars
  BY OnlyLiveCommandsWrite, OneKeyChanges
<1>2. StoreInv /\ [StoreNext]_storeVars => StoreInv'
  BY StoreInvHolds
<1> QED
  BY <1>1, <1>2, StoreStarts, PTL DEF StoreSpec, OnlyItsKey
=============================================================================
