----------------------------- MODULE ConfigStore -----------------------------
(* The configuration file (src/typescript/src/config.ts): what a run reads   *)
(* of it at its parse, and what the framework's own config commands write.   *)
(*                                                                           *)
(* Several processes share the file.  A process may run several commands,    *)
(* through the command line or through call(), and keeps the data of its     *)
(* last parse in memory (app.configData).  The bytes of a file are its keys  *)
(* and values; a dotted name is a key of its own.                            *)
EXTENDS Delivery

CONSTANTS
    Procs,    \* processes
    Apps,     \* apps: format, noDefault, globals, flags, fields, bound
    Jobs,     \* the commands processes are asked to run
    Edits,    \* what an editor may leave in the file
    Starts,   \* contents the two files may have at first
    MaxJobs   \* commands run in all

VARIABLES
    app,      \* the app every process runs
    file,     \* the app's own file, and another one --config may name
    dir,      \* whether the own file's directory exists
    proc,     \* the processes
    jobs      \* commands begun so far

storeVars == <<app, file, dir, proc, jobs>>

NoKeys == [k \in {} |-> <<>>]
Null == <<"null">>

AbsentFile == [state |-> "absent", data |-> NoKeys]
BrokenFile == [state |-> "broken", data |-> NoKeys]
ASSUME FilesAssumption ==
    \A f \in Starts \cup Edits : f.state = "absent" => f = AbsentFile
Table(data) == [state |-> "table", data |-> data]
\* A file of no bytes is a TOML table, and no JSON document.
Truncated == IF app.format = "toml" THEN Table(NoKeys) ELSE BrokenFile

\* No data: this process has not loaded the file.
Unloaded == [loaded |-> FALSE, err |-> FALSE, data |-> NoKeys]
NoJob == [cmd |-> "none", door |-> "argv", custom |-> FALSE, hermetic |-> FALSE,
          dry |-> FALSE, key |-> "", write |-> "value", words |-> <<>>]

\* known is the content of the own file the job goes by, AbsentFile included.
Idle(memory, result) ==
    [at |-> "idle", job |-> NoJob, memory |-> memory, pending |-> NoKeys,
     known |-> {}, intact |-> FALSE, result |-> result]

Own(job) == job.cmd # "run"

-----------------------------------------------------------------------------
(* Declared keys, and what a value must be to fit one.                       *)

AllFlags == app.globals \o app.flags
KnownKeys == NamesOf(AllFlags) \cup NamesOf(app.fields)
Fits(d, value) == value # Null /\ Coercible(d, value)

\* The flags take what the file says; this run gives none of them itself.
Takes(flags, data) ==
    \A i \in DOMAIN flags :
        LET f == flags[i] IN
        IF f.name \in DOMAIN data
        THEN Fits(f, data[f.name]) /\ ChoicesOK(f, data[f.name])
                /\ (f.unique => ~HasDuplicate(data[f.name]))
        ELSE f.presence # "required"

\* An app that declares fields knows every key of its file.
FieldsOK(data) ==
    app.fields # <<>> =>
        /\ \A c \in ToSet(app.fields) : c.name \in app.bound =>
            IF c.name \in DOMAIN data THEN Fits(c, data[c.name]) ELSE c.presence # "required"
        /\ DOMAIN data \subseteq KnownKeys

-----------------------------------------------------------------------------
(* The parse of a command line.                                              *)

\* A default location that is not there is an empty file, a named one is not.
Load(job) ==
    LET found == IF job.custom THEN file.other ELSE file.own
    IN  IF app.noDefault /\ ~job.custom THEN [data |-> NoKeys, err |-> FALSE]
        ELSE IF found.state = "absent" THEN [data |-> NoKeys, err |-> job.custom]
        ELSE [data |-> found.data, err |-> found.state = "broken"]

\* The first stage that refuses: a config command passes over a broken file
\* and over the fields, but comes after the global flags.
Stage(job, load) ==
    IF ~Takes(app.globals, load.data) THEN "globals"
    ELSE IF Own(job) THEN (IF job.hermetic THEN "hermetic" ELSE "accepted")
    ELSE IF load.err THEN "file"
    ELSE IF ~job.hermetic /\ ~FieldsOK(load.data) THEN "fields"
    ELSE IF Takes(app.flags, load.data) THEN "accepted" ELSE "command"

Parse(p, job) ==
    LET load == IF job.hermetic THEN [data |-> NoKeys, err |-> FALSE] ELSE Load(job)
        memory == IF job.hermetic THEN proc[p].memory
                  ELSE [loaded |-> TRUE, err |-> load.err, data |-> load.data]
        stage == Stage(job, load)
        ownRead == ~job.hermetic /\ ~job.custom /\ ~app.noDefault /\ ~load.err
    IN  IF stage # "accepted" \/ ~Own(job)
        THEN [Idle(memory, stage) EXCEPT !.job = job]
        ELSE [Idle(memory, "none") EXCEPT
                !.at = "handler", !.job = job,
                !.known = IF ownRead THEN {file.own} ELSE {}]

\* call() reads no file: the handler works on what the process remembers.
Begin(p) ==
    /\ proc[p].at = "idle" /\ jobs < MaxJobs
    /\ \E job \in Jobs :
        proc' = [proc EXCEPT ![p] =
            IF job.door = "call"
            THEN [Idle(@.memory, "none") EXCEPT !.at = "handler", !.job = job]
            ELSE Parse(p, job)]
    /\ jobs' = jobs + 1
    /\ UNCHANGED <<app, file, dir>>

-----------------------------------------------------------------------------
(* The handlers of the config commands.                                      *)

Job(p) == proc[p].job
At(p, place, cmd) == proc[p].at = place /\ Job(p).cmd = cmd
Ends(p, memory, result) == proc' = [proc EXCEPT ![p] = [Idle(memory, result) EXCEPT !.job = Job(p)]]
MakeDir(p) == dir' = (dir \/ ~Job(p).dry)

DeclOf(key) ==
    LET flags == SelectSeq(AllFlags, LAMBDA f : f.name = key)
    IN  IF flags # <<>> THEN flags[1]
        ELSE SelectSeq(app.fields, LAMBDA c : c.name = key)[1]

\* Whether the words given are a value of the key; choices are not asked.
ValueOK(job) ==
    /\ job.key \in KnownKeys
    /\ LET d == DeclOf(job.key)
       IN  CASE job.write = "clear" -> d.schema = "list"
             [] job.write = "default" -> TRUE
             [] OTHER -> /\ \A i \in DOMAIN job.words : WordOK(d.schema, job.words[i], FALSE)
                         /\ d.unique => ~HasDuplicate(job.words)

Edited(data, job) ==
    CASE job.write = "default" -> [k \in DOMAIN data \ {job.key} |-> data[k]]
      [] OTHER -> [k \in DOMAIN data \cup {job.key} |->
                    IF k # job.key THEN data[k]
                    ELSE IF job.write = "clear" THEN <<>> ELSE job.words]

\* config set works on the data of the parse and edits it in place, also when
\* it only previews; JSON then writes that data, TOML splices the file's text.
Set(p) ==
    /\ At(p, "handler", "set")
    /\ MakeDir(p)
    /\ LET job == Job(p)
           memory == proc[p].memory
           edited == Edited(memory.data, job)
           after == IF memory.loaded THEN [memory EXCEPT !.data = edited] ELSE memory
       IN  IF ~ValueOK(job) \/ (job.write = "default" /\ job.key \notin DOMAIN memory.data)
           THEN Ends(p, memory, "failed")
           ELSE proc' = [proc EXCEPT ![p].memory = after, ![p].pending = edited,
                            ![p].at = IF app.format = "toml" THEN "splice" ELSE "write"]
    /\ UNCHANGED <<app, file, jobs>>

SpliceOfTheParse(p) == \* mutated: the text as the parse read it
    /\ proc[p].at = "splice"
    /\ proc' = [proc EXCEPT ![p].at = "write", ![p].known = {file.own}]
    /\ UNCHANGED <<app, file, dir, jobs>>
\* The splicer reads the file again, and changes nothing but the key's value.
Splice(p) ==
    /\ proc[p].at = "splice"
    /\ LET job == Job(p)
           text == file.own
       IN  IF text.state = "broken" \/ (job.write = "default" /\ job.key \notin DOMAIN text.data)
           THEN Ends(p, proc[p].memory, "failed")
           ELSE proc' = [proc EXCEPT ![p].pending = Edited(text.data, job),
                            ![p].known = {text}, ![p].at = "write"]
    /\ UNCHANGED <<app, file, dir, jobs>>

\* The template: a JSON document cannot leave a key out by a comment.
Template ==
    LET fields == SelectSeq(app.fields, LAMBDA c : c.name \notin NamesOf(AllFlags))
        decls == AllFlags \o fields
        listed == {d \in ToSet(decls) : app.format = "json" \/ d.presence = "default"}
    IN  [k \in {d.name : d \in listed} |->
            IF DeclOf(k).presence = "default" THEN DeclOf(k).dflt ELSE Null]

InitFile(p) ==
    /\ At(p, "handler", "init")
    /\ IF file.own.state # "absent"
       THEN Ends(p, proc[p].memory, "failed") /\ UNCHANGED dir
       ELSE /\ MakeDir(p)
            /\ proc' = [proc EXCEPT ![p].pending = Template, ![p].at = "write"]
    /\ UNCHANGED <<app, file, jobs>>

\* An editor is opened on a file that is there.
Edit(p) ==
    /\ At(p, "handler", "edit")
    /\ MakeDir(p)
    /\ proc' = [proc EXCEPT ![p].pending = NoKeys,
                    ![p].at = IF file.own.state = "absent" THEN "write" ELSE "editor"]
    /\ UNCHANGED <<app, file, jobs>>

Editor(p) ==
    /\ proc[p].at = "editor"
    /\ \/ UNCHANGED file
       \/ ~Job(p).dry /\ \E text \in Edits : file' = [file EXCEPT !.own = text]
    /\ Ends(p, proc[p].memory, "ok")
    /\ UNCHANGED <<app, dir, jobs>>

Show(p) ==
    /\ At(p, "handler", "show")
    /\ Ends(p, proc[p].memory, IF proc[p].memory.err THEN "failed" ELSE "ok")
    /\ UNCHANGED <<app, file, dir, jobs>>

Continues(p) ==
    IF Job(p).cmd = "edit" THEN proc' = [proc EXCEPT ![p].at = "editor"]
    ELSE Ends(p, proc[p].memory, "ok")

\* A write truncates the file, and then fills it.  A dry run only records it.
Write(p) ==
    /\ proc[p].at = "write"
    /\ IF Job(p).dry
       THEN Continues(p) /\ UNCHANGED file
       ELSE /\ file' = [file EXCEPT !.own = Truncated]
            /\ proc' = [proc EXCEPT ![p].at = "fill", ![p].intact = proc[p].known = {file.own}]
    /\ UNCHANGED <<app, dir, jobs>>

Fill(p) ==
    /\ proc[p].at = "fill"
    /\ file' = [file EXCEPT !.own = Table(proc[p].pending)]
    /\ Continues(p)
    /\ UNCHANGED <<app, dir, jobs>>

\* A process dies between any two steps, and starts again without memory.
Crash(p) ==
    /\ proc[p].at # "idle"
    /\ proc' = [proc EXCEPT ![p] = Idle(Unloaded, "crashed")]
    /\ UNCHANGED <<app, file, dir, jobs>>

StoreInit ==
    /\ app \in Apps
    /\ file \in [{"own", "other"} -> Starts]
    /\ dir \in {d \in BOOLEAN : file.own = AbsentFile \/ d}
    /\ proc = [p \in Procs |-> Idle(Unloaded, "none")]
    /\ jobs = 0

StoreNext ==
    \E p \in Procs :
        \/ Begin(p) \/ Set(p) \/ Splice(p) \/ InitFile(p) \/ Edit(p) \/ Editor(p)
        \/ Show(p) \/ Write(p) \/ Fill(p) \/ Crash(p)

StoreSpec == StoreInit /\ [][StoreNext]_storeVars

-----------------------------------------------------------------------------
(* Properties.                                                               *)

Filled(p) ==
    proc[p].at = "fill" /\ proc'[p].at # "fill" /\ proc'[p].result # "crashed"

\* The edit of one key: every other key stays, with the value it had.
OneKeyApart(old, new, job) ==
    /\ job.key \in DOMAIN new <=> job.write # "default"
    /\ job.write = "value" => new[job.key] = job.words
    /\ DOMAIN old \ {job.key} = DOMAIN new \ {job.key}
    /\ \A k \in DOMAIN old \ {job.key} : new[k] = old[k]

\* Only a live config command changes a file, and only the app's own; and a
\* config set whose process knew the file as it was when it began to write
\* changes the one key it names: not the others, not those another process
\* set before, not what this process remembers of earlier runs.
OnlyItsKey ==
    [][/\ file' # file => /\ file'.other = file.other
                         /\ \E p \in Procs : /\ Own(Job(p)) /\ ~Job(p).dry
                                             /\ proc[p].at \in {"write", "fill", "editor"}
       /\ \A p \in Procs : (Filled(p) /\ Job(p).cmd = "set" /\ proc[p].intact) =>
            \E old \in proc[p].known :
                OneKeyApart(old.data, file'.own.data, Job(p))]_storeVars
=============================================================================
