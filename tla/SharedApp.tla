----------------------------- MODULE SharedApp -----------------------------
(***************************************************************************)
(* What dispatches of one app share: the effect log the exit step reads    *)
(* (AppImpl.effectLogState), the console the test() window reroutes, and   *)
(* process.stdout.write, which the runtime guard replaces.  Each dispatch  *)
(* replaces them when it begins; the window and the guard put back what    *)
(* they found when it ends, the log is never put back.                     *)
(*                                                                         *)
(* A handler may start another dispatch of its app (call() or test()), and *)
(* a program may have several of them in flight: Discipline says how they  *)
(* may overlap.  Everything between two awaits is one step, so beginning a *)
(* dispatch, up to the first await of its handler, is one step too.        *)
(***************************************************************************)
EXTENDS EffectLog, FiniteSets

CONSTANTS
    Dispatches,  \* the dispatches of one process
    Discipline,  \* "nested" (a handler awaits what it starts) or "free"
    MaxRecords,  \* bound on the effects of one dispatch
    Process      \* the process itself: nothing has been replaced

ASSUME DisciplineAssumption == Discipline \in {"nested", "free"}
ASSUME ProcessAssumption == Process \notin Dispatches
ASSUME MaxRecordsAssumption == MaxRecords \in Nat

VARIABLES
    stage,         \* idle, running, ended
    door,          \* [how: "test" or "call", dryRun, json]
    parent,        \* the dispatch whose handler started this one, or Process
    log,           \* the log the dispatch's own Effects handle appends to
    current,       \* effectLogState: whose log the app holds, or Process
    console,       \* whose test() window console.log is rerouted to
    savedConsole,  \* what each window found there
    write,         \* process.stdout.write: the guards it passes through, in order
    savedWrite,    \* what each guard found there
    context,       \* handlerContext: the guard a dispatch's code runs in, or Process
    counted,       \* per guard: whether it counted a stray byte
    leaked,        \* the dispatches whose own bytes reached the real stdout
    report         \* the result of each dispatch, as its exit step read it

vars == <<stage, door, parent, log, current, console, savedConsole, write,
          savedWrite, context, counted, leaked, report>>

Holders == Dispatches \cup {Process}
Doors == [how : {"test", "call"}, dryRun : BOOLEAN, json : BOOLEAN]
NoReport == [lines |-> << >>, failed |-> FALSE]

Running == {d \in Dispatches : stage[d] = "running"}
IsTest(d) == door[d].how = "test"
Guarded(d) == IsTest(d) /\ door[d].json

\* An asynchronous context is handed down to whatever starts in it.
ContextOf(starter) == IF starter = Process THEN Process ELSE context[starter]

HasRunningChild(d) == \E c \in Running : parent[c] = d

-----------------------------------------------------------------------------
SharedInit ==
    /\ stage = [d \in Dispatches |-> "idle"]
    /\ door = [d \in Dispatches |-> [how |-> "call", dryRun |-> FALSE, json |-> FALSE]]
    /\ parent = [d \in Dispatches |-> Process]
    /\ log = [d \in Dispatches |-> NewLog]
    /\ current = Process
    /\ console = Process /\ savedConsole = [d \in Dispatches |-> Process]
    /\ write = << >> /\ savedWrite = [d \in Dispatches |-> << >>]
    /\ context = [d \in Dispatches |-> Process]
    /\ counted = [d \in Dispatches |-> FALSE]
    /\ leaked = {}
    /\ report = [d \in Dispatches |-> NoReport]

\* Whether `d` may begin under `starter` now.
MayBegin(starter) ==
    Discipline = "nested" =>
        IF starter = Process THEN Running = {} ELSE ~HasRunningChild(starter)

\* armEffects(): the app now holds the log of this dispatch.
ArmedOnce(d) == IF current = Process THEN d ELSE current \* mutated: ??= for =
Armed(d) == d

\* test(): the console window; both doors: beginDispatch(); a machine-mode
\* test(): the guard.  call() cannot ask for a dry run or for machine mode.
Begin(d, starter, how) ==
    /\ stage[d] = "idle"
    /\ starter = Process \/ starter \in Running
    /\ MayBegin(starter)
    /\ how.how = "call" => ~how.dryRun /\ ~how.json
    /\ stage' = [stage EXCEPT ![d] = "running"]
    /\ door' = [door EXCEPT ![d] = how]
    /\ parent' = [parent EXCEPT ![d] = starter]
    /\ log' = [log EXCEPT ![d] = NewLog]
    /\ current' = Armed(d)
    /\ IF how.how = "test"
       THEN savedConsole' = [savedConsole EXCEPT ![d] = console] /\ console' = d
       ELSE UNCHANGED <<console, savedConsole>>
    /\ IF how.how = "test" /\ how.json
       THEN /\ savedWrite' = [savedWrite EXCEPT ![d] = write]
            /\ write' = <<d>> \o write
            /\ context' = [context EXCEPT ![d] = d]
       ELSE /\ context' = [context EXCEPT ![d] = ContextOf(starter)]
            /\ UNCHANGED <<write, savedWrite>>
    /\ UNCHANGED <<counted, leaked, report>>

-----------------------------------------------------------------------------
(* The handler of a running dispatch.                                      *)

\* An effect goes to the log the handle was armed with, never to `current`.
Effect(d) ==
    /\ d \in Running
    /\ log[d].renderedCount < MaxRecords
    /\ log' = [log EXCEPT ![d] = Record(@, "file_write", door[d].dryRun)]
    /\ UNCHANGED <<stage, door, parent, current, console, savedConsole, write,
                   savedWrite, context, counted, leaked, report>>

\* An extraction the handler catches.
ExtractAndCatch(d) ==
    /\ d \in Running
    /\ door[d].dryRun /\ log[d].renderedCount > 0
    /\ log' = [log EXCEPT ![d] = Truncate(@)]
    /\ UNCHANGED <<stage, door, parent, current, console, savedConsole, write,
                   savedWrite, context, counted, leaked, report>>

\* console.log: a rerouted call is first offered to the guard of the context
\* it is made from (takeIfGuarded); otherwise it lands in a window's buffer.
ConsoleLog(d) ==
    /\ d \in Running
    /\ IF console = Process
       THEN leaked' = leaked \cup {d} /\ UNCHANGED counted
       ELSE /\ context[d] # Process /\ stage[context[d]] = "running"
            /\ counted' = [counted EXCEPT ![context[d]] = TRUE]
            /\ UNCHANGED leaked
    /\ UNCHANGED <<stage, door, parent, log, current, console, savedConsole, write,
                   savedWrite, context, report>>

\* process.stdout.write: a guard that is released, or armed for another
\* context, passes the bytes to the write it found.
Counts(holder, d) == stage[holder] = "running" /\ context[d] = holder

StdoutWrite(d) ==
    /\ d \in Running
    /\ LET takers == {i \in DOMAIN write : Counts(write[i], d)}
           First(i) == i \in takers /\ \A k \in takers : i <= k
       IN  \/ \E i \in takers : /\ First(i)
                               /\ counted' = [counted EXCEPT ![write[i]] = TRUE]
                               /\ UNCHANGED leaked
           \/ takers = {} /\ leaked' = leaked \cup {d} /\ UNCHANGED counted
    /\ UNCHANGED <<stage, door, parent, log, current, console, savedConsole, write,
                   savedWrite, context, report>>

-----------------------------------------------------------------------------
(* The end of a dispatch.                                                  *)

\* The log the exit step reads is the app's, not the handle's.
LogAtExit(d) == IF current = Process THEN NewLog ELSE log[current]

SavedNothing(d) == console \* mutated: the window is not put back
RestoredConsole(d) == IF IsTest(d) THEN savedConsole[d] ELSE console
WriteOfProcess(d) == << >> \* mutated: the guard below is forgotten
RestoredWrite(d) == IF Guarded(d) THEN savedWrite[d] ELSE write

End(d) ==
    /\ d \in Running
    /\ Discipline = "nested" => ~HasRunningChild(d)
    /\ stage' = [stage EXCEPT ![d] = "ended"]
    /\ report' = IF ~IsTest(d) THEN report
                 ELSE [report EXCEPT ![d] =
                        [lines  |-> LogAtExit(d).records,
                         failed |-> counted[d] \/ LogAtExit(d).truncated # NotTruncated]]
    /\ write' = RestoredWrite(d)
    /\ console' = RestoredConsole(d)
    /\ UNCHANGED <<door, parent, log, current, savedConsole, savedWrite,
                   context, counted, leaked>>

SharedNext ==
    \E d \in Dispatches :
        \/ \E starter \in Holders \ {d}, how \in Doors : Begin(d, starter, how)
        \/ Effect(d)
        \/ ExtractAndCatch(d)
        \/ ConsoleLog(d)
        \/ StdoutWrite(d)
        \/ End(d)

SharedSpec == SharedInit /\ [][SharedNext]_vars

-----------------------------------------------------------------------------
(* Properties.                                                             *)

Nests(d) == \E c \in Dispatches : parent[c] = d

\* The preview and the envelope of a dispatch list the effects of that
\* dispatch, unless its handler started another one: the log the exit step
\* reads is then the one its handler appended to.
PreviewIsOwn ==
    \A d \in Dispatches :
        stage[d] = "ended" /\ IsTest(d) /\ ~Nests(d) => report[d].lines = log[d].records

FailsClosed(d) ==
    stage[d] = "ended" /\ log[d].truncated # NotTruncated => report[d].failed

\* Then a dry run whose handler swallowed a truncation fails, whatever it
\* returned, and however many dispatches the app has been through.
SwallowFailsClosed == \A d \in Dispatches : Nests(d) \/ FailsClosed(d)

\* "a handler that SWALLOWS the thrown DryRunTruncated still fails closed", of
\* every handler: the code does not keep this when the handler has awaited a
\* dispatch of its own app, whose log the exit step then reads.
EverySwallowFailsClosed == \A d \in Dispatches : FailsClosed(d)

\* When no dispatch is in flight, console.log and process.stdout.write are the
\* process's own again.
WindowsRestored == Running = {} => console = Process /\ write = << >>

\* No byte a machine-mode handler writes past the framework reaches the real
\* stdout while its guard is armed.
GuardedBytesCounted == \A d \in leaked : context[d] = Process
=============================================================================
