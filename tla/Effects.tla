------------------------------- MODULE Effects -------------------------------
(***************************************************************************)
(* The effects handle of one dispatch (class Effects in effects.ts) and    *)
(* the handler that uses it.  A handler is any sequence of calls on the    *)
(* handle, with operands it holds: plain text, results of earlier calls,   *)
(* and the unsettled carriers a dry run hands out.  What a call throws the *)
(* handler may catch, so a truncation can be swallowed.                    *)
(*                                                                         *)
(* Texts stand for argv elements, paths and bodies.  An operand resolves   *)
(* to its text, to Unsettled (the code's null), or to Refused (the code    *)
(* throws).  The effects that really happened are kept in `performed`,     *)
(* which no code reads: it is what the properties compare the log with.    *)
(***************************************************************************)
EXTENDS EffectLog, FiniteSets

CONSTANTS
    Requests,      \* the invocations to start from, a subset of RequestType
    Texts,         \* argv elements, paths, bodies
    Allowlist,     \* procObserveAllowlist: argv prefixes declared as observes
    MaxArgv,       \* longest argv a handler passes
    MaxEffects,    \* bound on the records of the handler in one dispatch
    MaxChildren,   \* bound on the spawned children of one dispatch
    MaxRenderings, \* bound on the renderLog() calls of one dispatch
    ForeignChildren \* TRUE: a child may run as another user (signals refused)

VARIABLES
    request,          \* the reserved flags and the declaration of the command
    log,              \* the EffectLog of the dispatch
    mutationRecorded, \* Effects.mutationRecorded
    held,             \* the values the handler has received from the handle
    children,         \* Effects.children with the state of each process
    thrown,           \* what is unwinding the handler's frames right now
    performed,        \* the effects that really happened
    stdout            \* what reached the stdout writer, in order

handleVars == <<request, log, mutationRecorded, held, children, thrown,
                performed, stdout>>

-----------------------------------------------------------------------------
RequestType ==
    [mode          : {"run", "test"},
     json          : BOOLEAN,
     dryRun        : BOOLEAN,
     approve       : BOOLEAN,
     effect        : {"read_only", "mutating"},
     consequential : BOOLEAN,
     ownsStdout    : BOOLEAN,
     schema        : BOOLEAN,
     renderer      : {"none", "total", "partial"},
     coverage      : BOOLEAN]

ASSUME RequestsAssumption ==
    \A r \in Requests :
        /\ r \in RequestType
        /\ r.consequential => r.effect = "mutating"
        /\ r.renderer # "none" => r.schema /\ ~r.ownsStdout
        /\ r.coverage => r.mode = "test"
ASSUME TextsAssumption == Texts # {} /\ Allowlist \subseteq Seq(Texts)
ASSUME BoundsAssumption ==
    /\ MaxArgv \in Nat \ {0}
    /\ MaxEffects \in Nat
    /\ MaxChildren \in Nat
    /\ MaxRenderings \in Nat
    /\ ForeignChildren \in BOOLEAN

Unsettled == "unsettled"
Refused == "refused"
ASSUME OperandAssumption == {Unsettled, Refused} \cap Texts = {}

Methods == {"run", "spawn", "write", "mkdir", "remove", "rename", "chmod", "http"}

\* A value a handler can pass: text, something else, a settled result, or a
\* carrier.  `step` is the number of a carrier's step (0 when stale) and the
\* index of a spawned child.
Value(type, text, step, forwardable) ==
    [type |-> type, text |-> text, step |-> step, forwardable |-> forwardable]
Values ==
    [type : {"text", "other", "completed", "response", "spawned", "carrier"},
     text : Texts \cup {""}, step : Nat, forwardable : BOOLEAN]

TextValues == {Value("text", t, 0, FALSE) : t \in Texts}
OtherValue == Value("other", "", 0, FALSE)
Offered == TextValues \cup held \cup {OtherValue}

Carrier(step, forwardable) == Value("carrier", "", step, forwardable)
StaleCarrier == Carrier(0, TRUE)

ChildType == [proc     : {"running", "terminated", "dying", "exited"},
              waited   : BOOLEAN,
              reaped   : BOOLEAN,
              foreign  : BOOLEAN]

NoThrow == [kind |-> "none", code |-> 0]
Threw(kind) == [kind |-> kind, code |-> 0]
ThrowKinds == {"none", "error", "effect-failed", "backstop", "truncated",
               "exit-now", "trapped"}

ThrowType == [kind : ThrowKinds, code : Nat]

\* record is the index of the effect's record, after the number of lines the
\* log had when the effect was attempted.
PerformedType ==
    [what : {"cache", "observe", "mutation"}, record : Nat, after : Nat]

\* What a stream receives: upto is the number of records it shows.
ItemType ==
    [what : {"log", "payload", "envelope"}, upto : Nat, code : Nat,
     error : {"none", "truncated", "aborted"}]

EffectsTypeOK ==
    /\ request \in Requests
    /\ log \in EffectLogType
    /\ mutationRecorded \in BOOLEAN
    /\ held \subseteq Values
    /\ children \in Seq(ChildType)
    /\ thrown \in ThrowType
    /\ performed \subseteq PerformedType
    /\ stdout \in Seq(ItemType)

-----------------------------------------------------------------------------
(* Operands and authorization.                                             *)

\* operand(): the scalar projection of a value, or the refusal.
Operand(v) ==
    CASE v.type = "carrier" -> IF v.forwardable THEN Unsettled ELSE Refused
      [] v.type \in {"text", "completed", "response"} -> v.text
      [] OTHER -> Refused

Runtime(operands) == [i \in DOMAIN operands |-> Operand(operands[i])]

\* isObserve(): element-wise prefix matching; an unsettled element matches
\* nothing.
IsObserve(operands) ==
    \E prefix \in Allowlist :
        /\ Len(prefix) <= Len(operands)
        /\ \A i \in DOMAIN prefix : Operand(operands[i]) = prefix[i]

KindOfUnnamedHttp(m) == IF m = "http" THEN "net_read" ELSE "proc_mutate" \* mutated
KindOf(m) ==
    CASE m = "run" -> "proc_mutate"
      [] m = "spawn" -> "proc_spawn"
      [] m = "http" -> "net_mutate"
      [] OTHER -> "file_write"

\* Void and spawn results have no scalar projection.
HasProjection(m) == m \in {"run", "http"}

Arity(m) == CASE m \in {"run", "spawn"} -> 1 .. MaxArgv
              [] m \in {"write", "rename"} -> {2}
              [] OTHER -> {1}

Operands(m) == UNION {[1 .. n -> Offered] : n \in Arity(m)}

\* authorize(): a mutation is refused in a read_only command.  A grant that
\* does not cover the call is refused too; see Refuse.
Authorized == request.effect = "mutating"

\* A well-formed call with these operands is performed or recorded.
Accepted(m, operands) ==
    /\ \A i \in DOMAIN operands : Operand(operands[i]) # Refused
    /\ (m = "run" /\ IsObserve(operands)) \/ Authorized

-----------------------------------------------------------------------------
(* Calls on the handle.                                                    *)

\* Some call is always refusable, before anything is recorded: an option key
\* the method does not accept, a carrier in a plain parameter, an empty argv,
\* a mode that is no integer, a grant that is undeclared or of another kind,
\* a grant on an observe, or operands that are not Accepted.
Refuse ==
    /\ thrown' = Threw("error")
    /\ UNCHANGED <<request, log, mutationRecorded, held, children, performed, stdout>>

\* A child may fail to start (nothing happened), or end with a nonzero code
\* that `check` turns into EffectFailed (it happened, and the call throws).
ExecFails(what, record) ==
    /\ thrown' \in {Threw("error"), Threw("effect-failed")}
    /\ performed' \in
         IF thrown'.kind = "error"
         THEN {performed,
               performed \cup {[what |-> what, record |-> record,
                                after |-> log.renderedCount]}}
         ELSE {performed \cup {[what |-> what, record |-> record,
                                after |-> log.renderedCount]}}
    /\ UNCHANGED held

ExecSucceeds(what, record, results) ==
    /\ performed' = performed \cup {[what |-> what, record |-> record,
                                     after |-> log.renderedCount]}
    /\ \E result \in results : held' = held \cup result
    /\ UNCHANGED thrown

\* settled(): the fail-closed backstop in front of every execution.
BackstopHit(operands) == \E i \in DOMAIN operands : Operand(operands[i]) = Unsettled

Exec(what, record, operands, results) ==
    IF BackstopHit(operands)
    THEN thrown' = Threw("backstop") /\ UNCHANGED <<held, performed>>
    ELSE ExecFails(what, record) \/ ExecSucceeds(what, record, results)

CompletedResults == {{Value("completed", t, 0, FALSE)} : t \in Texts}
ResponseResults == {{Value("response", t, 0, FALSE)} : t \in Texts}

\* Whether an observe answers with a stale carrier: the dry run has already
\* recorded a mutation its answer could depend on.
NeverStale == FALSE \* mutated
ObserveIsStale == request.dryRun /\ mutationRecorded

\* run() of an allowlisted argv: performed in both modes unless stale.
Observe ==
    /\ \E operands \in Operands("run") :
        /\ IsObserve(operands)
        /\ Accepted("run", operands)
        /\ IF ObserveIsStale
           THEN held' = held \cup {StaleCarrier} /\ UNCHANGED <<thrown, performed>>
           ELSE Exec("observe", 0, operands, CompletedResults)
    /\ UNCHANGED <<request, log, mutationRecorded, children, stdout>>

\* The dry half of every mutating method: the record and the carrier.
RecordOnly(m) ==
    /\ log' = Record(log, KindOf(m), TRUE)
    /\ mutationRecorded' = TRUE
    /\ held' = held \cup {Carrier(NextSeq(log), HasProjection(m))}
    /\ UNCHANGED <<children, thrown, performed>>

ResultsOf(m) == CASE m = "run" -> CompletedResults
                  [] m = "http" -> ResponseResults
                  [] OTHER -> {{}}

\* The live half: the record is appended BEFORE the effect is attempted.
Perform(m, operands) ==
    /\ log' = Record(log, KindOf(m), FALSE)
    /\ Exec("mutation", Len(log.records) + 1, operands, ResultsOf(m))
    /\ UNCHANGED <<mutationRecorded, children>>

\* Live spawn: the child is tracked once it has started.
StartChild(operands) ==
    /\ Len(children) < MaxChildren
    /\ log' = Record(log, "proc_spawn", FALSE)
    /\ IF BackstopHit(operands)
       THEN thrown' = Threw("backstop") /\ UNCHANGED <<held, performed, children>>
       ELSE \/ thrown' = Threw("error") /\ UNCHANGED <<held, performed, children>>
            \/ /\ \E foreign \in {FALSE, ForeignChildren} :
                    children' = Append(children,
                        [proc |-> "running", waited |-> FALSE, reaped |-> FALSE,
                         foreign |-> foreign])
               /\ held' = held \cup {Value("spawned", "", Len(children) + 1, FALSE)}
               /\ performed' = performed \cup
                    {[what |-> "mutation", record |-> Len(log.records) + 1,
                      after |-> log.renderedCount]}
               /\ UNCHANGED thrown
    /\ UNCHANGED mutationRecorded

SealedButHttp(m) == request.dryRun /\ m # "http" \* mutated: one method forgets
Sealed(m) == request.dryRun

Mutate(m) ==
    /\ log.renderedCount < MaxEffects
    /\ \E operands \in Operands(m) :
        /\ Accepted(m, operands)
        /\ ~(m = "run" /\ IsObserve(operands))
        /\ IF Sealed(m) THEN RecordOnly(m)
           ELSE IF m = "spawn" THEN StartChild(operands)
           ELSE Perform(m, operands)
    /\ UNCHANGED <<request, stdout>>

-----------------------------------------------------------------------------
(* Claimed rendering and extraction.                                       *)

Recorded ==
    /\ log' = Claim(log)
    /\ UNCHANGED <<request, mutationRecorded, held, children, thrown, performed, stdout>>

LogText(l) == [what |-> "log", upto |-> l.renderedCount, code |-> 0, error |-> "none"]

\* renderLog() claims in every mode and writes in a human dry run only.
RenderLog ==
    /\ Len(stdout) < MaxRenderings
    /\ IF request.json \/ ~request.dryRun
       THEN log' = Claim(log) /\ UNCHANGED stdout
       ELSE /\ log' = ClaimAndRender(log)
            /\ stdout' = Append(stdout, LogText(log))
    /\ UNCHANGED <<request, mutationRecorded, held, children, thrown, performed>>

\* Reading, writing or calling a carrier: the Proxy's traps.
Extract ==
    /\ \E v \in held : v.type = "carrier"
    /\ log' = Truncate(log)
    /\ thrown' = Threw("truncated")
    /\ UNCHANGED <<request, mutationRecorded, held, children, performed, stdout>>

-----------------------------------------------------------------------------
(* Children.                                                               *)

Alive(child) == child.proc # "exited"

\* The worker has seen the child close (external: the operating system).
ChildExits(k) ==
    /\ Alive(children[k])
    /\ children' = [children EXCEPT ![k].proc = "exited"]
    /\ UNCHANGED <<request, log, mutationRecorded, held, thrown, performed, stdout>>

\* signal(): nothing is sent to an exited child; a refused signal throws.
SignalChild(k, proc) ==
    IF ~Alive(children[k]) THEN UNCHANGED <<children, thrown>>
    ELSE IF children[k].foreign
         THEN thrown' = Threw("error") /\ UNCHANGED children
         ELSE /\ children' = [children EXCEPT ![k].proc = proc]
              /\ UNCHANGED thrown

HeldChild(k) == \E v \in held : v.type = "spawned" /\ v.step = k

SendSignal(k) ==
    /\ HeldChild(k)
    /\ SignalChild(k, "terminated")
    /\ UNCHANGED <<request, log, mutationRecorded, held, performed, stdout>>

\* wait() blocks the thread until the child has exited, then reaps it; a
\* nonzero code throws unless the caller passed check: false.
Wait(k) ==
    /\ HeldChild(k)
    /\ ~Alive(children[k])
    /\ children' = [children EXCEPT ![k].waited = TRUE, ![k].reaped = TRUE]
    /\ thrown' \in {thrown, Threw("effect-failed")}
    /\ UNCHANGED <<request, log, mutationRecorded, held, performed, stdout>>

\* kill() marks the child as waited BEFORE it sends SIGKILL and reaps it; a
\* child that cannot be signalled stays marked.
Kill(k) ==
    /\ HeldChild(k)
    /\ IF Alive(children[k]) /\ children[k].foreign
       THEN /\ children' = [children EXCEPT ![k].waited = TRUE]
            /\ thrown' = Threw("error")
       ELSE /\ children' = [children EXCEPT ![k].waited = TRUE, ![k].reaped = TRUE,
                                            ![k].proc = "exited"]
            /\ UNCHANGED thrown
    /\ UNCHANGED <<request, log, mutationRecorded, held, performed, stdout>>

-----------------------------------------------------------------------------
(* The handler: calls while nothing unwinds it, and catches what does.     *)

HandleCall ==
    \/ Refuse
    \/ Observe
    \/ \E m \in Methods : Mutate(m)
    \/ Recorded
    \/ RenderLog
    \/ Extract
    \/ \E k \in DOMAIN children : SendSignal(k) \/ Wait(k) \/ Kill(k)

Catch ==
    /\ thrown.kind # "none"
    /\ thrown' = NoThrow
    /\ UNCHANGED <<request, log, mutationRecorded, held, children, performed, stdout>>

\* The log a dispatch starts from: the coverage shard of a test run is
\* written, and recorded, before the handler starts.
EffectsInit ==
    /\ request \in Requests
    /\ log = IF request.coverage THEN RecordCacheWrite(NewLog) ELSE NewLog
    /\ performed = IF request.coverage
                   THEN {[what |-> "cache", record |-> 1, after |-> 0]} ELSE {}
    /\ mutationRecorded = FALSE
    /\ held = {}
    /\ children = << >>
    /\ thrown = NoThrow
    /\ stdout = << >>

HandlerStep == (thrown.kind = "none" /\ HandleCall) \/ Catch

EffectsNext == HandlerStep \/ \E k \in DOMAIN children : ChildExits(k)

EffectsSpec == EffectsInit /\ [][EffectsNext]_handleVars

-----------------------------------------------------------------------------
(* Properties.                                                             *)

\* A dry run performs no mutation, whatever the handler calls, forwards or
\* catches (the runtime seal of effects.ts); observes and the coverage shard
\* are all that happens.
DryRunSealed ==
    request.dryRun => /\ \A p \in performed : p.what # "mutation"
                      /\ children = << >>

\* Every mutation that happened has its own record, appended before the
\* effect was attempted, numbered as the next line and not marked as
\* recorded-instead-of-performed.  A crash or a throw in the middle of an
\* effect therefore never leaves an effect the log does not name.
LedgerBeforeEffect ==
    \A p \in performed : p.what = "mutation" =>
        /\ p.record \in RenderedIndices(log)
        /\ log.records[p.record].seq = p.after + 1
        /\ ~log.records[p.record].recorded

\* What a dry run observes was never observed after a mutation it only
\* recorded: an answer that the recorded mutation could change is handed out
\* as a stale carrier, so no preview mixes the two worlds.
FreshObservation ==
    request.dryRun => \A p \in performed : p.what = "observe" => p.after = 0

\* settled()'s throw is unreachable, as its comment claims: an unsettled
\* operand never reaches an execution, although carriers are forwardable and
\* an allowlisted argv is executed in dry mode too.
BackstopUnreachable == thrown.kind # "backstop"

\* The would-do lines are numbered 1, 2, 3 ... without a gap or a repetition,
\* also when a CACHE_WRITE was recorded before them.
StepsContiguous ==
    /\ RenderedSteps(log) = 1 .. log.renderedCount
    /\ \A i, j \in RenderedIndices(log) :
            i < j => log.records[i].seq < log.records[j].seq

\* A read_only command mutates nothing and previews nothing, through any of
\* the eight methods: run() enforces it apart from the other seven.
ReadOnlyHasNoEffect ==
    request.effect = "read_only" =>
        /\ RenderedIndices(log) = {}
        /\ \A p \in performed : p.what # "mutation"

\* Once an extraction has truncated the preview the truncation stands, at the
\* step it was first reached, and no record is ever dropped or rewritten:
\* whatever the handler catches and calls afterwards.
TruncationStands ==
    [][/\ log.truncated # NotTruncated => log'.truncated = log.truncated
       /\ Len(log.records) <= Len(log'.records)
       /\ \A i \in DOMAIN log.records : log'.records[i] = log.records[i]]_handleVars
=============================================================================
