------------------------------ MODULE Dispatch ------------------------------
(***************************************************************************)
(* One dispatch of a command through the argv door, from the confirm       *)
(* protocol to the exit step (runConfirm, runHandler, emitTruncated and    *)
(* finishDispatch in app.ts), around a handler that uses the handle of     *)
(* module Effects.  The runtime guard (guard.ts), the signal watch         *)
(* (signals.ts) and the settling of children (effects.ts) are the three    *)
(* mechanisms whose lifetimes the exit step has to nest correctly.         *)
(*                                                                         *)
(* JavaScript is one thread: a step of this module is a stretch the event  *)
(* loop does not interrupt.  Signals are asynchronous: one that arrives    *)
(* while the framework listens waits in `signals.pending` until the loop   *)
(* turns; one that arrives otherwise ends the process.                     *)
(***************************************************************************)
EXTENDS Effects

CONSTANTS
    Codes,       \* the codes a handler may return or end the process with
    MaxSignals   \* bound on the signals that arrive in one dispatch

ASSUME CodesAssumption == Codes \subseteq Nat /\ MaxSignals \in Nat

VARIABLES
    phase,      \* where the dispatch is
    confirmed,  \* what the operator answered
    guard,      \* the RuntimeGuard
    stray,      \* a byte was written to the replaced stdout
    signals,    \* the SignalWatch, and what the process was sent
    aborted,    \* ctx.signal
    payload,    \* what ctx.payload() was given
    ending,     \* HandlerEnding
    settling,   \* the child settleChildren() is at
    killed,     \* the number of children it had to kill
    diagnosed,  \* the errors the exit step reported
    stderr,     \* the documents on stderr
    status      \* the status of the process, or of the test() result

dispatchVars == <<phase, confirmed, guard, stray, signals, aborted, payload,
                  ending, settling, killed, diagnosed, stderr, status>>
vars == <<handleVars, dispatchVars>>

Number(sig) == IF sig = "SIGINT" THEN 2 ELSE 15
Handled == {"SIGINT", "SIGTERM"}

\* done: the exit step returned a result.  thrown: it wrote its document and
\* rethrew.  rejected: it failed itself.  terminated: the process is gone.
Terminal == {"done", "thrown", "rejected", "declined", "terminated"}
Phases == {"confirm", "handler", "settle", "grace", "kill", "turn", "check", "exit"} \cup Terminal

EndingKinds == {"none", "return", "exit-now", "trapped", "truncated", "throw"}
Diagnostics == {"exit-now", "trapped", "killed", "stray", "signal", "truncated", "aborted"}

DispatchTypeOK ==
    /\ EffectsTypeOK
    /\ phase \in Phases
    /\ confirmed \in {"unasked", "yes", "no", "not-needed"}
    /\ guard \in {"none", "armed", "released"}
    /\ stray \in BOOLEAN
    /\ signals \in [listening : BOOLEAN, pending : Seq(Handled), arrived : Seq(Handled),
                    received : Handled \cup {"none"}, due : Nat, inPoll : BOOLEAN]
    /\ aborted \in BOOLEAN
    /\ payload \in {"unset", "valid", "deviant"}
    /\ ending \in [kind : EndingKinds, code : Nat]
    /\ settling \in Nat \ {0}
    /\ killed \in Nat
    /\ diagnosed \subseteq Diagnostics
    /\ stderr \in Seq(ItemType)
    /\ status \in Nat

-----------------------------------------------------------------------------
(* The confirm protocol.                                                   *)

\* test() behaves as if --approve-consequential were passed.
NeedsConfirmationNever == FALSE \* mutated: consequential is not read
NeedsConfirmation ==
    /\ request.mode = "run"
    /\ request.consequential
    /\ ~request.dryRun
    /\ ~request.approve

\* No terminal, or any answer but y: the result is written without passing
\* through the exit step.
Decline ==
    /\ phase = "confirm"
    /\ NeedsConfirmation
    /\ phase' = "declined"
    /\ confirmed' = "no"
    /\ status' = 1
    /\ UNCHANGED <<handleVars, guard, stray, signals, aborted, payload, ending,
                   settling, killed, diagnosed, stderr>>

\* The guard and the listeners are in place before the handler's first step.
EnterHandler ==
    /\ phase = "confirm"
    /\ phase' = "handler"
    /\ confirmed' = IF NeedsConfirmation THEN "yes" ELSE "not-needed"
    /\ guard' = IF request.json THEN "armed" ELSE "none"
    /\ signals' = [signals EXCEPT !.listening = request.mode = "run"]
    /\ UNCHANGED <<handleVars, stray, aborted, payload, ending, settling, killed,
                   diagnosed, stderr, status>>

-----------------------------------------------------------------------------
(* The handler's own steps beside its calls on the handle.                 *)

CallHandle ==
    /\ phase = "handler"
    /\ HandlerStep
    /\ UNCHANGED dispatchVars

\* process.stdout.write under the guard: the byte is counted and discarded.
\* Without a guard (human mode) it reaches the terminal, as the source allows.
WriteStray ==
    /\ phase = "handler" /\ thrown.kind = "none"
    /\ guard = "armed"
    /\ stray' = TRUE
    /\ UNCHANGED <<handleVars, phase, confirmed, guard, signals, aborted, payload,
                   ending, settling, killed, diagnosed, stderr, status>>

\* ProcessExitCalled.status
TrapStatus(c) == IF c = 0 THEN 1 ELSE c

\* process.exit: trapped under the guard, otherwise the process ends here.
CallProcessExit(c) ==
    /\ phase = "handler" /\ thrown.kind = "none"
    /\ IF guard = "armed"
       THEN /\ thrown' = [kind |-> "trapped", code |-> TrapStatus(c)]
            /\ UNCHANGED <<phase, status>>
       ELSE /\ phase' = "terminated"
            /\ status' = c % 256
            /\ UNCHANGED thrown
    /\ UNCHANGED <<request, log, mutationRecorded, held, children, performed, stdout,
                   confirmed, guard, stray, signals, aborted, payload, ending,
                   settling, killed, diagnosed, stderr>>

\* throw new ExitNow(code, message); the constructor refuses other codes.
ThrowExitNow(c) ==
    /\ phase = "handler" /\ thrown.kind = "none"
    /\ c \in 1 .. 255
    /\ thrown' = [kind |-> "exit-now", code |-> c]
    /\ UNCHANGED <<request, log, mutationRecorded, held, children, performed, stdout>>
    /\ UNCHANGED dispatchVars

\* ctx.payload(): one slot, only with a declared schema; validated later.
SupplyPayload ==
    /\ phase = "handler" /\ thrown.kind = "none"
    /\ request.schema /\ payload = "unset"
    /\ payload' \in {"valid", "deviant"}
    /\ UNCHANGED <<handleVars, phase, confirmed, guard, stray, signals, aborted,
                   ending, settling, killed, diagnosed, stderr, status>>

HandlerEnds(how) ==
    /\ ending' = how
    /\ phase' = "settle"
    /\ UNCHANGED <<request, log, mutationRecorded, held, children, performed, stdout,
                   confirmed, guard, stray, signals, aborted, payload, settling,
                   killed, diagnosed, stderr, status>>

Return(c) ==
    /\ phase = "handler" /\ thrown.kind = "none"
    /\ HandlerEnds([kind |-> "return", code |-> c])
    /\ UNCHANGED thrown

ClassifyNothing(t) == t \* mutated
\* classifyUnwind()
Classify(t) ==
    IF t.kind \in {"exit-now", "trapped"} THEN t
    ELSE IF t.kind = "truncated" THEN [kind |-> "truncated", code |-> 1]
    ELSE [kind |-> "throw", code |-> 1]

Unwind ==
    /\ phase = "handler" /\ thrown.kind # "none"
    /\ HandlerEnds(Classify(thrown))
    /\ thrown' = NoThrow

-----------------------------------------------------------------------------
(* Settling the children, with the guard and the listeners still in place. *)

ReleasedSignalsKept == [signals EXCEPT !.pending = << >>] \* mutated: no removeListener
\* Both finally clauses: nothing of the span outlives it.
ReleasedSignals == [signals EXCEPT !.listening = FALSE, !.pending = << >>]
ReleasedGuard == IF guard = "armed" THEN "released" ELSE guard

ChildLeftButLast == settling < Len(children) \* mutated: off by one
ChildLeft == settling <= Len(children)

SettleChild(change, next) ==
    /\ children' = [children EXCEPT ![settling] = change]
    /\ settling' = settling + 1
    /\ phase' = next
    /\ UNCHANGED <<request, log, mutationRecorded, held, thrown, performed, stdout,
                   confirmed, guard, stray, signals, aborted, payload, ending,
                   diagnosed, stderr, status>>

Reaped(child) == [child EXCEPT !.waited = TRUE, !.reaped = TRUE]

\* A waited child is skipped; an exited one is reaped and drained.
SettleQuiet ==
    /\ phase = "settle" /\ ChildLeft
    /\ children[settling].waited \/ ~Alive(children[settling])
    /\ SettleChild(IF children[settling].waited THEN children[settling]
                   ELSE Reaped(children[settling]), "settle")
    /\ UNCHANGED killed

SignalRunning(proc, next) ==
    /\ children' = [children EXCEPT ![settling].waited = TRUE, ![settling].proc = proc]
    /\ phase' = next
    /\ UNCHANGED <<request, log, mutationRecorded, held, thrown, performed, stdout,
                   confirmed, guard, stray, signals, aborted, payload, ending,
                   settling, killed, diagnosed, stderr, status>>

SendTerm ==
    /\ phase = "settle" /\ ChildLeft
    /\ ~children[settling].waited /\ Alive(children[settling])
    /\ ~children[settling].foreign
    /\ SignalRunning("terminated", "grace")

\* A child of another user: process.kill throws, and settleChildren() with it.
\* The finally clauses run, the exit step does not.
TermRefused ==
    /\ phase = "settle" /\ ChildLeft
    /\ ~children[settling].waited /\ Alive(children[settling])
    /\ children[settling].foreign
    /\ children' = [children EXCEPT ![settling].waited = TRUE]
    /\ phase' = "rejected"
    /\ guard' = ReleasedGuard
    /\ signals' = ReleasedSignals
    /\ aborted' = TRUE
    /\ status' = 1
    /\ UNCHANGED <<request, log, mutationRecorded, held, thrown, performed, stdout,
                   confirmed, stray, payload, ending, settling, killed, diagnosed, stderr>>

GraceNeverExpires == FALSE \* mutated: no SIGKILL
\* One second after SIGTERM: SIGKILL for a child that is still there.
GraceExpires ==
    /\ phase = "grace" /\ Alive(children[settling])
    /\ SignalRunning("dying", "kill")

ReapKilled ==
    /\ phase \in {"grace", "kill"} /\ ~Alive(children[settling])
    /\ SettleChild(Reaped(children[settling]), "settle")
    /\ killed' = killed + 1

\* The loop runs on to its check phase before the listeners go, when a kill
\* blocked the thread.
NeverTurns == FALSE \* mutated
LoopTurns == request.mode = "run" /\ killed > 0

\* Signals are delivered in the poll phase of the loop, which is on the way to
\* the check phase unless the handler's last promise was settled inside it (by
\* a pipe, a socket or a file): then nothing is polled again.  `due` are the
\* signals that had arrived by now.
SettleDone ==
    /\ phase = "settle" /\ ~ChildLeft
    /\ guard' = ReleasedGuard
    /\ \E inPoll \in BOOLEAN :
        LET now == [signals EXCEPT !.due = Len(signals.arrived), !.inPoll = inPoll]
        IN  IF LoopTurns
            THEN phase' = (IF inPoll THEN "check" ELSE "turn") /\ signals' = now
            ELSE phase' = "exit" /\ signals' = [now EXCEPT !.listening = FALSE, !.pending = << >>]
    /\ UNCHANGED <<handleVars, confirmed, stray, aborted, payload, ending, settling,
                   killed, diagnosed, stderr, status>>

\* The poll phase leaves nothing undelivered.
Poll ==
    /\ phase = "turn" /\ signals.pending = << >>
    /\ phase' = "check"
    /\ UNCHANGED <<handleVars, confirmed, guard, stray, signals, aborted, payload, ending,
                   settling, killed, diagnosed, stderr, status>>

\* The immediate runs: whatever is undelivered is dropped with the listeners.
EndTurn ==
    /\ phase = "check"
    /\ phase' = "exit"
    /\ signals' = ReleasedSignals
    /\ UNCHANGED <<handleVars, confirmed, guard, stray, aborted, payload, ending,
                   settling, killed, diagnosed, stderr, status>>

-----------------------------------------------------------------------------
(* Signals.                                                                *)

\* A signal without a listener takes the default action.
SignalArrives(sig) ==
    /\ request.mode = "run" /\ phase \notin Terminal
    /\ Len(signals.arrived) < MaxSignals
    /\ IF signals.listening
       THEN /\ signals' = [signals EXCEPT !.pending = Append(@, sig),
                                          !.arrived = Append(@, sig)]
            /\ UNCHANGED <<phase, status>>
       ELSE /\ phase' = "terminated"
            /\ status' = 128 + Number(sig)
            /\ signals' = [signals EXCEPT !.arrived = Append(@, sig)]
    /\ UNCHANGED <<handleVars, confirmed, guard, stray, aborted, payload, ending,
                   settling, killed, diagnosed, stderr>>

\* onSignal(): the loop runs the listener, at a moment the handler awaits or
\* in the turn after the settling (in the same poll phase, when that has
\* already seen the signal).  Both listeners go at once, and with them whatever
\* else was waiting for one.
Deliver ==
    /\ signals.listening /\ signals.pending # << >>
    /\ phase \in {"handler", "turn"} \/ (phase = "check" /\ signals.inPoll)
    /\ signals' = [ReleasedSignals EXCEPT !.received = Head(signals.pending)]
    /\ aborted' = TRUE
    /\ UNCHANGED <<handleVars, phase, confirmed, guard, stray, payload, ending,
                   settling, killed, diagnosed, stderr, status>>

-----------------------------------------------------------------------------
(* The exit step.                                                          *)

\* A truncation the handler swallowed still ends the run.
FinalEndingAsCaught == ending \* mutated: the swallowed truncation is forgotten
FinalEnding ==
    IF log.truncated # NotTruncated /\ ending.kind # "throw"
    THEN [kind |-> "truncated", code |-> 1]
    ELSE ending

Canceled == signals.received # "none" /\ FinalEnding.kind \in {"return", "exit-now"}

CodeWithoutChildren == \* mutated: a killed child does not fail the run
    IF Canceled THEN 128 + Number(signals.received)
    ELSE IF stray /\ FinalEnding.code = 0 THEN 1 ELSE FinalEnding.code
ExitCode ==
    IF Canceled THEN 128 + Number(signals.received)
    ELSE IF (killed > 0 \/ stray) /\ FinalEnding.code = 0 THEN 1
    ELSE FinalEnding.code

Reported ==
    (IF FinalEnding.kind \in {"exit-now", "trapped"} THEN {FinalEnding.kind} ELSE {})
    \cup (IF killed > 0 THEN {"killed"} ELSE {})
    \cup (IF stray THEN {"stray"} ELSE {})
    \cup (IF Canceled THEN {"signal"} ELSE {})

Item(what, upto, code, error) ==
    [what |-> what, upto |-> upto, code |-> code, error |-> error]
Envelope(code, error) == Item("envelope", Len(log.records), code, error)
LogItems == IF SeamSuppressed(log) THEN << >> ELSE <<LogText(log)>>

\* run() sets process.exitCode; test() returns the code in its result.
StatusOf(code) == IF request.mode = "run" THEN code % 256 ELSE code

\* Every way out of runHandler passes endDispatch.
Leave(next, code, reports) ==
    /\ phase' = next
    /\ status' = StatusOf(code)
    /\ diagnosed' = reports
    /\ aborted' = TRUE
    /\ UNCHANGED <<request, log, mutationRecorded, held, children, thrown, performed,
                   confirmed, guard, stray, signals, payload, ending, settling, killed>>

EmitEnvelopeOnStdout(next, code, error) == \* mutated: ownsStdout is not read
    /\ Leave(next, code, Reported)
    /\ stdout' = Append(stdout, Envelope(code, error))
    /\ UNCHANGED stderr
EmitEnvelopeOnBoth(next, code, error) == \* mutated: written to both streams
    /\ Leave(next, code, Reported)
    /\ stdout' = Append(stdout, Envelope(code, error))
    /\ stderr' = Append(stderr, Envelope(code, error))
\* emitDispatchEnvelope(): a payload that deviates from its schema throws
\* before the document is written.
EmitEnvelope(next, code, error) ==
    IF payload = "deviant"
    THEN Leave("rejected", 1, Reported) /\ UNCHANGED <<stdout, stderr>>
    ELSE /\ Leave(next, code, Reported)
         /\ IF request.ownsStdout
            THEN stderr' = Append(stderr, Envelope(code, error)) /\ UNCHANGED stdout
            ELSE stdout' = Append(stdout, Envelope(code, error)) /\ UNCHANGED stderr

\* emitTruncated()
ExitTruncated ==
    /\ phase = "exit" /\ FinalEnding.kind = "truncated"
    /\ IF request.json
       THEN EmitEnvelope("done", 1, "truncated")
       ELSE /\ Leave("done", 1, Reported \cup {"truncated"})
            /\ stdout' = stdout \o LogItems
            /\ UNCHANGED stderr

\* finishDispatch(d, 1, true, false), then the throw continues.
ExitThrow ==
    /\ phase = "exit" /\ FinalEnding.kind = "throw"
    /\ IF request.json
       THEN EmitEnvelope("thrown", 1, IF request.dryRun THEN "aborted" ELSE "none")
       ELSE /\ Leave("thrown", 1, Reported \cup (IF request.dryRun THEN {"aborted"} ELSE {}))
            /\ stdout' = IF request.dryRun THEN stdout \o LogItems ELSE stdout
            /\ UNCHANGED stderr

\* A declared renderer is the app's own function, and may throw.
Renders ==
    /\ FinalEnding.kind \in {"return", "exit-now"}
    /\ request.renderer # "none" /\ payload # "unset"

ExitNormally ==
    /\ phase = "exit" /\ FinalEnding.kind \in {"return", "exit-now", "trapped"}
    /\ IF request.json
       THEN EmitEnvelope("done", ExitCode, "none")
       ELSE IF Renders /\ request.renderer = "partial"
       THEN Leave("rejected", 1, Reported) /\ UNCHANGED <<stdout, stderr>>
       ELSE /\ Leave("done", ExitCode, Reported)
            /\ stdout' = stdout
                 \o (IF Renders THEN <<Item("payload", 0, 0, "none")>> ELSE << >>)
                 \o (IF request.dryRun THEN LogItems ELSE << >>)
            /\ UNCHANGED stderr

-----------------------------------------------------------------------------
DispatchInit ==
    /\ EffectsInit
    /\ phase = "confirm"
    /\ confirmed = "unasked"
    /\ guard = "none"
    /\ stray = FALSE
    /\ signals = [listening |-> FALSE, pending |-> << >>, arrived |-> << >>,
                  received |-> "none", due |-> 0, inPoll |-> FALSE]
    /\ aborted = FALSE
    /\ payload = "unset"
    /\ ending = [kind |-> "none", code |-> 0]
    /\ settling = 1
    /\ killed = 0
    /\ diagnosed = {}
    /\ stderr = << >>
    /\ status = 0

HandlerActs ==
    \/ CallHandle
    \/ WriteStray
    \/ SupplyPayload
    \/ Unwind
    \/ \E c \in Codes : CallProcessExit(c) \/ ThrowExitNow(c) \/ Return(c)

FrameworkActs ==
    \/ SettleQuiet \/ SendTerm \/ TermRefused \/ GraceExpires \/ ReapKilled
    \/ SettleDone \/ Poll \/ EndTurn \/ Deliver
    \/ ExitTruncated \/ ExitThrow \/ ExitNormally

ChildActs == \E k \in DOMAIN children : ChildExits(k) /\ UNCHANGED dispatchVars

DispatchNext ==
    \/ Decline
    \/ EnterHandler
    \/ HandlerActs
    \/ FrameworkActs
    \/ ChildActs
    \/ \E sig \in Handled : SignalArrives(sig)

DispatchSpec == DispatchInit /\ [][DispatchNext]_vars

\* A child that was sent SIGKILL is gone eventually.
KilledChildExits ==
    \E k \in DOMAIN children :
        children[k].proc = "dying" /\ ChildExits(k) /\ UNCHANGED dispatchVars

FairDispatchSpec ==
    DispatchSpec /\ WF_vars(FrameworkActs) /\ WF_vars(KilledChildExits)

-----------------------------------------------------------------------------
(* Properties.                                                             *)

Envelopes(stream) == {i \in DOMAIN stream : stream[i].what = "envelope"}
Logs == {i \in DOMAIN stdout : stdout[i].what = "log"}
Emitted == {"done", "thrown"}

\* The run as its caller sees it.
Contract == INSTANCE RunContract WITH
    stage <- CASE phase = "confirm" -> "asked"
               [] phase \in Terminal -> "over"
               [] OTHER -> "running",
    permit <- /\ confirmed \in {"yes", "not-needed"}
              /\ ~request.dryRun /\ request.effect = "mutating",
    mutated <- \E p \in performed : p.what = "mutation",
    documents <- Cardinality(Envelopes(stdout)) + Cardinality(Envelopes(stderr)),
    failed <- phase \in Terminal /\ status # 0

\* Every dispatch is a run of the contract: whatever the handler does, nothing
\* changes before or without the permission, and a run is over exactly once.
ImplementsContract == Contract!ContractSpec

Unsignalled == \E k \in DOMAIN children : children[k].foreign

\* Machine mode writes one document, on the stream the declaration names, and
\* nothing beside it on a stdout the command does not own, on every ending the
\* exit step completes: return, early exit, trapped process exit, truncation,
\* throw, killed children, stray bytes, signal (section 19.1 of the contract).
\* A payload that deviates from its schema, and a child that may not be
\* signalled, are the only reasons for none.
OneDocument ==
    request.json =>
        /\ phase \in Emitted =>
              /\ Cardinality(Envelopes(stdout)) = IF request.ownsStdout THEN 0 ELSE 1
              /\ Cardinality(Envelopes(stderr)) = IF request.ownsStdout THEN 1 ELSE 0
              /\ Len(stdout) = Cardinality(Envelopes(stdout))
        /\ phase = "rejected" => /\ payload = "deviant" \/ Unsignalled
                                 /\ status # 0 /\ stdout = << >> /\ stderr = << >>

\* A run reports success only when nothing went wrong: no preview was cut
\* short (also when the handler swallowed the truncation and returned 0), no
\* child had to be killed, no byte went around the guard, no signal was seen.
SuccessIsEarned ==
    phase \in Emitted \cup {"rejected"} /\ status = 0 =>
        /\ ending.kind = "return" /\ ending.code = 0
        /\ log.truncated = NotTruncated
        /\ killed = 0 /\ ~stray
        /\ signals.received = "none"

\* Silence is never the answer to a dry run: whichever way the handler ended,
\* and whatever it claimed, a log reaches the human stream, or the envelope
\* carries every record (section 3.5).
PreviewNeverSilent ==
    request.dryRun /\ phase \in Emitted =>
        IF request.json
        THEN \E item \in {stdout[i] : i \in DOMAIN stdout} \cup
                         {stderr[i] : i \in DOMAIN stderr} :
                item.what = "envelope" /\ item.upto = Len(log.records)
        ELSE Logs # {}

\* A mutation of a consequential command run from a terminal was consented to
\* before it happened, by the flag or by the answer.
ConsentFirst ==
    request.mode = "run" /\ request.consequential /\
    (\E p \in performed : p.what = "mutation") =>
        request.approve \/ confirmed = "yes"

\* No child outlives its dispatch: every process the handler started has been
\* waited for, by the handler or by the exit step, before a result exists.
\* A child that may not be signalled is the exception: kill() marks it waited
\* before the signal is refused, and settleChildren() then passes it by.
NoChildOutlives ==
    phase \in Emitted =>
        \A k \in DOMAIN children : children[k].reaped \/ children[k].foreign

\* The guard and the signal handling cover the whole settling and nothing
\* after it: a child is still inside the span while it dies, and neither the
\* stdout replacement nor a listener is left behind (finally clauses of
\* runHandler), also when the settling itself throws.
SpanCoversSettling ==
    /\ phase \in {"settle", "grace", "kill"} =>
          /\ request.json => guard = "armed"
          /\ request.mode = "run" => signals.listening \/ signals.received # "none"
    /\ phase \in {"exit", "done", "thrown", "rejected"} =>
          guard # "armed" /\ ~signals.listening
    /\ phase \in {"done", "thrown", "rejected"} => aborted

\* The signal the listener saw is the first that arrived, and decides the
\* status of a return and of an early exit, over any code the handler, a killed
\* child or a stray byte asked for.  When a child had to be killed, a signal
\* that had arrived by the end of the settling is seen, provided the loop polls
\* before the listeners go (sections 19.11 and 19.13; app.ts:1665-1668 takes
\* the turn to deliver it however the handler's promise was settled).
SignalDecides ==
    phase = "done" /\ FinalEnding.kind \in {"return", "exit-now"} =>
        /\ signals.received # "none" =>
              /\ signals.received = signals.arrived[1]
              /\ status = 128 + Number(signals.received)
        /\ killed > 0 /\ ~signals.inPoll /\ signals.due > 0 =>
              status = 128 + Number(signals.arrived[1])

\* Once the handler has ended, the dispatch ends: settling never waits on a
\* child that neither exits nor is killed.
SettlingEnds == phase = "settle" ~> phase \in Terminal

\* Statements of the contract and the comments that the code does not keep; each
\* is checked in a run of its own that ends in a counterexample.

\* "an exit status and diagnostic decided when the handler returns": a signal
\* that arrived while the framework listened decides the status.
ArrivedSignalDecides ==
    phase = "done" /\ FinalEnding.kind \in {"return", "exit-now"}
        /\ signals.arrived # << >>
        => status = 128 + Number(signals.arrived[1])

\* "The log renders on every path that leaves a dry-mode dispatch".
EveryPathRenders ==
    request.dryRun /\ ~request.json /\ phase \in Emitted \cup {"rejected"} => Logs # {}

=============================================================================
