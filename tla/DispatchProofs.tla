---------------------------- MODULE DispatchProofs ----------------------------
(***************************************************************************)
(* Theorems about the dispatch of a command, for every handler, every set  *)
(* of requests and every bound.                                            *)
(*                                                                         *)
(* The inductive invariant has six parts, one per concern of the exit      *)
(* step: the consent, the span of the guard and the listeners, the         *)
(* sequence of the signals, the reaping of the children, the two streams,  *)
(* and the outcome.  A handler reaches the state of a dispatch only        *)
(* through the handle, so what one of its calls may do is stated once      *)
(* (HandlerMay) and every part is carried over that statement.             *)
(***************************************************************************)
EXTENDS Dispatch, EffectsProofs, FiniteSetTheorems

-----------------------------------------------------------------------------
(* What one call of the handler may do to the state of the dispatch.       *)

Mutated == \E p \in performed : p.what = "mutation"

\* A child that is over, or that nobody may signal.
Accounted(child) == child.reaped \/ child.foreign
WaitedAccounted == \A k \in DOMAIN children : children[k].waited => Accounted(children[k])

HandlerThrow(t) == t.kind \notin {"exit-now", "trapped"}

HandlerMay ==
    /\ request' = request
    /\ EffectsTypeOK'
    /\ Mutated' => Mutated \/ (~request.dryRun /\ request.effect = "mutating")
    /\ Mutated => Mutated'
    /\ log'.handlerRendered => log.handlerRendered \/ stdout' = Append(stdout, LogText(log))
    /\ \/ stdout' = stdout
       \/ (~request.json /\ stdout' = Append(stdout, LogText(log)))
    /\ thrown' = thrown \/ HandlerThrow(thrown')
    /\ WaitedAccounted => WaitedAccounted'

\* No operator of the log but ClaimAndRender() sets handlerRendered.
LEMMA RenderedLogs ==
    ASSUME NEW l \in EffectLogType
    PROVE  /\ Truncate(l).handlerRendered = l.handlerRendered
           /\ Claim(l).handlerRendered = l.handlerRendered
           /\ \A k, b : Record(l, k, b).handlerRendered = l.handlerRendered
<1>1. /\ Truncate(l).handlerRendered = l.handlerRendered
      /\ Claim(l).handlerRendered = l.handlerRendered
  BY DEF EffectLogType, Truncate, Claim
<1>2. ASSUME NEW k, NEW b
      PROVE  Record(l, k, b).handlerRendered = l.handlerRendered
  BY DEF EffectLogType, Record, AppendRecord
<1> QED
  BY <1>1, <1>2

LEMMA HandlerThrows ==
    /\ HandlerThrow(NoThrow)
    /\ \A k \in {"error", "effect-failed", "backstop", "truncated"} : HandlerThrow(Threw(k))
  BY DEF HandlerThrow, NoThrow, Threw

LEMMA ExecThrows ==
    ASSUME NEW what, NEW rec, NEW operands, NEW results,
           Exec(what, rec, operands, results)
    PROVE  thrown' = thrown \/ HandlerThrow(thrown')
<1>1. CASE BackstopHit(operands)
  BY <1>1, HandlerThrows DEF Exec
<1>2. CASE ExecFails(what, rec)
  BY <1>2, HandlerThrows DEF ExecFails
<1>3. CASE ExecSucceeds(what, rec, results)
  BY <1>3 DEF ExecSucceeds
<1> QED
  BY <1>1, <1>2, <1>3 DEF Exec

\* A call on a child marks it waited only when it is over or foreign.
LEMMA CallsAccount ==
    ASSUME EffectsTypeOK, NEW k \in DOMAIN children, ChildStep(k), WaitedAccounted
    PROVE  WaitedAccounted'
<1> DEFINE old == children[k]
<1>1. old \in ChildType /\ children \in Seq(ChildType)
  BY DEF EffectsTypeOK
<1>2. ASSUME NEW c \in ChildType, children' = [children EXCEPT ![k] = c],
             c.waited => Accounted(c)
      PROVE  WaitedAccounted'
  <2> SUFFICES ASSUME NEW j \in DOMAIN children', children'[j].waited
               PROVE  Accounted(children'[j])
    BY DEF WaitedAccounted, Accounted
  <2>1. j \in DOMAIN children /\ children'[j] = IF j = k THEN c ELSE children[j]
    BY <1>1, <1>2
  <2> QED
    BY <1>2, <2>1 DEF WaitedAccounted
<1>3. CASE ChildExits(k)
  <2>1. children' = [children EXCEPT ![k] = [old EXCEPT !.proc = "exited"]]
    BY <1>3 DEF ChildExits
  <2>2. [old EXCEPT !.proc = "exited"] \in ChildType
    BY <1>1 DEF ChildType
  <2>3. old.waited => Accounted(old)
    BY DEF WaitedAccounted
  <2> QED
    BY <1>1, <1>2, <2>1, <2>2, <2>3 DEF ChildType, Accounted
<1>4. CASE SendSignal(k)
  <2> DEFINE sent == [old EXCEPT !.proc = "terminated"]
  <2>1. children' \in {children, [children EXCEPT ![k] = sent]}
    BY <1>4 DEF SendSignal, SignalChild
  <2>2. sent \in ChildType /\ sent.waited = old.waited /\ sent.foreign = old.foreign
        /\ sent.reaped = old.reaped
    BY <1>1 DEF ChildType
  <2>3. old.waited => Accounted(old)
    BY DEF WaitedAccounted
  <2>4. CASE children' = children
    BY <2>4 DEF WaitedAccounted
  <2>5. CASE children' = [children EXCEPT ![k] = sent]
    BY <1>2, <2>2, <2>3, <2>5 DEF Accounted
  <2> QED
    BY <2>1, <2>4, <2>5
<1>5. CASE Wait(k)
  <2> DEFINE over == [old EXCEPT !.waited = TRUE, !.reaped = TRUE]
  <2>1. children' = [children EXCEPT ![k] = over]
    BY <1>5 DEF Wait
  <2>2. over \in ChildType /\ Accounted(over)
    BY <1>1 DEF ChildType, Accounted
  <2> QED
    BY <1>2, <2>1, <2>2
<1>6. CASE Kill(k)
  <2> DEFINE marked == [old EXCEPT !.waited = TRUE]
             gone == [old EXCEPT !.waited = TRUE, !.reaped = TRUE, !.proc = "exited"]
  <2>1. marked \in ChildType /\ gone \in ChildType
    BY <1>1 DEF ChildType
  <2>2. Accounted(gone) /\ (old.foreign => Accounted(marked))
    BY <1>1 DEF ChildType, Accounted
  <2>3. \/ children' = [children EXCEPT ![k] = marked] /\ old.foreign
        \/ children' = [children EXCEPT ![k] = gone]
    BY <1>6 DEF Kill
  <2> QED
    BY <1>2, <2>1, <2>2, <2>3
<1> QED
  BY <1>3, <1>4, <1>5, <1>6 DEF ChildStep

\* A spawn adds a child nobody has waited for.
LEMMA SpawnsAccount ==
    ASSUME EffectsTypeOK, NEW operands, StartChild(operands), WaitedAccounted
    PROVE  WaitedAccounted'
<1>1. CASE children' = children
  BY <1>1 DEF WaitedAccounted
<1>2. ASSUME NEW foreign,
             children' = Append(children, [proc |-> "running", waited |-> FALSE,
                                           reaped |-> FALSE, foreign |-> foreign])
      PROVE  WaitedAccounted'
  <2>1. children \in Seq(ChildType)
    BY DEF EffectsTypeOK
  <2> DEFINE fresh == [proc |-> "running", waited |-> FALSE, reaped |-> FALSE,
                       foreign |-> foreign]
  <2>2. ~fresh.waited
    OBVIOUS
  <2> HIDE DEF fresh
  <2> SUFFICES ASSUME NEW j \in DOMAIN children', children'[j].waited
               PROVE  Accounted(children'[j])
    BY DEF WaitedAccounted
  <2>3. \/ j \in DOMAIN children /\ children'[j] = children[j]
        \/ children'[j] = fresh
    BY <1>2, <2>1 DEF fresh
  <2> QED
    BY <2>2, <2>3 DEF WaitedAccounted
<1> QED
  BY <1>1, <1>2 DEF StartChild

LEMMA HandlerCalls ==
    ASSUME EffectsTypeOK, HandlerStep
    PROVE  HandlerMay
<1> log \in EffectLogType
  BY DEF EffectsTypeOK
<1>1. EffectsNext
  BY DEF EffectsNext
<1>2. request' = request /\ EffectsTypeOK'
  BY <1>1, StepsOfPerformed, StepClasses, MarkTypes, ObserveTypes, MutateTypes, ChildTypes
<1>3. (Mutated => Mutated') /\ (performed' = performed => (Mutated' => Mutated))
  BY <1>1, StepsOfPerformed DEF Mutated, AddsMutation
<1>4. CASE MarkStep
  <2>1. OnlyMark
    BY <1>4, MarkSteps
  <2>2. /\ log'.handlerRendered =>
             log.handlerRendered \/ stdout' = Append(stdout, LogText(log))
        /\ \/ stdout' = stdout
           \/ ~request.json /\ stdout' = Append(stdout, LogText(log))
    BY <1>4, RenderedLogs DEF MarkStep, Refuse, Recorded, RenderLog, Extract, Catch
  <2>3. thrown' = thrown \/ HandlerThrow(thrown')
    BY <2>1, HandlerThrows DEF OnlyMark
  <2>4. WaitedAccounted => WaitedAccounted'
    BY <2>1 DEF OnlyMark, WaitedAccounted
  <2> QED
    BY <1>2, <1>3, <2>1, <2>2, <2>3, <2>4 DEF HandlerMay, OnlyMark
<1>5. CASE Observe
  <2>1. UNCHANGED <<log, children, stdout>>
    BY <1>5 DEF Observe
  <2>2. thrown' = thrown \/ HandlerThrow(thrown')
    BY <1>5, ExecThrows DEF Observe
  <2>3. Mutated' => Mutated
    <3>1. performed' \in {performed, performed \cup {Fact("observe", 0)}}
      BY <1>5, ExecPerforms DEF Observe
    <3> QED
      BY <3>1 DEF Mutated, Fact
  <2> QED
    BY <1>2, <1>3, <2>1, <2>2, <2>3 DEF HandlerMay, WaitedAccounted
<1>6. ASSUME NEW m \in Methods, Mutate(m) PROVE HandlerMay
  <2>1. stdout' = stdout /\ request.effect = "mutating"
    BY <1>6, MutateHalves
  <2>2. log'.handlerRendered = log.handlerRendered
    <3>1. \E k, b : log' = Record(log, k, b)
      BY <1>6, MutateHalves DEF RecordOnly, StartChild, Perform
    <3> QED
      BY <3>1, RenderedLogs
  <2>3. CASE request.dryRun /\ RecordOnly(m)
    BY <1>2, <1>3, <2>1, <2>2, <2>3 DEF RecordOnly, HandlerMay, WaitedAccounted
  <2>4. ASSUME ~request.dryRun, NEW operands \in Operands(m), StartChild(operands)
        PROVE  HandlerMay
    <3>1. thrown' = thrown \/ HandlerThrow(thrown')
      BY <2>4, HandlerThrows DEF StartChild
    <3> QED
      BY <1>2, <1>3, <2>1, <2>2, <2>4, <3>1, SpawnsAccount DEF HandlerMay
  <2>5. ASSUME ~request.dryRun, NEW operands \in Operands(m), Perform(m, operands)
        PROVE  HandlerMay
    <3>1. thrown' = thrown \/ HandlerThrow(thrown')
      BY <2>5, ExecThrows DEF Perform
    <3>2. WaitedAccounted => WaitedAccounted'
      BY <2>5 DEF Perform, WaitedAccounted
    <3> QED
      BY <1>2, <1>3, <2>1, <2>2, <2>5, <3>1, <3>2 DEF HandlerMay
  <2> QED
    BY <1>6, <2>3, <2>4, <2>5, MutateHalves
<1>7. ASSUME NEW k \in DOMAIN children, ChildStep(k) PROVE HandlerMay
  <2>1. OnlyChild(k)
    BY <1>7, ChildSteps
  <2>2. thrown' = thrown \/ HandlerThrow(thrown')
    BY <2>1, HandlerThrows DEF OnlyChild
  <2> QED
    BY <1>2, <1>3, <1>7, <2>1, <2>2, CallsAccount DEF OnlyChild, HandlerMay
<1> QED
  BY <1>1, <1>4, <1>5, <1>6, <1>7, StepClasses

-----------------------------------------------------------------------------
(* The steps of a dispatch, by the part of the code that takes them.       *)

ExitStep == ExitTruncated \/ ExitThrow \/ ExitNormally
SettleStep == SettleQuiet \/ SendTerm \/ TermRefused \/ GraceExpires \/ ReapKilled
              \/ SettleDone \/ Poll \/ EndTurn
\* The handler's own steps that do not end it.
OwnStep == WriteStray \/ SupplyPayload \/ \E c \in Codes : ThrowExitNow(c)
EndStep == Unwind \/ \E c \in Codes : Return(c)
ExitCall == \E c \in Codes : CallProcessExit(c)
SignalStep == \E sig \in Handled : SignalArrives(sig)

LEMMA DispatchSteps ==
    ASSUME DispatchNext
    PROVE  \/ Decline \/ EnterHandler \/ CallHandle \/ OwnStep \/ EndStep \/ ExitCall
           \/ SettleStep \/ Deliver \/ ExitStep \/ ChildActs \/ SignalStep
  BY DEF DispatchNext, HandlerActs, FrameworkActs, OwnStep, EndStep, ExitCall,
         SettleStep, ExitStep, SignalStep

\* An exit step: one of three endings, everything the handler left is kept.
ExitMay ==
    /\ phase = "exit" /\ phase' \in {"done", "thrown", "rejected"} /\ aborted' = TRUE
    /\ UNCHANGED <<request, log, mutationRecorded, held, children, thrown, performed,
                   confirmed, guard, stray, signals, payload, ending, settling, killed>>

LEMMA ExitSteps == ExitStep => ExitMay
<1>1. ExitTruncated => ExitMay
  BY DEF ExitTruncated, EmitEnvelope, Leave, ExitMay
<1>2. ExitThrow => ExitMay
  BY DEF ExitThrow, EmitEnvelope, Leave, ExitMay
<1>3. ExitNormally => ExitMay
  BY DEF ExitNormally, EmitEnvelope, Leave, ExitMay
<1> QED
  BY <1>1, <1>2, <1>3 DEF ExitStep

\* A child's exit changes the state of its process.
ChildMay ==
    /\ UNCHANGED <<request, log, mutationRecorded, held, thrown, performed, stdout>>
    /\ UNCHANGED dispatchVars
    /\ \E k \in DOMAIN children :
          children' = [children EXCEPT ![k] = [children[k] EXCEPT !.proc = "exited"]]

LEMMA ChildMaySteps == ChildActs => ChildMay
  BY DEF ChildActs, ChildExits, ChildMay

-----------------------------------------------------------------------------
(* Type correctness.                                                       *)

LEMMA EndingTypes ==
    ASSUME DispatchTypeOK
    PROVE  /\ FinalEnding \in [kind : EndingKinds, code : Nat]
           /\ ExitCode \in Nat
           /\ Reported \subseteq Diagnostics
<1>1. ending \in [kind : EndingKinds, code : Nat]
  BY DEF DispatchTypeOK
<1>2. FinalEnding \in [kind : EndingKinds, code : Nat]
  BY <1>1 DEF FinalEnding, EndingKinds
<1>3. ExitCode \in Nat
  <2>1. 128 + Number(signals.received) \in Nat
    BY DEF Number
  <2> QED
    BY <1>2, <2>1 DEF ExitCode
<1>4. Reported \subseteq Diagnostics
  BY DEF Reported, Diagnostics
<1> QED
  BY <1>2, <1>3, <1>4

LEMMA StatusTypes == \A code \in Nat : StatusOf(code) \in Nat
  BY DEF StatusOf

LEMMA ItemTypes ==
    ASSUME DispatchTypeOK
    PROVE  /\ \A code \in Nat, error \in {"none", "truncated", "aborted"} :
                Envelope(code, error) \in ItemType
           /\ LogItems \in Seq(ItemType)
           /\ <<Item("payload", 0, 0, "none")>> \in Seq(ItemType)
<1>1. Len(log.records) \in Nat /\ log.renderedCount \in Nat
  BY DEF DispatchTypeOK, EffectsTypeOK, EffectLogType
<1>2. LogText(log) \in ItemType
  BY <1>1 DEF LogText, ItemType
<1>3. Item("payload", 0, 0, "none") \in ItemType
  BY DEF Item, ItemType
<1>4. \A code \in Nat, error \in {"none", "truncated", "aborted"} :
         Envelope(code, error) \in ItemType
  BY <1>1 DEF Envelope, Item, ItemType
<1>5. LogItems \in Seq(ItemType)
  BY <1>2 DEF LogItems
<1>6. <<Item("payload", 0, 0, "none")>> \in Seq(ItemType)
  BY <1>3
<1> QED
  BY <1>4, <1>5, <1>6

\* The variables of the handle alone, which most steps leave as they are.
LEMMA HandleKept == EffectsTypeOK /\ UNCHANGED handleVars => EffectsTypeOK'
  BY DEF EffectsTypeOK, handleVars

LEMMA ReleasedTypes ==
    ASSUME DispatchTypeOK
    PROVE  /\ ReleasedGuard \in {"none", "armed", "released"}
           /\ ReleasedSignals \in
                [listening : BOOLEAN, pending : Seq(Handled), arrived : Seq(Handled),
                 received : Handled \cup {"none"},
                    due : Nat, inPoll : BOOLEAN]
<1> DEFINE SignalType == [listening : BOOLEAN, pending : Seq(Handled),
                          arrived : Seq(Handled), received : Handled \cup {"none"},
                    due : Nat, inPoll : BOOLEAN]
           empty == << >>
<1>1. signals \in SignalType /\ empty \in Seq(Handled)
  BY DEF DispatchTypeOK
<1>2. ReleasedSignals = [signals EXCEPT !.listening = FALSE, !.pending = empty]
  BY DEF ReleasedSignals
<1> HIDE DEF empty
<1>3. ReleasedSignals \in SignalType
  BY <1>1, <1>2
<1> QED
  BY <1>3 DEF DispatchTypeOK, ReleasedGuard

\* The end of the settling: the signals are counted, and the listeners stay when
\* the loop turns once more.
LEMMA SettledSignals ==
    ASSUME DispatchTypeOK, SettleDone
    PROVE  /\ signals' \in [listening : BOOLEAN, pending : Seq(Handled), arrived : Seq(Handled),
                    received : Handled \cup {"none"}, due : Nat, inPoll : BOOLEAN]
           /\ signals'.received = signals.received /\ signals'.arrived = signals.arrived
           /\ signals'.due = Len(signals.arrived)
           /\ IF LoopTurns
              THEN /\ signals'.listening = signals.listening
                   /\ signals'.pending = signals.pending
                   /\ phase' = IF signals'.inPoll THEN "check" ELSE "turn"
              ELSE ~signals'.listening /\ phase' = "exit"
<1> DEFINE empty == << >>
           count == Len(signals.arrived)
<1>1. /\ signals \in [listening : BOOLEAN, pending : Seq(Handled), arrived : Seq(Handled),
                    received : Handled \cup {"none"}, due : Nat, inPoll : BOOLEAN]
      /\ empty \in Seq(Handled) /\ count \in Nat
  BY DEF DispatchTypeOK
<1>2. PICK inPoll \in BOOLEAN :
         IF LoopTurns
         THEN /\ phase' = IF inPoll THEN "check" ELSE "turn"
              /\ signals' = [signals EXCEPT !.due = count, !.inPoll = inPoll]
         ELSE /\ phase' = "exit"
              /\ signals' = [[signals EXCEPT !.due = count, !.inPoll = inPoll]
                               EXCEPT !.listening = FALSE, !.pending = empty]
  BY DEF SettleDone
<1> HIDE DEF empty, count
<1>3. CASE LoopTurns
  BY <1>1, <1>2, <1>3 DEF count
<1>4. CASE ~LoopTurns
  BY <1>1, <1>2, <1>4 DEF count
<1> QED
  BY <1>3, <1>4

\* What EmitEnvelope does to the phase, the status and the two streams.
EmitMay(next, code, error) ==
    \/ /\ payload = "deviant" /\ phase' = "rejected" /\ status' = StatusOf(1)
       /\ UNCHANGED <<stdout, stderr>>
    \/ /\ phase' = next /\ status' = StatusOf(code)
       /\ IF request.ownsStdout
          THEN stderr' = Append(stderr, Envelope(code, error)) /\ UNCHANGED stdout
          ELSE stdout' = Append(stdout, Envelope(code, error)) /\ UNCHANGED stderr

LEMMA Emits ==
    ASSUME NEW next, NEW code, NEW error, EmitEnvelope(next, code, error)
    PROVE  EmitMay(next, code, error) /\ diagnosed' = Reported
  BY DEF EmitEnvelope, EmitMay, Leave

LEMMA EmitTypes ==
    ASSUME DispatchTypeOK, NEW next \in Phases, NEW code \in Nat,
           NEW error \in {"none", "truncated", "aborted"}, EmitMay(next, code, error)
    PROVE  /\ phase' \in Phases /\ status' \in Nat
           /\ stdout' \in Seq(ItemType) /\ stderr' \in Seq(ItemType)
<1>1. Envelope(code, error) \in ItemType
  BY ItemTypes
<1>2. stdout \in Seq(ItemType) /\ stderr \in Seq(ItemType)
  BY DEF DispatchTypeOK, EffectsTypeOK
<1>3. StatusOf(1) \in Nat /\ StatusOf(code) \in Nat
  BY StatusTypes
<1>4. "rejected" \in Phases
  BY DEF Phases, Terminal
<1>5. /\ Append(stdout, Envelope(code, error)) \in Seq(ItemType)
      /\ Append(stderr, Envelope(code, error)) \in Seq(ItemType)
  BY <1>1, <1>2
<1>6. phase' \in Phases /\ status' \in Nat
  BY <1>3, <1>4 DEF EmitMay
<1>7. stdout' \in Seq(ItemType) /\ stderr' \in Seq(ItemType)
  BY <1>2, <1>5 DEF EmitMay
<1> QED
  BY <1>6, <1>7

LEMMA ExitTypes ==
    ASSUME DispatchTypeOK, ExitStep
    PROVE  /\ phase' \in Phases /\ status' \in Nat /\ diagnosed' \subseteq Diagnostics
           /\ stdout' \in Seq(ItemType) /\ stderr' \in Seq(ItemType)
<1>1. /\ stdout \in Seq(ItemType) /\ stderr \in Seq(ItemType)
      /\ LogItems \in Seq(ItemType) /\ << >> \in Seq(ItemType)
      /\ <<Item("payload", 0, 0, "none")>> \in Seq(ItemType)
  BY ItemTypes DEF DispatchTypeOK, EffectsTypeOK
<1>2. {"done", "thrown", "rejected"} \subseteq Phases
  BY DEF Phases, Terminal
<1>3. /\ ExitCode \in Nat /\ Reported \subseteq Diagnostics
      /\ Reported \cup {"truncated"} \subseteq Diagnostics
      /\ Reported \cup {"aborted"} \subseteq Diagnostics
  BY EndingTypes DEF Diagnostics
<1>4. \A s, t \in Seq(ItemType) : s \o t \in Seq(ItemType)
  OBVIOUS
<1>5. CASE ExitTruncated
  <2>1. CASE request.json
    BY <1>2, <1>3, <1>5, <2>1, Emits, EmitTypes DEF ExitTruncated
  <2>2. CASE ~request.json
    BY <1>1, <1>2, <1>3, <1>4, <1>5, <2>2, StatusTypes DEF ExitTruncated, Leave
  <2> QED
    BY <2>1, <2>2
<1>6. CASE ExitThrow
  <2>1. CASE request.json
    BY <1>2, <1>3, <1>6, <2>1, Emits, EmitTypes DEF ExitThrow
  <2>2. CASE ~request.json
    BY <1>1, <1>2, <1>3, <1>4, <1>6, <2>2, StatusTypes DEF ExitThrow, Leave
  <2> QED
    BY <2>1, <2>2
<1>7. CASE ExitNormally
  <2>1. CASE request.json
    BY <1>2, <1>3, <1>7, <2>1, Emits, EmitTypes DEF ExitNormally
  <2>2. CASE ~request.json
    <3>1. /\ phase' \in Phases /\ status' \in Nat /\ diagnosed' \subseteq Diagnostics
          /\ stderr' = stderr
      BY <1>2, <1>3, <1>7, <2>2, StatusTypes DEF ExitNormally, Leave
    <3> DEFINE s == IF Renders THEN <<Item("payload", 0, 0, "none")>> ELSE << >>
               t == IF request.dryRun THEN LogItems ELSE << >>
    <3>2. s \in Seq(ItemType) /\ t \in Seq(ItemType)
      BY <1>1
    <3>3. stdout' = stdout \/ stdout' = (stdout \o s) \o t
      BY <1>7, <2>2 DEF ExitNormally, Leave
    <3> HIDE DEF s, t
    <3>4. stdout \o s \in Seq(ItemType)
      BY <1>1, <3>2
    <3>5. (stdout \o s) \o t \in Seq(ItemType)
      BY <3>2, <3>4
    <3> QED
      BY <1>1, <3>1, <3>3, <3>5
  <2> QED
    BY <2>1, <2>2
<1> QED
  BY <1>5, <1>6, <1>7 DEF ExitStep

\* A rewritten child is a child, wherever settleChildren() is.
LEMMA ChildRewritten ==
    ASSUME EffectsTypeOK, NEW k, NEW c, k \in DOMAIN children => c \in ChildType
    PROVE  [children EXCEPT ![k] = c] \in Seq(ChildType)
<1>1. children \in Seq(ChildType)
  BY DEF EffectsTypeOK
<1>2. CASE k \in DOMAIN children
  BY <1>1, <1>2, ChildUpdated
<1>3. CASE k \notin DOMAIN children
  <2>1. [children EXCEPT ![k] = c] = children
    BY <1>1, <1>3
  <2> QED
    BY <1>1, <2>1
<1> QED
  BY <1>2, <1>3

\* What a step of the settling does to the child it is at.
LEMMA SettledChild ==
    ASSUME DispatchTypeOK, SettleStep
    PROVE  \/ children' = children
           \/ \E c : /\ settling \in DOMAIN children => c \in ChildType
                     /\ children' = [children EXCEPT ![settling] = c]
<1> DEFINE old == children[settling]
<1>1. settling \in DOMAIN children => old \in ChildType
  BY DEF DispatchTypeOK, EffectsTypeOK
<1>2. \A c \in ChildType :
         /\ Reaped(c) \in ChildType
         /\ [c EXCEPT !.waited = TRUE] \in ChildType
         /\ \A p \in {"terminated", "dying"} :
               [c EXCEPT !.waited = TRUE, !.proc = p] \in ChildType
  BY DEF Reaped, ChildType
<1> HIDE DEF old
<1>3. CASE SettleQuiet
  BY <1>1, <1>2, <1>3 DEF SettleQuiet, SettleChild, old
<1>4. CASE SendTerm
  <2>1. children' = [children EXCEPT ![settling] =
                       [old EXCEPT !.waited = TRUE, !.proc = "terminated"]]
    BY <1>4 DEF SendTerm, SignalRunning, old
  <2> QED
    BY <1>1, <1>2, <2>1
<1>5. CASE TermRefused
  <2>1. children' = [children EXCEPT ![settling] = [old EXCEPT !.waited = TRUE]]
    BY <1>5 DEF TermRefused, old
  <2> QED
    BY <1>1, <1>2, <2>1
<1>6. CASE GraceExpires
  <2>1. children' = [children EXCEPT ![settling] =
                       [old EXCEPT !.waited = TRUE, !.proc = "dying"]]
    BY <1>6 DEF GraceExpires, SignalRunning, old
  <2> QED
    BY <1>1, <1>2, <2>1
<1>7. CASE ReapKilled
  BY <1>1, <1>2, <1>7 DEF ReapKilled, SettleChild, old
<1>8. CASE SettleDone \/ Poll \/ EndTurn
  BY <1>8 DEF SettleDone, Poll, EndTurn, handleVars
<1> QED
  BY <1>3, <1>4, <1>5, <1>6, <1>7, <1>8 DEF SettleStep

LEMMA SettleTypes ==
    ASSUME DispatchTypeOK, SettleStep
    PROVE  DispatchTypeOK'
<1>1. /\ {"settle", "grace", "kill", "turn", "check", "exit", "rejected"} \subseteq Phases
      /\ settling + 1 \in Nat \ {0} /\ killed + 1 \in Nat
  BY DEF DispatchTypeOK, Phases, Terminal
<1>2. children' \in Seq(ChildType)
  <2>1. EffectsTypeOK /\ children \in Seq(ChildType)
    BY DEF DispatchTypeOK, EffectsTypeOK
  <2> QED
    BY <2>1, SettledChild, ChildRewritten
<1>3. UNCHANGED <<request, log, mutationRecorded, held, thrown, performed, stdout>>
  BY DEF SettleStep, SettleQuiet, SendTerm, TermRefused, GraceExpires, ReapKilled,
         SettleDone, Poll, EndTurn, SettleChild, SignalRunning, handleVars
<1>4. EffectsTypeOK'
  BY <1>2, <1>3 DEF DispatchTypeOK, EffectsTypeOK
<1>5. UNCHANGED <<confirmed, stray, payload, ending, diagnosed, stderr>>
  BY DEF SettleStep, SettleQuiet, SendTerm, TermRefused, GraceExpires, ReapKilled,
         SettleDone, Poll, EndTurn, SettleChild, SignalRunning
<1>6. /\ phase' \in Phases /\ guard' \in {guard, ReleasedGuard}
      /\ SettleDone \/ signals' \in {signals, ReleasedSignals}
      /\ aborted' \in {aborted, TRUE}
      /\ settling' \in Nat \ {0} /\ killed' \in Nat /\ status' \in {status, 1}
  BY <1>1 DEF DispatchTypeOK, SettleStep, SettleQuiet, SendTerm, TermRefused,
         GraceExpires, ReapKilled, SettleDone, Poll, EndTurn, SettleChild, SignalRunning
<1>7. /\ guard' \in {"none", "armed", "released"}
      /\ signals' \in [listening : BOOLEAN, pending : Seq(Handled),
                        arrived : Seq(Handled), received : Handled \cup {"none"},
                    due : Nat, inPoll : BOOLEAN]
  <2>1. guard \in {"none", "armed", "released"}
        /\ signals \in [listening : BOOLEAN, pending : Seq(Handled),
                         arrived : Seq(Handled), received : Handled \cup {"none"},
                    due : Nat, inPoll : BOOLEAN]
    BY DEF DispatchTypeOK
  <2> QED
    BY <1>6, <2>1, ReleasedTypes, SettledSignals
<1>8. aborted' \in BOOLEAN
  BY <1>6 DEF DispatchTypeOK
<1>9. status' \in Nat
  BY <1>6 DEF DispatchTypeOK
<1> QED
  BY <1>4, <1>5, <1>6, <1>7, <1>8, <1>9 DEF DispatchTypeOK

LEMMA HandlerTypes ==
    ASSUME DispatchTypeOK, OwnStep \/ EndStep \/ ExitCall
    PROVE  DispatchTypeOK'
<1>1. \A c \in Codes : c \in Nat
  BY CodesAssumption
<1>2. UNCHANGED <<request, log, mutationRecorded, held, children, performed, stdout>>
  BY DEF OwnStep, EndStep, ExitCall, WriteStray, SupplyPayload, ThrowExitNow, Unwind,
         Return, CallProcessExit, HandlerEnds, handleVars
<1>3. thrown' \in ThrowType
  <2>1. thrown \in ThrowType /\ NoThrow \in ThrowType
    BY DEF DispatchTypeOK, EffectsTypeOK, ThrowType, NoThrow, ThrowKinds
  <2>2. \A c \in Nat, kind \in {"exit-now", "trapped"} :
           [kind |-> kind, code |-> c] \in ThrowType
    BY DEF ThrowType, ThrowKinds
  <2>3. \A c \in Nat : TrapStatus(c) \in Nat
    BY DEF TrapStatus
  <2>4. OwnStep \/ EndStep => thrown' \in ThrowType
    BY <1>1, <2>1, <2>2 DEF OwnStep, EndStep, WriteStray, SupplyPayload, ThrowExitNow,
       Unwind, Return, handleVars
  <2>5. ExitCall => thrown' \in ThrowType
    BY <1>1, <2>1, <2>2, <2>3 DEF ExitCall, CallProcessExit
  <2> QED
    BY <2>4, <2>5
<1>4. EffectsTypeOK'
  BY <1>2, <1>3 DEF DispatchTypeOK, EffectsTypeOK
<1>5. ending' \in [kind : EndingKinds, code : Nat]
  <2>1. Classify(thrown) \in [kind : EndingKinds, code : Nat]
    BY DEF Classify, EndingKinds, DispatchTypeOK, EffectsTypeOK, ThrowType
  <2>2. \A c \in Nat : [kind |-> "return", code |-> c] \in [kind : EndingKinds, code : Nat]
    BY DEF EndingKinds
  <2>3. \/ ending' = ending \/ ending' = Classify(thrown)
        \/ \E c \in Codes : ending' = [kind |-> "return", code |-> c]
    BY DEF OwnStep, EndStep, ExitCall, WriteStray, SupplyPayload, ThrowExitNow, Unwind,
           Return, CallProcessExit, HandlerEnds, dispatchVars
  <2> QED
    BY <1>1, <2>1, <2>2, <2>3 DEF DispatchTypeOK
<1>6. phase' \in Phases /\ status' \in Nat
  <2>1. phase' \in {phase, "settle", "terminated"}
    BY DEF OwnStep, EndStep, ExitCall, WriteStray, SupplyPayload, ThrowExitNow, Unwind,
           Return, CallProcessExit, HandlerEnds, dispatchVars
  <2>2. status' = status \/ \E c \in Codes : status' = c % 256
    BY DEF OwnStep, EndStep, ExitCall, WriteStray, SupplyPayload, ThrowExitNow, Unwind,
           Return, CallProcessExit, HandlerEnds, dispatchVars
  <2> QED
    BY <1>1, <2>1, <2>2 DEF DispatchTypeOK, Phases, Terminal
<1>7. /\ UNCHANGED <<confirmed, guard, signals, aborted, settling, killed, diagnosed,
                      stderr>>
      /\ stray' \in {stray, TRUE} /\ payload' \in {payload, "valid", "deviant"}
  BY DEF OwnStep, EndStep, ExitCall, WriteStray, SupplyPayload, ThrowExitNow, Unwind,
         Return, CallProcessExit, HandlerEnds, dispatchVars
<1>8. stray' \in BOOLEAN /\ payload' \in {"unset", "valid", "deviant"}
  BY <1>7 DEF DispatchTypeOK
<1> QED
  BY <1>4, <1>5, <1>6, <1>7, <1>8 DEF DispatchTypeOK

LEMMA SignalTypes ==
    ASSUME DispatchTypeOK, SignalStep \/ Deliver
    PROVE  DispatchTypeOK'
<1> DEFINE SignalType == [listening : BOOLEAN, pending : Seq(Handled),
                          arrived : Seq(Handled), received : Handled \cup {"none"},
                    due : Nat, inPoll : BOOLEAN]
<1>1. signals \in SignalType /\ ReleasedSignals \in SignalType
  BY ReleasedTypes DEF DispatchTypeOK
<1>2. handleVars' = handleVars /\ EffectsTypeOK'
  BY HandleKept DEF SignalStep, SignalArrives, Deliver, DispatchTypeOK
<1>3. signals' \in SignalType
  <2>1. ASSUME NEW sig \in Handled, SignalArrives(sig) PROVE signals' \in SignalType
    <3>1. /\ Append(signals.pending, sig) \in Seq(Handled)
          /\ Append(signals.arrived, sig) \in Seq(Handled)
      BY <1>1
    <3> DEFINE p == Append(signals.pending, sig)
               a == Append(signals.arrived, sig)
    <3>2. signals' \in {[signals EXCEPT !.pending = p, !.arrived = a],
                        [signals EXCEPT !.arrived = a]}
      BY <2>1 DEF SignalArrives
    <3> HIDE DEF p, a
    <3> QED
      BY <1>1, <3>1, <3>2 DEF p, a
  <2>2. ASSUME Deliver PROVE signals' \in SignalType
    <3>1. Head(signals.pending) \in Handled
      BY <1>1, <2>2 DEF Deliver
    <3> QED
      BY <1>1, <2>2, <3>1 DEF Deliver
  <2> QED
    BY <2>1, <2>2 DEF SignalStep
<1>4. /\ phase' \in {phase, "terminated"} /\ aborted' \in {aborted, TRUE}
      /\ status' = status \/ \E sig \in Handled : status' = 128 + Number(sig)
      /\ UNCHANGED <<confirmed, guard, stray, payload, ending, settling, killed,
                     diagnosed, stderr>>
  BY DEF SignalStep, SignalArrives, Deliver
<1>5. phase' \in Phases /\ status' \in Nat
  BY <1>4 DEF DispatchTypeOK, Phases, Terminal, Number
<1>6. aborted' \in BOOLEAN
  BY <1>4 DEF DispatchTypeOK
<1> QED
  BY <1>2, <1>3, <1>4, <1>5, <1>6 DEF DispatchTypeOK

LEMMA StartTypes ==
    ASSUME DispatchTypeOK, Decline \/ EnterHandler
    PROVE  DispatchTypeOK'
<1>1. EffectsTypeOK'
  BY HandleKept DEF Decline, EnterHandler, DispatchTypeOK
<1>2. (request.mode = "run") \in BOOLEAN
  OBVIOUS
<1>3. CASE Decline
  BY <1>1, <1>3 DEF Decline, DispatchTypeOK, Phases, Terminal
<1>4. CASE EnterHandler
  <2>1. signals' \in [listening : BOOLEAN, pending : Seq(Handled), arrived : Seq(Handled),
                      received : Handled \cup {"none"},
                    due : Nat, inPoll : BOOLEAN]
    BY <1>2, <1>4 DEF EnterHandler, DispatchTypeOK
  <2> QED
    BY <1>1, <1>4, <2>1 DEF EnterHandler, DispatchTypeOK, Phases
<1> QED
  BY <1>3, <1>4

\* The type invariant is inductive on its own.
LEMMA DispatchTypes ==
    ASSUME DispatchTypeOK, [DispatchNext]_vars
    PROVE  DispatchTypeOK'
<1>1. EffectsTypeOK
  BY DEF DispatchTypeOK
<1>2. CASE CallHandle
  <2>1. EffectsTypeOK'
    BY <1>1, <1>2, HandlerCalls DEF CallHandle, HandlerMay
  <2> QED
    BY <1>2, <2>1 DEF CallHandle, dispatchVars, DispatchTypeOK
<1>3. CASE ExitStep
  <2>1. ExitMay
    BY <1>3, ExitSteps
  <2>2. EffectsTypeOK'
    BY <1>3, <2>1, ExitTypes DEF ExitMay, DispatchTypeOK, EffectsTypeOK
  <2> QED
    BY <1>3, <2>1, <2>2, ExitTypes DEF ExitMay, DispatchTypeOK
<1>4. CASE ChildActs
  <2>1. PICK k \in DOMAIN children : ChildExits(k)
    BY <1>4 DEF ChildActs
  <2>2. EffectsTypeOK'
    BY <1>1, <2>1, ChildTypes DEF ChildStep
  <2> QED
    BY <1>4, <2>2, ChildMaySteps DEF ChildMay, dispatchVars, DispatchTypeOK
<1>5. CASE UNCHANGED vars
  BY <1>5, HandleKept DEF vars, dispatchVars, DispatchTypeOK
<1> QED
  BY <1>2, <1>3, <1>4, <1>5, DispatchSteps, StartTypes, HandlerTypes, SettleTypes,
     SignalTypes

LEMMA DispatchStarts == DispatchInit => DispatchTypeOK
<1> SUFFICES ASSUME DispatchInit PROVE DispatchTypeOK
  OBVIOUS
<1>1. EffectsTypeOK
  BY HandleStarts DEF DispatchInit
<1>2. << >> \in Seq(Handled) /\ << >> \in Seq(ItemType)
  OBVIOUS
<1>3. signals \in [listening : BOOLEAN, pending : Seq(Handled), arrived : Seq(Handled),
                    received : Handled \cup {"none"},
                    due : Nat, inPoll : BOOLEAN]
  BY <1>2 DEF DispatchInit
<1>4. ending \in [kind : EndingKinds, code : Nat] /\ phase \in Phases
  BY DEF DispatchInit, EndingKinds, Phases
<1>5. stderr \in Seq(ItemType)
  BY <1>2 DEF DispatchInit
<1>6. /\ settling \in Nat \ {0} /\ killed \in Nat /\ status \in Nat
      /\ diagnosed \subseteq Diagnostics
  BY DEF DispatchInit
<1>7. stray \in BOOLEAN /\ aborted \in BOOLEAN
  BY DEF DispatchInit
<1>8. /\ confirmed \in {"unasked", "yes", "no", "not-needed"}
      /\ guard \in {"none", "armed", "released"}
      /\ payload \in {"unset", "valid", "deviant"}
  BY DEF DispatchInit
<1> QED
  BY <1>1, <1>3, <1>4, <1>5, <1>6, <1>7, <1>8 DEF DispatchTypeOK

\* Every variable of a dispatch keeps its type, whatever the handler does: no
\* ending without a code, and no document on a stream that is none.
THEOREM DispatchTypeCorrect == DispatchSpec => []DispatchTypeOK
  BY DispatchStarts, DispatchTypes, PTL DEF DispatchSpec

-----------------------------------------------------------------------------
(* The consent.                                                            *)

InSettling == {"settle", "grace", "kill"}
Running == {"handler", "turn", "check", "exit"} \cup InSettling

\* A mutation happened in a handler that was entered, and a handler is entered
\* only after the operator agreed or did not have to be asked.
Consent ==
    /\ phase = "confirm" => confirmed = "unasked"
    /\ phase \in Running \cup Emitted \cup {"rejected"} =>
          confirmed \in {"yes", "not-needed"}
    /\ confirmed = "not-needed" => ~NeedsConfirmation
    /\ Mutated => /\ confirmed \in {"yes", "not-needed"}
                  /\ ~request.dryRun /\ request.effect = "mutating"

\* The steps after the start: they decide nothing about the consent.
LaterStep ==
    OwnStep \/ EndStep \/ ExitCall \/ SettleStep \/ Deliver \/ ExitStep \/ ChildActs
    \/ SignalStep

LaterMay ==
    /\ UNCHANGED <<request, confirmed, performed>>
    /\ \/ phase' \in {phase, "terminated"}
       \/ phase \in Running /\ phase' \in Running \cup Emitted \cup {"rejected"}

LEMMA LaterSteps == LaterStep => LaterMay
<1>1. OwnStep \/ EndStep \/ ExitCall => LaterMay
  BY DEF OwnStep, EndStep, ExitCall, WriteStray, SupplyPayload, ThrowExitNow, Unwind,
         Return, CallProcessExit, HandlerEnds, handleVars, dispatchVars, LaterMay,
         Running, InSettling
<1>2. SettleStep => LaterMay
  BY DEF SettleStep, SettleQuiet, SendTerm, TermRefused, GraceExpires, ReapKilled,
         SettleDone, Poll, EndTurn, SettleChild, SignalRunning, handleVars, LaterMay,
         Running, InSettling
<1>3. Deliver \/ SignalStep => LaterMay
  BY DEF Deliver, SignalStep, SignalArrives, handleVars, LaterMay
<1>4. ExitStep => LaterMay
  BY ExitSteps DEF ExitMay, LaterMay, Running, Emitted
<1>5. ChildActs => LaterMay
  BY ChildMaySteps DEF ChildMay, dispatchVars, LaterMay
<1> QED
  BY <1>1, <1>2, <1>3, <1>4, <1>5 DEF LaterStep

LEMMA ConsentKept ==
    ASSUME DispatchTypeOK, Consent, [DispatchNext]_vars
    PROVE  Consent'
<1>1. CASE Decline
  BY <1>1 DEF Decline, Consent, Mutated, handleVars, NeedsConfirmation, Running,
              InSettling, Emitted
<1>2. CASE EnterHandler
  BY <1>2 DEF EnterHandler, Consent, Mutated, handleVars, NeedsConfirmation, Running,
              InSettling, Emitted
<1>3. CASE CallHandle
  <2>1. HandlerMay
    BY <1>3, HandlerCalls DEF CallHandle, DispatchTypeOK
  <2> QED
    BY <1>3, <2>1 DEF CallHandle, HandlerMay, dispatchVars, Consent, NeedsConfirmation,
                      Running
<1>4. CASE LaterStep
  BY <1>4, LaterSteps DEF LaterMay, Consent, Mutated, NeedsConfirmation, Running,
                          InSettling, Emitted
<1>5. CASE UNCHANGED vars
  BY <1>5 DEF vars, handleVars, dispatchVars, Consent, Mutated, NeedsConfirmation
<1> QED
  BY <1>1, <1>2, <1>3, <1>4, <1>5, DispatchSteps DEF LaterStep

\* Before the handler nothing has happened but the coverage shard.
LEMMA NothingMutated == EffectsInit => ~Mutated
<1>1. EffectsInit => \A p \in performed : p.what = "cache"
  BY DEF EffectsInit
<1> QED
  BY <1>1 DEF Mutated

THEOREM ConsentHolds == DispatchSpec => []Consent
<1>1. DispatchInit => Consent
  BY NothingMutated DEF DispatchInit, Consent, Running, InSettling, Emitted
<1> QED
  BY <1>1, ConsentKept, DispatchTypeCorrect, PTL DEF DispatchSpec

\* No mutation of a consequential command run from a terminal happens before
\* the operator consented, by the flag or by the answer.
THEOREM ConsentComesFirst == DispatchSpec => []ConsentFirst
<1>1. DispatchTypeOK /\ Consent => ConsentFirst
  <2> SUFFICES ASSUME Consent, request.mode = "run", request.consequential, Mutated
               PROVE  request.approve \/ confirmed = "yes"
    BY DEF ConsentFirst, Mutated
  <2>1. CASE confirmed = "yes"
    BY <2>1
  <2>2. CASE confirmed = "not-needed"
    BY <2>2 DEF Consent, NeedsConfirmation
  <2> QED
    BY <2>1, <2>2 DEF Consent
<1> QED
  BY <1>1, ConsentHolds, DispatchTypeCorrect, PTL

-----------------------------------------------------------------------------
(* The span of the guard and of the listeners.                             *)

Span ==
    /\ phase = "confirm" => guard = "none" /\ ~signals.listening
    /\ phase \in {"handler"} \cup InSettling =>
          guard = IF request.json THEN "armed" ELSE "none"
    /\ phase \in {"turn", "check", "exit", "rejected"} \cup Emitted => guard # "armed"
    /\ phase \in {"handler", "turn", "check"} \cup InSettling /\ request.mode = "run" =>
          signals.listening \/ signals.received # "none"
    /\ phase \in {"exit", "rejected"} \cup Emitted => ~signals.listening
    /\ phase \in {"rejected"} \cup Emitted => aborted

LEMMA SpanKept ==
    ASSUME DispatchTypeOK, Span, [DispatchNext]_vars
    PROVE  Span'
<1> USE DEF InSettling, Emitted
<1> DEFINE SignalType == [listening : BOOLEAN, pending : Seq(Handled),
                          arrived : Seq(Handled), received : Handled \cup {"none"},
                    due : Nat, inPoll : BOOLEAN]
<1> signals \in SignalType
  BY DEF DispatchTypeOK
<1>1. /\ ~ReleasedSignals.listening
      /\ ReleasedSignals.received = signals.received
      /\ ReleasedGuard # "armed"
  BY DEF ReleasedSignals, ReleasedGuard
<1>2. CASE Decline \/ EnterHandler
  BY <1>2 DEF Decline, EnterHandler, Span, handleVars
<1>3. CASE CallHandle
  <2>1. request' = request
    BY <1>3, HandlerCalls DEF CallHandle, DispatchTypeOK, HandlerMay
  <2> QED
    BY <1>3, <2>1 DEF CallHandle, dispatchVars, Span
<1>4. CASE OwnStep \/ EndStep \/ ExitCall
  BY <1>4 DEF OwnStep, EndStep, ExitCall, WriteStray, SupplyPayload, ThrowExitNow, Unwind,
              Return, CallProcessExit, HandlerEnds, handleVars, dispatchVars, Span
<1>5. CASE SettleStep
  BY <1>1, <1>5, SettledSignals DEF SettleStep, SettleQuiet, SendTerm, TermRefused, GraceExpires,
       ReapKilled, SettleDone, Poll, EndTurn, SettleChild, SignalRunning, handleVars, Span
<1>6. CASE Deliver
  <2>1. signals'.received = Head(signals.pending) /\ ~signals'.listening
    BY <1>1, <1>6 DEF Deliver, ReleasedSignals
  <2>2. signals'.received # "none"
    BY <1>6, <2>1 DEF Deliver, Handled
  <2> QED
    BY <1>6, <2>1, <2>2 DEF Deliver, handleVars, Span
<1>7. CASE SignalStep
  <2>1. /\ signals'.listening = signals.listening
        /\ signals'.received = signals.received
    BY <1>7 DEF SignalStep, SignalArrives
  <2> QED
    BY <1>7, <2>1 DEF SignalStep, SignalArrives, handleVars, Span
<1>8. CASE ExitStep
  BY <1>8, ExitSteps DEF ExitMay, Span
<1>9. CASE ChildActs
  BY <1>9, ChildMaySteps DEF ChildMay, dispatchVars, Span
<1>10. CASE UNCHANGED vars
  BY <1>10 DEF vars, handleVars, dispatchVars, Span
<1> QED
  BY <1>2, <1>3, <1>4, <1>5, <1>6, <1>7, <1>8, <1>9, <1>10, DispatchSteps

THEOREM SpanHolds == DispatchSpec => []Span
<1>1. DispatchInit => Span
  BY DEF DispatchInit, Span, InSettling, Emitted
<1> QED
  BY <1>1, SpanKept, DispatchTypeCorrect, PTL DEF DispatchSpec

\* The guard and the listeners cover the whole settling, and neither is left
\* behind on any way out of it.
THEOREM SpanCovers == DispatchSpec => []SpanCoversSettling
<1>1. Span => SpanCoversSettling
  BY DEF Span, SpanCoversSettling, InSettling, Emitted
<1> QED
  BY <1>1, SpanHolds, PTL

-----------------------------------------------------------------------------
(* The signals.                                                            *)

\* While the listeners are in place every signal waits, in order; the first
\* one is the one received; and when the thread was blocked by a kill the check
\* phase of the loop is reached only after what had arrived was received, unless
\* the handler's promise was settled in the poll phase before it.
Sequence ==
    /\ signals.listening => /\ request.mode = "run" /\ signals.received = "none"
                            /\ signals.pending = signals.arrived
    /\ signals.received # "none" =>
          signals.arrived # << >> /\ signals.received = signals.arrived[1]
    /\ phase = "confirm" => signals.arrived = << >> /\ signals.pending = << >>
    /\ request.mode # "run" => signals.arrived = << >>
    /\ phase \in {"turn", "check"} => LoopTurns
    /\ phase = "turn" => ~signals.inPoll
    /\ signals.due > 0 => signals.arrived # << >>
    /\ phase \in {"check", "exit", "done"} /\ killed > 0 /\ ~signals.inPoll
       /\ signals.due > 0 =>
          signals.received # "none"

\* What the steps that are not about signals leave alone.
SignalsKept == UNCHANGED <<request, signals>>

LEMMA Quiet ==
    ASSUME OwnStep \/ EndStep \/ ExitCall \/ ChildActs
    PROVE  SignalsKept /\ killed' = killed
           /\ phase' \in {phase, "settle", "terminated"}
<1>1. CASE ChildActs
  BY <1>1, ChildMaySteps DEF ChildMay, dispatchVars, SignalsKept
<1> QED
  BY <1>1 DEF OwnStep, EndStep, ExitCall, WriteStray, SupplyPayload, ThrowExitNow,
       Unwind, Return, CallProcessExit, HandlerEnds, handleVars, dispatchVars, SignalsKept

LEMMA SequenceKept ==
    ASSUME DispatchTypeOK, Span, Sequence, [DispatchNext]_vars
    PROVE  Sequence'
<1>1. /\ signals.pending \in Seq(Handled) /\ signals.arrived \in Seq(Handled)
      /\ signals \in [listening : BOOLEAN, pending : Seq(Handled), arrived : Seq(Handled),
                      received : Handled \cup {"none"},
                    due : Nat, inPoll : BOOLEAN]
      /\ killed \in Nat
  BY DEF DispatchTypeOK
<1>2. /\ ~ReleasedSignals.listening
      /\ ReleasedSignals.received = signals.received
      /\ ReleasedSignals.arrived = signals.arrived
      /\ ReleasedSignals.due = signals.due /\ ReleasedSignals.inPoll = signals.inPoll
  BY <1>1 DEF ReleasedSignals
<1>3. CASE Decline
  BY <1>3 DEF Decline, Sequence, handleVars
<1>4. CASE EnterHandler
  <2>1. signals.received = "none" /\ signals.pending = signals.arrived
    BY <1>4 DEF EnterHandler, Sequence, Span
  <2>2. signals' = [signals EXCEPT !.listening = (request.mode = "run")]
    BY <1>4 DEF EnterHandler
  <2>3. /\ signals'.listening = (request.mode = "run")
        /\ signals'.pending = signals.pending /\ signals'.arrived = signals.arrived
        /\ signals'.received = signals.received /\ signals'.due = signals.due
    BY <1>1, <2>2
  <2>4. request' = request /\ phase' = "handler"
    BY <1>4 DEF EnterHandler, handleVars
  <2> QED
    BY <2>1, <2>3, <2>4 DEF Sequence
<1>5. CASE CallHandle
  <2>1. request' = request
    BY <1>5, HandlerCalls DEF CallHandle, DispatchTypeOK, HandlerMay
  <2> QED
    BY <1>5, <2>1 DEF CallHandle, dispatchVars, Sequence
<1>6. CASE OwnStep \/ EndStep \/ ExitCall \/ ChildActs
  BY <1>6, Quiet DEF SignalsKept, Sequence, LoopTurns
<1>7. CASE SettleStep
  <2>1. CASE SettleQuiet \/ SendTerm \/ GraceExpires \/ ReapKilled
    BY <2>1 DEF SettleQuiet, SendTerm, GraceExpires, ReapKilled, SettleChild,
                SignalRunning, Sequence
  <2>2. CASE TermRefused
    BY <1>2, <2>2 DEF TermRefused, Sequence
  <2>3. CASE SettleDone
    <3>1. LoopTurns \/ killed = 0 \/ request.mode # "run"
      BY <1>1 DEF LoopTurns
    <3>2. /\ request' = request /\ killed' = killed /\ phase = "settle"
          /\ LoopTurns' = LoopTurns
      BY <2>3 DEF SettleDone, handleVars, LoopTurns
    <3>3. signals'.due > 0 => signals'.arrived # << >>
      BY <1>1, <2>3, SettledSignals
    <3>4. CASE LoopTurns
      BY <2>3, <3>2, <3>3, <3>4, SettledSignals DEF Sequence
    <3>5. CASE ~LoopTurns
      <4>1. killed > 0 => signals'.arrived = << >>
        BY <2>3, <3>1, <3>5, SettledSignals DEF Sequence
      <4> QED
        BY <2>3, <3>2, <3>3, <3>5, <4>1, SettledSignals DEF Sequence
    <3> QED
      BY <3>4, <3>5
  <2>4. CASE Poll
    <3>1. /\ signals' = signals /\ request' = request /\ killed' = killed
          /\ phase = "turn" /\ phase' = "check" /\ signals.pending = << >>
      BY <2>4 DEF Poll, handleVars
    <3>2. request.mode = "run"
      BY <3>1 DEF Sequence, LoopTurns
    <3>3. signals.arrived # << >> => signals.received # "none"
      BY <3>1, <3>2 DEF Sequence, Span
    <3> QED
      BY <3>1, <3>3 DEF Sequence, LoopTurns
  <2>5. CASE EndTurn
    BY <1>2, <2>5 DEF EndTurn, Sequence, handleVars
  <2> QED
    BY <1>7, <2>1, <2>2, <2>3, <2>4, <2>5 DEF SettleStep
<1>8. CASE Deliver
  <2>1. /\ signals.pending = signals.arrived /\ signals.pending # << >>
        /\ phase \in {"handler", "turn", "check"}
    BY <1>8 DEF Deliver, Sequence
  <2>2. /\ signals'.received = signals.arrived[1] /\ signals'.arrived = signals.arrived
        /\ ~signals'.listening
        /\ signals'.due = signals.due /\ signals'.inPoll = signals.inPoll
    BY <1>1, <1>2, <1>8, <2>1 DEF Deliver, ReleasedSignals
  <2> QED
    BY <1>8, <2>1, <2>2 DEF Deliver, Sequence, handleVars, LoopTurns
<1>9. CASE SignalStep
  <2>1. PICK sig \in Handled : SignalArrives(sig)
    BY <1>9 DEF SignalStep
  <2>2. /\ signals'.listening = signals.listening /\ signals'.received = signals.received
        /\ signals'.arrived = Append(signals.arrived, sig)
        /\ signals'.due = signals.due /\ signals'.inPoll = signals.inPoll
        /\ signals.listening => signals'.pending = Append(signals.pending, sig)
    BY <1>1, <2>1 DEF SignalArrives
  <2>3. /\ signals'.arrived # << >>
        /\ signals.arrived # << >> => signals'.arrived[1] = signals.arrived[1]
    BY <1>1, <2>2
  <2>4. /\ request' = request /\ request.mode = "run" /\ killed' = killed
        /\ IF signals.listening THEN phase' = phase ELSE phase' = "terminated"
        /\ phase \notin Terminal
    BY <2>1 DEF SignalArrives, handleVars
  <2>5. CASE signals.listening
    <3>1. phase # "exit" /\ phase # "done" /\ phase # "confirm"
      BY <2>4, <2>5 DEF Span, Terminal
    <3>2. /\ phase' = phase /\ LoopTurns' = LoopTurns
          /\ signals'.received = "none" /\ signals'.pending = signals'.arrived
      BY <2>2, <2>4, <2>5 DEF Sequence, LoopTurns
    <3>3. ~(phase' = "check" /\ killed' > 0 /\ ~signals'.inPoll /\ signals'.due > 0)
      BY <2>2, <2>4, <2>5, <3>2 DEF Sequence
    <3> QED
      BY <2>2, <2>3, <2>4, <2>5, <3>1, <3>2, <3>3 DEF Sequence
  <2>6. CASE ~signals.listening
    BY <2>2, <2>3, <2>4, <2>6 DEF Sequence
  <2> QED
    BY <2>5, <2>6
<1>10. CASE ExitStep
  BY <1>10, ExitSteps DEF ExitMay, Sequence
<1>11. CASE UNCHANGED vars
  BY <1>11 DEF vars, handleVars, dispatchVars, Sequence, LoopTurns
<1> QED
  BY <1>3, <1>4, <1>5, <1>6, <1>7, <1>8, <1>9, <1>10, <1>11, DispatchSteps

THEOREM SequenceHolds == DispatchSpec => []Sequence
<1>1. DispatchInit => Sequence
  BY DEF DispatchInit, Sequence
<1> QED
  BY <1>1, SequenceKept, SpanHolds, DispatchTypeCorrect, PTL DEF DispatchSpec

\* How a dispatch comes to one of the endings that have a result: by a step of
\* the exit or a refused SIGTERM; afterwards only a child may still exit.
LEMMA LastSteps ==
    ASSUME DispatchNext, phase' \in Emitted \cup {"rejected"}
    PROVE  ExitStep \/ TermRefused \/ (phase' = phase /\ ChildMay)
<1> USE DEF Emitted
<1>1. ~Decline /\ ~EnterHandler /\ ~CallHandle
  BY DEF Decline, EnterHandler, CallHandle, dispatchVars
<1>2. ~OwnStep /\ ~EndStep /\ ~ExitCall
  BY DEF OwnStep, EndStep, ExitCall, WriteStray, SupplyPayload, ThrowExitNow,
       Unwind, Return, CallProcessExit, HandlerEnds, dispatchVars
<1>3. SettleStep => TermRefused
  BY DEF SettleStep, SettleQuiet, SendTerm, GraceExpires, ReapKilled,
         SettleDone, Poll, EndTurn, SettleChild, SignalRunning
<1>4. ~Deliver /\ ~SignalStep
  BY DEF Deliver, SignalStep, SignalArrives, Terminal
<1>5. ChildActs => ChildMay /\ phase' = phase
  BY ChildMaySteps DEF ChildMay, dispatchVars
<1> QED
  BY <1>1, <1>2, <1>3, <1>4, <1>5, DispatchSteps

\* A code of 128 and a signal's number survives the operating system's modulus.
LEMMA SignalStatus ==
    \A sig \in Handled : StatusOf(128 + Number(sig)) = 128 + Number(sig)
  BY DEF Handled, Number, StatusOf

\* The first signal decides the status of a return or an early exit when it was
\* received; with a killed child it was, provided the loop polled before its
\* check phase.
THEOREM SignalsDecide == DispatchSpec => []SignalDecides
<1>1. DispatchInit => SignalDecides
  BY DEF DispatchInit, SignalDecides
<1>2. ASSUME DispatchTypeOK, Sequence, SignalDecides, [DispatchNext]_vars
      PROVE  SignalDecides'
  <2>1. CASE ExitStep
    <3>1. ExitMay /\ FinalEnding' = FinalEnding
      BY <2>1, ExitSteps DEF ExitMay, FinalEnding
    <3> SUFFICES ASSUME phase' = "done", FinalEnding.kind \in {"return", "exit-now"}
                 PROVE  /\ signals.received # "none" =>
                              /\ signals.received = signals.arrived[1]
                              /\ status' = 128 + Number(signals.received)
                        /\ killed > 0 /\ ~signals.inPoll /\ signals.due > 0 =>
                              status' = 128 + Number(signals.arrived[1])
      BY <3>1 DEF SignalDecides, ExitMay
    <3>2. ExitNormally
      BY <2>1 DEF ExitStep, ExitTruncated, ExitThrow
    <3>3. status' = StatusOf(ExitCode)
      <4>1. CASE request.json
        <5>1. EmitMay("done", ExitCode, "none")
          BY <3>2, <4>1, Emits DEF ExitNormally
        <5> QED
          BY <5>1 DEF EmitMay
      <4>2. CASE ~request.json
        BY <3>2, <4>2 DEF ExitNormally, Leave
      <4> QED
        BY <4>1, <4>2
    <3>4. ASSUME signals.received # "none"
          PROVE  status' = 128 + Number(signals.received)
      <4>1. ExitCode = 128 + Number(signals.received)
        BY <3>4 DEF ExitCode, Canceled
      <4>2. signals.received \in Handled
        <5>1. signals.received \in Handled \cup {"none"}
          BY <1>2 DEF DispatchTypeOK
        <5> QED
          BY <3>4, <5>1
      <4> QED
        BY <3>3, <4>1, <4>2, SignalStatus
    <3>5. /\ signals.received # "none" => signals.received = signals.arrived[1]
          /\ killed > 0 /\ ~signals.inPoll /\ signals.due > 0 =>
                signals.received # "none"
      <4>1. phase = "exit"
        BY <3>1 DEF ExitMay
      <4> QED
        BY <1>2, <4>1 DEF Sequence
    <3> QED
      BY <3>4, <3>5
  <2>2. CASE TermRefused
    BY <2>2 DEF TermRefused, SignalDecides
  <2>3. CASE phase' = phase /\ ChildMay
    <3>1. FinalEnding' = FinalEnding
      BY <2>3 DEF ChildMay, dispatchVars, FinalEnding
    <3> QED
      BY <1>2, <2>3, <3>1 DEF ChildMay, dispatchVars, SignalDecides
  <2>4. CASE phase' \notin Emitted \cup {"rejected"}
    BY <2>4 DEF SignalDecides, Emitted
  <2>5. CASE UNCHANGED vars
    <3>1. FinalEnding' = FinalEnding
      BY <2>5 DEF vars, handleVars, dispatchVars, FinalEnding
    <3> QED
      BY <1>2, <2>5, <3>1 DEF vars, handleVars, dispatchVars, SignalDecides
  <2> QED
    BY <1>2, <2>1, <2>2, <2>3, <2>4, <2>5, LastSteps
<1> QED
  BY <1>1, <1>2, DispatchTypeCorrect, SequenceHolds, PTL DEF DispatchSpec

-----------------------------------------------------------------------------
(* The children.                                                           *)

\* settleChildren() goes through the children in order and leaves none behind:
\* the one it is at is the only one that is waited for and not over yet.
Reaping ==
    /\ phase \in {"confirm", "handler"} => settling = 1
    /\ \A k \in DOMAIN children : children[k].waited =>
          \/ Accounted(children[k])
          \/ phase \in {"grace", "kill"} /\ k = settling
          \/ phase = "terminated"
    /\ phase \in InSettling =>
          \A k \in DOMAIN children : k < settling => Accounted(children[k])
    /\ phase \in {"turn", "check", "exit"} \cup Emitted =>
          \A k \in DOMAIN children : Accounted(children[k])

\* Rewriting one child leaves the others.
LEMMA OtherChildren ==
    ASSUME EffectsTypeOK, NEW k, NEW c, children' = [children EXCEPT ![k] = c]
    PROVE  /\ DOMAIN children' = DOMAIN children
           /\ DOMAIN children \subseteq Nat
           /\ \A j \in DOMAIN children : children'[j] = IF j = k THEN c ELSE children[j]
  BY DEF EffectsTypeOK

LEMMA ReapingSettle ==
    ASSUME DispatchTypeOK, Reaping, SettleStep
    PROVE  Reaping'
<1> USE DEF InSettling, Emitted
<1> DEFINE old == children[settling]
<1>1. /\ EffectsTypeOK /\ settling \in Nat
      /\ \A k \in DOMAIN children : children[k] \in ChildType /\ k \in Nat
  BY DEF DispatchTypeOK, EffectsTypeOK
<1>2. \A c \in ChildType :
         /\ Reaped(c).reaped
         /\ \A p : /\ [c EXCEPT !.waited = TRUE, !.proc = p].reaped = c.reaped
                   /\ [c EXCEPT !.waited = TRUE, !.proc = p].foreign = c.foreign
  BY DEF ChildType, Reaped
<1>3. CASE SettleQuiet
  <2>1. PICK c : /\ children' = [children EXCEPT ![settling] = c]
                 /\ c = IF old.waited THEN old ELSE Reaped(old)
    BY <1>3 DEF SettleQuiet, SettleChild
  <2>2. phase = "settle" /\ phase' = "settle" /\ settling' = settling + 1
    BY <1>3 DEF SettleQuiet, SettleChild
  <2>3. settling \in DOMAIN children => Accounted(c)
    BY <1>1, <1>2, <2>1, <2>2 DEF Reaping, Accounted
  <2> QED
    BY <1>1, <2>1, <2>2, <2>3, OtherChildren DEF Reaping
<1>4. CASE SendTerm \/ GraceExpires
  <2>1. PICK p : children' = [children EXCEPT ![settling] =
                                [old EXCEPT !.waited = TRUE, !.proc = p]]
    BY <1>4 DEF SendTerm, GraceExpires, SignalRunning
  <2> DEFINE c == [old EXCEPT !.waited = TRUE, !.proc = p]
  <2>2. phase' \in {"grace", "kill"} /\ phase \in InSettling /\ settling' = settling
    BY <1>4 DEF SendTerm, GraceExpires, SignalRunning
  <2>3. settling \in DOMAIN children => (Accounted(old) => Accounted(c))
    BY <1>1, <1>2 DEF Accounted
  <2> HIDE DEF c
  <2>4. /\ DOMAIN children' = DOMAIN children
        /\ \A j \in DOMAIN children : j # settling => children'[j] = children[j]
    BY <1>1, <2>1, OtherChildren
  <2>5. \A k \in DOMAIN children : k < settling => Accounted(children'[k])
    BY <1>1, <2>2, <2>4 DEF Reaping
  <2>6. \A k \in DOMAIN children :
           k # settling => (children'[k].waited => Accounted(children'[k]))
    BY <2>2, <2>4 DEF Reaping
  <2> QED
    BY <2>2, <2>4, <2>5, <2>6 DEF Reaping
<1>5. CASE TermRefused
  <2> DEFINE c == [old EXCEPT !.waited = TRUE]
  <2>1. children' = [children EXCEPT ![settling] = c]
    BY <1>5 DEF TermRefused
  <2>2. settling \in DOMAIN children => Accounted(c)
    BY <1>1, <1>5 DEF TermRefused, ChildType, Accounted
  <2>3. phase = "settle" /\ phase' = "rejected"
    BY <1>5 DEF TermRefused
  <2> HIDE DEF c
  <2>4. /\ DOMAIN children' = DOMAIN children
        /\ \A j \in DOMAIN children : children'[j] = IF j = settling THEN c ELSE children[j]
    BY <1>1, <2>1, OtherChildren
  <2>5. \A k \in DOMAIN children : children'[k].waited => Accounted(children'[k])
    BY <2>2, <2>3, <2>4 DEF Reaping
  <2> QED
    BY <2>3, <2>4, <2>5 DEF Reaping
<1>6. CASE ReapKilled
  <2>1. children' = [children EXCEPT ![settling] = Reaped(old)]
    BY <1>6 DEF ReapKilled, SettleChild
  <2>2. phase \in InSettling /\ phase' = "settle" /\ settling' = settling + 1
    BY <1>6 DEF ReapKilled, SettleChild
  <2>3. settling \in DOMAIN children => Accounted(Reaped(old))
    BY <1>1, <1>2 DEF Accounted
  <2>4. /\ DOMAIN children' = DOMAIN children
        /\ \A j \in DOMAIN children :
              children'[j] = IF j = settling THEN Reaped(old) ELSE children[j]
    BY <1>1, <2>1, OtherChildren
  <2>5. \A k \in DOMAIN children : k < settling + 1 => Accounted(children'[k])
    BY <1>1, <2>2, <2>3, <2>4 DEF Reaping
  <2>6. \A k \in DOMAIN children : children'[k].waited => Accounted(children'[k])
    BY <1>6, <2>2, <2>3, <2>4 DEF Reaping, ReapKilled
  <2> QED
    BY <2>2, <2>4, <2>5, <2>6 DEF Reaping
<1>7. CASE SettleDone
  <2>1. \A k \in DOMAIN children : k < settling
    BY <1>1, <1>7 DEF SettleDone, ChildLeft, DispatchTypeOK, EffectsTypeOK
  <2>2. \A k \in DOMAIN children : Accounted(children[k])
    BY <1>7, <2>1 DEF SettleDone, Reaping
  <2> QED
    BY <1>7, <2>2 DEF SettleDone, handleVars, Reaping
<1>8. CASE Poll \/ EndTurn
  BY <1>8 DEF Poll, EndTurn, handleVars, Reaping
<1> QED
  BY <1>3, <1>4, <1>5, <1>6, <1>7, <1>8 DEF SettleStep

LEMMA ReapingKept ==
    ASSUME DispatchTypeOK, Reaping, [DispatchNext]_vars
    PROVE  Reaping'
<1> USE DEF InSettling, Emitted
<1>1. EffectsTypeOK
  BY DEF DispatchTypeOK
<1>2. CASE Decline \/ EnterHandler
  BY <1>2 DEF Decline, EnterHandler, handleVars, Reaping
<1>3. CASE CallHandle
  <2>1. phase = "handler" /\ phase' = phase /\ settling' = settling
    BY <1>3 DEF CallHandle, dispatchVars
  <2>2. WaitedAccounted'
    BY <1>1, <1>3, <2>1, HandlerCalls DEF CallHandle, HandlerMay, WaitedAccounted, Reaping
  <2> QED
    BY <2>1, <2>2 DEF Reaping, WaitedAccounted
<1>4. CASE OwnStep \/ EndStep \/ ExitCall
  <2>1. /\ children' = children /\ settling' = settling /\ phase = "handler"
        /\ phase' \in {phase, "settle", "terminated"}
    BY <1>4 DEF OwnStep, EndStep, ExitCall, WriteStray, SupplyPayload, ThrowExitNow,
         Unwind, Return, CallProcessExit, HandlerEnds, handleVars, dispatchVars
  <2>2. \A k \in DOMAIN children : ~(k < 1)
    BY <1>1 DEF EffectsTypeOK
  <2> QED
    BY <2>1, <2>2 DEF Reaping
<1>5. CASE Deliver \/ SignalStep
  BY <1>5 DEF Deliver, SignalStep, SignalArrives, handleVars, Reaping
<1>6. CASE ExitStep
  BY <1>6, ExitSteps DEF ExitMay, Reaping
<1>7. CASE ChildActs
  <2>1. PICK k \in DOMAIN children :
           children' = [children EXCEPT ![k] = [children[k] EXCEPT !.proc = "exited"]]
    BY <1>7, ChildMaySteps DEF ChildMay
  <2>2. phase' = phase /\ settling' = settling
    BY <1>7, ChildMaySteps DEF ChildMay, dispatchVars
  <2>3. children[k] \in ChildType
    BY <1>1 DEF EffectsTypeOK
  <2>4. /\ DOMAIN children' = DOMAIN children
        /\ \A j \in DOMAIN children : /\ children'[j].waited = children[j].waited
                                      /\ children'[j].reaped = children[j].reaped
                                      /\ children'[j].foreign = children[j].foreign
    BY <1>1, <2>1, <2>3, OtherChildren DEF ChildType
  <2> QED
    BY <2>2, <2>4 DEF Reaping, Accounted
<1>8. CASE UNCHANGED vars
  BY <1>8 DEF vars, handleVars, dispatchVars, Reaping
<1> QED
  BY <1>2, <1>3, <1>4, <1>5, <1>6, <1>7, <1>8, DispatchSteps, ReapingSettle

THEOREM ReapingHolds == DispatchSpec => []Reaping
<1>1. DispatchInit => Reaping
  BY DEF DispatchInit, EffectsInit, Reaping, InSettling, Emitted
<1> QED
  BY <1>1, ReapingKept, DispatchTypeCorrect, PTL DEF DispatchSpec

\* Before a result exists every child was waited for, by the handler or by the
\* exit step, unless it may not be signalled.
THEOREM NoChildIsLeft == DispatchSpec => []NoChildOutlives
<1>1. Reaping => NoChildOutlives
  BY DEF Reaping, NoChildOutlives, Accounted
<1> QED
  BY <1>1, ReapingHolds, PTL

-----------------------------------------------------------------------------
(* The two streams.                                                        *)

HasLog(stream) == \E i \in DOMAIN stream : stream[i].what = "log"
NoEnvelope(stream) == \A i \in DOMAIN stream : stream[i].what # "envelope"

LEMMA Concatenated ==
    ASSUME NEW s \in Seq(ItemType), NEW t \in Seq(ItemType)
    PROVE  /\ s \o t \in Seq(ItemType)
           /\ NoEnvelope(s) /\ NoEnvelope(t) => NoEnvelope(s \o t)
           /\ HasLog(s) \/ HasLog(t) => HasLog(s \o t)
<1> DEFINE u == s \o t
<1>1. /\ u \in Seq(ItemType) /\ Len(u) = Len(s) + Len(t)
      /\ \A i \in DOMAIN u : u[i] = IF i <= Len(s) THEN s[i] ELSE t[i - Len(s)]
  OBVIOUS
<1>2. /\ \A i \in DOMAIN s : i \in DOMAIN u /\ u[i] = s[i]
      /\ \A i \in DOMAIN t : i + Len(s) \in DOMAIN u /\ u[i + Len(s)] = t[i]
  OBVIOUS
<1>3. \A i \in DOMAIN u : i \in DOMAIN s \/ i - Len(s) \in DOMAIN t
  BY <1>1
<1> HIDE DEF u
<1>4. HasLog(s) \/ HasLog(t) => HasLog(u)
  BY <1>2 DEF HasLog
<1>5. NoEnvelope(s) /\ NoEnvelope(t) => NoEnvelope(u)
  <2> SUFFICES ASSUME NoEnvelope(s), NoEnvelope(t), NEW i \in DOMAIN u
               PROVE  u[i].what # "envelope"
    BY DEF NoEnvelope
  <2>1. CASE i \in DOMAIN s
    BY <1>2, <2>1 DEF NoEnvelope
  <2>2. CASE i - Len(s) \in DOMAIN t
    <3>1. i \in Nat /\ Len(s) \in Nat
      BY <1>1
    <3>2. u[i] = t[i - Len(s)]
      BY <1>2, <2>2, <3>1
    <3> QED
      BY <2>2, <3>2 DEF NoEnvelope
  <2> QED
    BY <1>3, <2>1, <2>2
<1> QED
  BY <1>1, <1>4, <1>5 DEF u

LEMMA Appended ==
    ASSUME NEW s \in Seq(ItemType), NEW item \in ItemType
    PROVE  /\ NoEnvelope(s) /\ item.what # "envelope" => NoEnvelope(Append(s, item))
           /\ item.what = "log" => HasLog(Append(s, item))
           /\ HasLog(s) => HasLog(Append(s, item))
<1> DEFINE u == Append(s, item)
<1>1. /\ Len(u) = Len(s) + 1 /\ u[Len(s) + 1] = item /\ Len(s) + 1 \in DOMAIN u
      /\ \A i \in DOMAIN s : i \in DOMAIN u /\ u[i] = s[i]
      /\ \A i \in DOMAIN u : i \in DOMAIN s \/ i = Len(s) + 1
  OBVIOUS
<1> HIDE DEF u
<1>2. /\ item.what = "log" => HasLog(u)
      /\ HasLog(s) => HasLog(u)
  BY <1>1 DEF HasLog
<1>3. NoEnvelope(s) /\ item.what # "envelope" => NoEnvelope(u)
  BY <1>1 DEF NoEnvelope
<1> QED
  BY <1>2, <1>3 DEF u

\* The exit step writes what it writes; until then a stream holds at most the
\* renderings the handler asked for, and none in machine mode.
Streams ==
    /\ phase \notin Emitted \/ ~request.json => NoEnvelope(stdout) /\ stderr = << >>
    /\ phase \notin Emitted /\ request.json => stdout = << >>
    /\ log.handlerRendered => HasLog(stdout)
    /\ phase = "rejected" =>
          status # 0 /\ (request.json => payload = "deviant" \/ Unsignalled)

\* What the exit step does to the streams: nothing, one envelope, or a log.
NoDocument ==
    /\ phase' = "rejected" /\ status' = StatusOf(1) /\ UNCHANGED <<stdout, stderr>>
    /\ request.json => payload = "deviant"
OneEnvelope ==
    /\ request.json /\ phase' \in Emitted
    /\ \E item : /\ item.what = "envelope" /\ item.upto = Len(log.records)
                 /\ IF request.ownsStdout
                    THEN stderr' = Append(stderr, item) /\ UNCHANGED stdout
                    ELSE stdout' = Append(stdout, item) /\ UNCHANGED stderr
HumanText ==
    /\ ~request.json /\ phase' \in Emitted /\ UNCHANGED stderr
    /\ NoEnvelope(stdout) => NoEnvelope(stdout')
    /\ HasLog(stdout) => HasLog(stdout')
    /\ request.dryRun /\ ~SeamSuppressed(log) => HasLog(stdout')

LEMMA ExitText ==
    ASSUME DispatchTypeOK
    PROVE  /\ LogItems \in Seq(ItemType) /\ NoEnvelope(LogItems)
           /\ ~SeamSuppressed(log) => HasLog(LogItems)
           /\ NoEnvelope(<<Item("payload", 0, 0, "none")>>)
           /\ NoEnvelope(<< >>)
  BY ItemTypes DEF LogItems, LogText, Item, NoEnvelope, HasLog

LEMMA ExitStreams ==
    ASSUME DispatchTypeOK, ExitStep
    PROVE  NoDocument \/ OneEnvelope \/ HumanText
<1> USE DEF Emitted
<1> DEFINE empty == << >>
           payloadText == <<Item("payload", 0, 0, "none")>>
<1>1. /\ stdout \in Seq(ItemType) /\ LogItems \in Seq(ItemType)
      /\ payloadText \in Seq(ItemType) /\ empty \in Seq(ItemType)
  BY ItemTypes DEF DispatchTypeOK, EffectsTypeOK
<1>2. ASSUME request.json, NEW next \in Emitted, NEW code, NEW error,
             EmitMay(next, code, error)
      PROVE  NoDocument \/ OneEnvelope
  <2>1. /\ Envelope(code, error).what = "envelope"
        /\ Envelope(code, error).upto = Len(log.records)
    BY DEF Envelope, Item
  <2> QED
    BY <1>2, <2>1 DEF EmitMay, NoDocument, OneEnvelope
<1>3. CASE ExitTruncated
  <2>1. CASE request.json
    BY <1>2, <1>3, <2>1, Emits DEF ExitTruncated
  <2>2. CASE ~request.json
    <3>1. stdout' = stdout \o LogItems /\ UNCHANGED stderr /\ phase' = "done"
      BY <1>3, <2>2 DEF ExitTruncated, Leave
    <3> QED
      BY <1>1, <2>2, <3>1, Concatenated, ExitText DEF HumanText
  <2> QED
    BY <2>1, <2>2
<1>4. CASE ExitThrow
  <2>1. CASE request.json
    BY <1>2, <1>4, <2>1, Emits DEF ExitThrow
  <2>2. CASE ~request.json
    <3>1. /\ stdout' = IF request.dryRun THEN stdout \o LogItems ELSE stdout
          /\ UNCHANGED stderr /\ phase' = "thrown"
      BY <1>4, <2>2 DEF ExitThrow, Leave
    <3> QED
      BY <1>1, <2>2, <3>1, Concatenated, ExitText DEF HumanText
  <2> QED
    BY <2>1, <2>2
<1>5. CASE ExitNormally
  <2>1. CASE request.json
    BY <1>2, <1>5, <2>1, Emits DEF ExitNormally
  <2>2. CASE ~request.json /\ Renders /\ request.renderer = "partial"
    BY <1>5, <2>2 DEF ExitNormally, Leave, NoDocument
  <2>3. CASE ~request.json /\ ~(Renders /\ request.renderer = "partial")
    <3> DEFINE s == IF Renders THEN payloadText ELSE empty
               t == IF request.dryRun THEN LogItems ELSE empty
    <3>1. stdout' = (stdout \o s) \o t /\ UNCHANGED stderr /\ phase' = "done"
      BY <1>5, <2>3 DEF ExitNormally, Leave
    <3>2. /\ s \in Seq(ItemType) /\ t \in Seq(ItemType)
          /\ NoEnvelope(s) /\ NoEnvelope(t)
          /\ request.dryRun /\ ~SeamSuppressed(log) => HasLog(t)
      BY <1>1, ExitText
    <3> HIDE DEF s, t
    <3>3. /\ stdout \o s \in Seq(ItemType)
          /\ NoEnvelope(stdout) => NoEnvelope(stdout \o s)
          /\ HasLog(stdout) => HasLog(stdout \o s)
      BY <1>1, <3>2, Concatenated
    <3>4. /\ NoEnvelope(stdout \o s) => NoEnvelope(stdout')
          /\ HasLog(stdout \o s) \/ HasLog(t) => HasLog(stdout')
      BY <3>1, <3>2, <3>3, Concatenated
    <3> QED
      BY <2>3, <3>1, <3>2, <3>3, <3>4 DEF HumanText
  <2> QED
    BY <2>1, <2>2, <2>3
<1> QED
  BY <1>3, <1>4, <1>5 DEF ExitStep

LEMMA StreamsKept ==
    ASSUME DispatchTypeOK, Streams, [DispatchNext]_vars
    PROVE  Streams'
<1> USE DEF Emitted
<1>1. stdout \in Seq(ItemType) /\ EffectsTypeOK /\ log \in EffectLogType
  BY DEF DispatchTypeOK, EffectsTypeOK
<1>2. CASE Decline \/ EnterHandler
  BY <1>2 DEF Decline, EnterHandler, handleVars, Streams
<1>3. CASE CallHandle
  <2>1. HandlerMay /\ phase = "handler" /\ UNCHANGED dispatchVars
    BY <1>1, <1>3, HandlerCalls DEF CallHandle
  <2>2. LogText(log) \in ItemType /\ LogText(log).what = "log"
    BY <1>1 DEF LogText, EffectLogType, ItemType
  <2>3. /\ NoEnvelope(stdout) => NoEnvelope(stdout')
        /\ HasLog(stdout) => HasLog(stdout')
        /\ log'.handlerRendered => log.handlerRendered \/ HasLog(stdout')
    BY <1>1, <2>1, <2>2, Appended DEF HandlerMay
  <2>4. request.json => stdout' = stdout
    BY <2>1 DEF HandlerMay
  <2> QED
    BY <2>1, <2>3, <2>4 DEF HandlerMay, dispatchVars, Streams
<1>4. CASE OwnStep \/ EndStep \/ ExitCall
  <2>1. /\ UNCHANGED <<request, stdout, stderr, log>>
        /\ phase' \in {phase, "settle", "terminated"} /\ phase = "handler"
    BY <1>4 DEF OwnStep, EndStep, ExitCall, WriteStray, SupplyPayload, ThrowExitNow,
         Unwind, Return, CallProcessExit, HandlerEnds, handleVars, dispatchVars
  <2> QED
    BY <2>1 DEF Streams
<1>5. CASE SettleStep
  <2>1. UNCHANGED <<request, stdout, stderr, log>>
    BY <1>5 DEF SettleStep, SettleQuiet, SendTerm, TermRefused, GraceExpires, ReapKilled,
         SettleDone, Poll, EndTurn, SettleChild, SignalRunning, handleVars
  <2>2. phase \in InSettling \cup {"turn", "check"}
    BY <1>5 DEF SettleStep, SettleQuiet, SendTerm, TermRefused, GraceExpires, ReapKilled,
         SettleDone, Poll, EndTurn, SettleChild, SignalRunning, InSettling
  <2>3. CASE TermRefused
    <3>1. /\ ChildLeft /\ children[settling].foreign /\ phase' = "rejected" /\ status' = 1
          /\ children' = [children EXCEPT ![settling] =
                            [children[settling] EXCEPT !.waited = TRUE]]
      BY <2>3 DEF TermRefused
    <3>2. settling \in DOMAIN children
      BY <1>1, <3>1 DEF ChildLeft, DispatchTypeOK, EffectsTypeOK
    <3>3. children[settling] \in ChildType
      BY <1>1, <3>2 DEF EffectsTypeOK
    <3>4. settling \in DOMAIN children' /\ children'[settling].foreign
      BY <1>1, <3>1, <3>2, <3>3, OtherChildren DEF ChildType
    <3>5. Unsignalled'
      BY <3>4 DEF Unsignalled
    <3> QED
      BY <2>1, <2>2, <3>1, <3>5 DEF Streams, InSettling
  <2>4. CASE ~TermRefused
    <3>1. phase' \in InSettling \cup {"turn", "check", "exit"}
      BY <1>5, <2>4 DEF SettleStep, SettleQuiet, SendTerm, GraceExpires, ReapKilled,
         SettleDone, Poll, EndTurn, SettleChild, SignalRunning, InSettling
    <3> QED
      BY <2>1, <2>2, <3>1 DEF Streams, InSettling
  <2> QED
    BY <2>3, <2>4
<1>6. CASE Deliver \/ SignalStep
  <2>1. /\ UNCHANGED <<request, stdout, stderr, log, children, payload>>
        /\ phase \notin Terminal
        /\ phase' \in {phase, "terminated"}
    BY <1>6 DEF Deliver, SignalStep, SignalArrives, handleVars, Terminal
  <2> QED
    BY <2>1 DEF Streams, Terminal
<1>7. CASE ExitStep
  <2>1. ExitMay
    BY <1>7, ExitSteps
  <2>2. StatusOf(1) = 1
    BY DEF StatusOf
  <2>3. CASE NoDocument
    BY <2>1, <2>2, <2>3 DEF NoDocument, ExitMay, Streams
  <2>4. CASE OneEnvelope
    <3>1. NoEnvelope(stdout) /\ stdout = << >> /\ phase' # "rejected"
      BY <2>1, <2>4 DEF OneEnvelope, ExitMay, Streams
    <3>2. ~HasLog(stdout)
      BY <3>1 DEF HasLog
    <3> QED
      BY <2>1, <2>4, <3>1, <3>2 DEF OneEnvelope, ExitMay, Streams
  <2>5. CASE HumanText
    BY <2>1, <2>5 DEF HumanText, ExitMay, Streams
  <2> QED
    BY <1>7, <2>3, <2>4, <2>5, ExitStreams
<1>8. CASE ChildActs
  <2>1. ChildMay
    BY <1>8, ChildMaySteps
  <2>2. Unsignalled => Unsignalled'
    <3>1. PICK k \in DOMAIN children :
             children' = [children EXCEPT ![k] = [children[k] EXCEPT !.proc = "exited"]]
      BY <2>1 DEF ChildMay
    <3>2. children[k] \in ChildType
      BY <1>1 DEF EffectsTypeOK
    <3> QED
      BY <1>1, <3>1, <3>2, OtherChildren DEF Unsignalled, ChildType
  <2> QED
    BY <2>1, <2>2 DEF ChildMay, dispatchVars, Streams
<1>9. CASE UNCHANGED vars
  BY <1>9 DEF vars, handleVars, dispatchVars, Streams, Unsignalled
<1> QED
  BY <1>2, <1>3, <1>4, <1>5, <1>6, <1>7, <1>8, <1>9, DispatchSteps

THEOREM StreamsHold == DispatchSpec => []Streams
<1>1. DispatchInit => Streams
  <2> SUFFICES ASSUME DispatchInit PROVE Streams
    OBVIOUS
  <2>1. stdout = << >> /\ stderr = << >> /\ phase = "confirm"
    BY DEF DispatchInit, EffectsInit
  <2>2. ~log.handlerRendered
    <3>1. ~NewLog.handlerRendered
      BY DEF NewLog
    <3>2. ~RecordCacheWrite(NewLog).handlerRendered
      BY InitialLog DEF RecordCacheWrite, AppendRecord, NewLog, CacheWrite
    <3> QED
      BY <3>1, <3>2 DEF DispatchInit, EffectsInit
  <2> QED
    BY <2>1, <2>2 DEF Streams, NoEnvelope, Emitted
<1> QED
  BY <1>1, StreamsKept, DispatchTypeCorrect, PTL DEF DispatchSpec

\* What the streams hold once the exit step completed: in machine mode the one
\* envelope, on one of them; after a dry run in human mode a log.
Written ==
    phase \in Emitted =>
        /\ request.json =>
              \E item : /\ item.what = "envelope" /\ item.upto = Len(log.records)
                        /\ IF request.ownsStdout
                           THEN stderr = <<item>> /\ stdout = << >>
                           ELSE stdout = <<item>> /\ stderr = << >>
        /\ ~request.json /\ request.dryRun => HasLog(stdout)

LEMMA WrittenKept ==
    ASSUME DispatchTypeOK, Streams, Written, [DispatchNext]_vars
    PROVE  Written'
<1>1. CASE phase' \notin Emitted
  BY <1>1 DEF Written, Emitted
<1>2. CASE ExitStep
  <2>1. ExitMay /\ phase \notin Emitted
    BY <1>2, ExitSteps DEF ExitMay, Emitted
  <2>2. CASE NoDocument
    BY <2>2 DEF NoDocument, Written, Emitted
  <2>3. CASE OneEnvelope
    <3>1. stdout = << >> /\ stderr = << >>
      BY <2>1, <2>3 DEF OneEnvelope, Streams
    <3>2. \A item : Append(<< >>, item) = <<item>>
      OBVIOUS
    <3>3. PICK item :
             /\ item.what = "envelope" /\ item.upto = Len(log.records)
             /\ IF request.ownsStdout
                THEN stderr' = Append(stderr, item) /\ UNCHANGED stdout
                ELSE stdout' = Append(stdout, item) /\ UNCHANGED stderr
      BY <2>3 DEF OneEnvelope
    <3>4. IF request.ownsStdout
          THEN stderr' = <<item>> /\ stdout' = << >>
          ELSE stdout' = <<item>> /\ stderr' = << >>
      BY <3>1, <3>2, <3>3
    <3> QED
      BY <2>1, <2>3, <3>3, <3>4 DEF OneEnvelope, ExitMay, Written
  <2>4. CASE HumanText
    <3>1. request.dryRun => HasLog(stdout')
      BY <2>4 DEF HumanText, Streams, SeamSuppressed
    <3> QED
      BY <2>1, <2>4, <3>1 DEF HumanText, ExitMay, Written
  <2> QED
    BY <1>2, <2>2, <2>3, <2>4, ExitStreams
<1>3. CASE TermRefused
  BY <1>3 DEF TermRefused, Written, Emitted
<1>4. CASE phase' = phase /\ ChildMay
  BY <1>4 DEF ChildMay, dispatchVars, Written
<1>5. CASE UNCHANGED vars
  BY <1>5 DEF vars, handleVars, dispatchVars, Written
<1> QED
  BY <1>1, <1>2, <1>3, <1>4, <1>5, LastSteps

THEOREM WrittenHolds == DispatchSpec => []Written
<1>1. DispatchInit => Written
  BY DEF DispatchInit, Written, Emitted
<1> QED
  BY <1>1, WrittenKept, StreamsHold, DispatchTypeCorrect, PTL DEF DispatchSpec

LEMMA EnvelopeCounts ==
    /\ \A s : NoEnvelope(s) => Cardinality(Envelopes(s)) = 0
    /\ \A item : item.what = "envelope" =>
          Cardinality(Envelopes(<<item>>)) = 1 /\ Len(<<item>>) = 1
    /\ Cardinality(Envelopes(<< >>)) = 0 /\ Len(<< >>) = 0
<1>1. ASSUME NEW s, NoEnvelope(s) PROVE Cardinality(Envelopes(s)) = 0
  <2>1. Envelopes(s) = {}
    BY <1>1 DEF Envelopes, NoEnvelope
  <2> QED
    BY <2>1, FS_EmptySet
<1>2. ASSUME NEW item, item.what = "envelope"
      PROVE  Cardinality(Envelopes(<<item>>)) = 1 /\ Len(<<item>>) = 1
  <2>1. Envelopes(<<item>>) = {1}
    BY <1>2 DEF Envelopes
  <2> QED
    BY <2>1, FS_Singleton
<1>3. NoEnvelope(<< >>)
  BY DEF NoEnvelope
<1> QED
  BY <1>1, <1>2, <1>3

\* Machine mode writes exactly one document, on the stream the declaration
\* names and alone there, on every ending the exit step completes.
THEOREM OneDocumentOnly == DispatchSpec => []OneDocument
<1>1. Streams /\ Written => OneDocument
  <2> SUFFICES ASSUME Streams, Written, request.json PROVE OneDocument
    BY DEF OneDocument
  <2>1. ASSUME phase \in Emitted
        PROVE  /\ Cardinality(Envelopes(stdout)) = IF request.ownsStdout THEN 0 ELSE 1
               /\ Cardinality(Envelopes(stderr)) = IF request.ownsStdout THEN 1 ELSE 0
               /\ Len(stdout) = Cardinality(Envelopes(stdout))
    <3>1. PICK item : /\ item.what = "envelope"
                      /\ IF request.ownsStdout
                         THEN stderr = <<item>> /\ stdout = << >>
                         ELSE stdout = <<item>> /\ stderr = << >>
      BY <2>1 DEF Written
    <3> QED
      BY <3>1, EnvelopeCounts
  <2>2. phase = "rejected" => phase \notin Emitted
    BY DEF Emitted
  <2> QED
    BY <2>1, <2>2 DEF OneDocument, Streams
<1> QED
  BY <1>1, StreamsHold, WrittenHolds, PTL

\* A dry run is never answered with silence: a log on the human stream, or an
\* envelope that carries every record.
THEOREM PreviewSpeaks == DispatchSpec => []PreviewNeverSilent
<1>1. Written => PreviewNeverSilent
  <2> SUFFICES ASSUME Written, request.dryRun, phase \in Emitted
               PROVE  IF request.json
                      THEN \E item \in {stdout[i] : i \in DOMAIN stdout} \cup
                                       {stderr[i] : i \in DOMAIN stderr} :
                              item.what = "envelope" /\ item.upto = Len(log.records)
                      ELSE Logs # {}
    BY DEF PreviewNeverSilent
  <2>1. CASE request.json
    <3>1. PICK item : /\ item.what = "envelope" /\ item.upto = Len(log.records)
                      /\ stderr = <<item>> \/ stdout = <<item>>
      BY <2>1 DEF Written
    <3>2. 1 \in DOMAIN <<item>> /\ <<item>>[1] = item
      OBVIOUS
    <3>3. item \in {stdout[i] : i \in DOMAIN stdout} \cup {stderr[i] : i \in DOMAIN stderr}
      BY <3>1, <3>2
    <3> QED
      BY <2>1, <3>1, <3>3
  <2>2. CASE ~request.json
    BY <2>2 DEF Written, HasLog, Logs
  <2> QED
    BY <2>1, <2>2
<1> QED
  BY <1>1, WrittenHolds, PTL

-----------------------------------------------------------------------------
(* The outcome.                                                            *)

\* The code of an early exit and of a trapped process exit is never zero, and
\* a handler ends with the codes it may.
EarnedCode(e) ==
    /\ e.kind = "exit-now" => e.code \in 1 .. 255
    /\ e.kind = "trapped" => e.code # 0 /\ e.code \in Codes \cup {1}
    /\ e.kind = "return" => e.code \in Codes

Outcome == EarnedCode(thrown) /\ EarnedCode(ending)

LEMMA OutcomeKept ==
    ASSUME DispatchTypeOK, Outcome, [DispatchNext]_vars
    PROVE  Outcome'
<1>1. thrown \in ThrowType
  BY DEF DispatchTypeOK, EffectsTypeOK
<1>2. EarnedCode(NoThrow)
  BY DEF EarnedCode, NoThrow
<1>3. CASE Decline \/ EnterHandler
  BY <1>3 DEF Decline, EnterHandler, handleVars, Outcome
<1>4. CASE CallHandle
  <2>1. HandlerMay
    BY <1>4, HandlerCalls DEF CallHandle, DispatchTypeOK
  <2>2. thrown' \in ThrowType
    BY <2>1 DEF HandlerMay, EffectsTypeOK
  <2>3. EarnedCode(thrown')
    <3>1. CASE thrown' = thrown
      BY <3>1 DEF Outcome
    <3>2. CASE HandlerThrow(thrown')
      BY <2>2, <3>2 DEF HandlerThrow, EarnedCode, ThrowType, ThrowKinds
    <3> QED
      BY <2>1, <3>1, <3>2 DEF HandlerMay
  <2> QED
    BY <1>4, <2>3 DEF CallHandle, dispatchVars, Outcome
<1>5. CASE OwnStep
  <2>1. \A c \in 1 .. 255 : EarnedCode([kind |-> "exit-now", code |-> c])
    BY DEF EarnedCode
  <2> QED
    BY <1>5, <2>1 DEF OwnStep, WriteStray, SupplyPayload, ThrowExitNow, handleVars,
                      dispatchVars, Outcome
<1>6. CASE EndStep
  <2>1. \A c \in Codes : EarnedCode([kind |-> "return", code |-> c])
    BY DEF EarnedCode
  <2>2. EarnedCode(Classify(thrown))
    BY DEF Classify, EarnedCode, Outcome
  <2> QED
    BY <1>2, <1>6, <2>1, <2>2 DEF EndStep, Unwind, Return, HandlerEnds, Outcome
<1>7. CASE ExitCall
  <2>1. \A c \in Codes : EarnedCode([kind |-> "trapped", code |-> TrapStatus(c)])
    BY CodesAssumption DEF EarnedCode, TrapStatus
  <2> QED
    BY <1>7, <2>1 DEF ExitCall, CallProcessExit, Outcome
<1>8. CASE SettleStep
  BY <1>8 DEF SettleStep, SettleQuiet, SendTerm, TermRefused, GraceExpires, ReapKilled,
       SettleDone, Poll, EndTurn, SettleChild, SignalRunning, handleVars, Outcome
<1>9. CASE Deliver \/ SignalStep
  BY <1>9 DEF Deliver, SignalStep, SignalArrives, handleVars, Outcome
<1>10. CASE ExitStep
  BY <1>10, ExitSteps DEF ExitMay, Outcome
<1>11. CASE ChildActs
  BY <1>11, ChildMaySteps DEF ChildMay, dispatchVars, Outcome
<1>12. CASE UNCHANGED vars
  BY <1>12 DEF vars, handleVars, dispatchVars, Outcome
<1> QED
  BY <1>3, <1>4, <1>5, <1>6, <1>7, <1>8, <1>9, <1>10, <1>11, <1>12, DispatchSteps

THEOREM OutcomeHolds == DispatchSpec => []Outcome
<1>1. DispatchInit => Outcome
  BY DEF DispatchInit, EffectsInit, Outcome, EarnedCode, NoThrow
<1> QED
  BY <1>1, OutcomeKept, DispatchTypeCorrect, PTL DEF DispatchSpec

\* The operating system keeps the low eight bits of a status.  A code that is
\* a positive multiple of 256 would read as success: the handlers the theorem
\* speaks of do not end with one.
NoWrappedCode == \A c \in Codes : c % 256 = 0 => c = 0

LEMMA ZeroStatus ==
    ASSUME DispatchTypeOK, Outcome, NoWrappedCode, phase = "exit",
           FinalEnding.kind \in {"return", "exit-now", "trapped"}, StatusOf(ExitCode) = 0
    PROVE  /\ ending.kind = "return" /\ ending.code = 0
           /\ log.truncated = NotTruncated
           /\ killed = 0 /\ ~stray /\ signals.received = "none"
<1>1. /\ ending \in [kind : EndingKinds, code : Nat] /\ killed \in Nat
      /\ signals.received \in Handled \cup {"none"} /\ ending.code \in Nat
  BY DEF DispatchTypeOK
<1>2. FinalEnding = ending /\ log.truncated = NotTruncated
  BY DEF FinalEnding
<1>3. ~Canceled
  <2> SUFFICES ASSUME Canceled PROVE FALSE
    OBVIOUS
  <2>1. signals.received \in Handled
    BY <1>1 DEF Canceled
  <2>2. ExitCode = 128 + Number(signals.received)
    BY DEF ExitCode
  <2> QED
    BY <2>1, <2>2, SignalStatus DEF Handled, Number
<1>4. StatusOf(1) # 0
  BY DEF StatusOf
<1>5. ExitCode = ending.code /\ ((killed > 0 \/ stray) => ending.code # 0)
  BY <1>1, <1>2, <1>3, <1>4 DEF ExitCode
<1>6. ending.code = 0
  <2>1. ending.code = 0 \/ ending.code % 256 = 0
    BY <1>5 DEF StatusOf
  <2>2. CASE ending.code \in 1 .. 255
    <3>1. ending.code % 256 = ending.code
      BY <2>2
    <3> QED
      BY <2>1, <2>2, <3>1
  <2>3. CASE ending.code \in Codes
    BY <2>1, <2>3 DEF NoWrappedCode
  <2> QED
    BY <1>2, <2>2, <2>3 DEF Outcome, EarnedCode
<1>7. ending.kind = "return"
  BY <1>2, <1>6 DEF Outcome, EarnedCode
<1>8. killed = 0 /\ ~stray
  BY <1>1, <1>5, <1>6
<1>9. signals.received = "none"
  BY <1>2, <1>3, <1>7 DEF Canceled
<1> QED
  BY <1>2, <1>6, <1>7, <1>8, <1>9

\* A run reports success only when nothing went wrong: no preview was cut
\* short, no child killed, no byte around the guard, no signal seen.
THEOREM SuccessNeedsEarning ==
    ASSUME NoWrappedCode
    PROVE  DispatchSpec => []SuccessIsEarned
<1>1. DispatchInit => SuccessIsEarned
  BY DEF DispatchInit, SuccessIsEarned, Emitted
<1>2. ASSUME DispatchTypeOK, Outcome, SuccessIsEarned, [DispatchNext]_vars
      PROVE  SuccessIsEarned'
  <2>1. CASE ExitStep
    <3>1. ExitMay
      BY <2>1, ExitSteps
    <3> SUFFICES ASSUME status' = 0
                 PROVE  /\ ending.kind = "return" /\ ending.code = 0
                        /\ log.truncated = NotTruncated
                        /\ killed = 0 /\ ~stray /\ signals.received = "none"
      BY <3>1 DEF SuccessIsEarned, ExitMay
    <3>2. StatusOf(1) # 0
      BY DEF StatusOf
    <3>3. ~ExitTruncated
      BY <3>2, Emits DEF ExitTruncated, EmitMay, Leave
    <3>4. ~ExitThrow
      BY <3>2, Emits DEF ExitThrow, EmitMay, Leave
    <3>5. ExitNormally
      BY <2>1, <3>3, <3>4 DEF ExitStep
    <3>6. StatusOf(ExitCode) = 0
      BY <3>2, <3>5, Emits DEF ExitNormally, EmitMay, Leave
    <3> QED
      BY <1>2, <3>5, <3>6, ZeroStatus DEF ExitNormally
  <2>2. CASE TermRefused
    BY <2>2 DEF TermRefused, SuccessIsEarned
  <2>3. CASE phase' = phase /\ ChildMay
    BY <1>2, <2>3 DEF ChildMay, dispatchVars, SuccessIsEarned
  <2>4. CASE phase' \notin Emitted \cup {"rejected"}
    BY <2>4 DEF SuccessIsEarned, Emitted
  <2>5. CASE UNCHANGED vars
    BY <1>2, <2>5 DEF vars, handleVars, dispatchVars, SuccessIsEarned
  <2> QED
    BY <1>2, <2>1, <2>2, <2>3, <2>4, <2>5, LastSteps
<1> QED
  BY <1>1, <1>2, DispatchTypeCorrect, OutcomeHolds, PTL DEF DispatchSpec

-----------------------------------------------------------------------------
(* Every dispatch is a run of the contract.                                *)

Stage == CASE phase = "confirm" -> "asked"
           [] phase \in Terminal -> "over"
           [] OTHER -> "running"
Permit == /\ confirmed \in {"yes", "not-needed"}
          /\ ~request.dryRun /\ request.effect = "mutating"
Documents == Cardinality(Envelopes(stdout)) + Cardinality(Envelopes(stderr))
Failed == phase \in Terminal /\ status # 0

\* The steps of the contract in the terms of the dispatch.
StartMay == /\ Stage = "asked" /\ Stage' = "running" /\ Permit' \in BOOLEAN
            /\ Mutated' = Mutated /\ Documents' = Documents /\ Failed' = Failed
TurnAwayMay == /\ Stage = "asked" /\ Stage' = "over" /\ Failed' = TRUE
               /\ Permit' = Permit /\ Mutated' = Mutated /\ Documents' = Documents
ChangeMay == /\ Stage = "running" /\ Permit /\ Mutated' = TRUE
             /\ Stage' = Stage /\ Permit' = Permit /\ Documents' = Documents
             /\ Failed' = Failed
EndMay == /\ Stage = "running" /\ Stage' = "over" /\ Documents' \in {0, 1}
          /\ Failed' \in BOOLEAN /\ Permit' = Permit /\ Mutated' = Mutated
StutterMay == /\ Stage' = Stage /\ Permit' = Permit /\ Mutated' = Mutated
              /\ Documents' = Documents /\ Failed' = Failed

LEMMA ContractTerms ==
    StartMay \/ TurnAwayMay \/ ChangeMay \/ EndMay \/ StutterMay
        => [Contract!ContractNext]_(Contract!contractVars)
<1> USE DEF Stage, Permit, Mutated, Documents, Failed, Contract!contractVars
<1>1. StartMay => Contract!Start
  BY DEF StartMay, Contract!Start
<1>2. TurnAwayMay => Contract!TurnAway
  BY DEF TurnAwayMay, Contract!TurnAway
<1>3. ChangeMay => Contract!Change
  BY DEF ChangeMay, Contract!Change
<1>4. EndMay => Contract!End
  BY DEF EndMay, Contract!End
<1>5. StutterMay => UNCHANGED Contract!contractVars
  BY DEF StutterMay
<1> QED
  BY <1>1, <1>2, <1>3, <1>4, <1>5 DEF Contract!ContractNext

\* A document is written by the exit step that completes, and only one.
LEMMA NoneBefore ==
    ASSUME Streams, Streams'
    PROVE  /\ phase \notin Emitted => Documents = 0
           /\ phase' \notin Emitted => Documents' = 0
<1>1. ASSUME NEW s, NEW e, NoEnvelope(s), e = << >>
      PROVE  Cardinality(Envelopes(s)) + Cardinality(Envelopes(e)) = 0
  BY <1>1, EnvelopeCounts
<1> QED
  BY <1>1 DEF Streams, Documents

LEMMA OneAtMost ==
    ASSUME Streams', Written'
    PROVE  Documents' \in {0, 1}
<1>1. ASSUME NEW s, NEW e, NoEnvelope(s), e = << >>
      PROVE  Cardinality(Envelopes(s)) + Cardinality(Envelopes(e)) = 0
  BY <1>1, EnvelopeCounts
<1>2. ASSUME NEW item, item.what = "envelope"
      PROVE  /\ Cardinality(Envelopes(<<item>>)) + Cardinality(Envelopes(<< >>)) = 1
             /\ Cardinality(Envelopes(<< >>)) + Cardinality(Envelopes(<<item>>)) = 1
  BY <1>2, EnvelopeCounts
<1>3. CASE (phase \in Emitted)' /\ request'.json
  <2>1. \/ \E item : item.what = "envelope" /\ stderr' = <<item>> /\ stdout' = << >>
        \/ \E item : item.what = "envelope" /\ stdout' = <<item>> /\ stderr' = << >>
    BY <1>3 DEF Written
  <2> QED
    BY <1>2, <2>1 DEF Documents
<1>4. CASE ~((phase \in Emitted)' /\ request'.json)
  BY <1>1, <1>4 DEF Streams, Documents
<1> QED
  BY <1>3, <1>4

\* After the start every step stutters or ends the run, and what is over stays
\* as it is.
LEMMA LaterContract ==
    ASSUME DispatchTypeOK, Streams, Streams', Written', LaterStep
    PROVE  TurnAwayMay \/ EndMay \/ StutterMay
<1>1. LaterMay
  BY LaterSteps
<1>2. Permit' = Permit /\ Mutated' = Mutated
  BY <1>1 DEF LaterMay, Permit, Mutated
<1>3. Failed' \in BOOLEAN /\ Documents' \in {0, 1}
  BY OneAtMost DEF Failed
<1>4. ASSUME phase \in Terminal PROVE StutterMay
  <2>1. ChildActs
    BY <1>4 DEF Terminal, LaterStep, OwnStep, EndStep, ExitCall, SettleStep, ExitStep,
       SignalStep, WriteStray, SupplyPayload, ThrowExitNow, Unwind, Return,
       CallProcessExit, SettleQuiet, SendTerm, TermRefused, GraceExpires, ReapKilled,
       SettleDone, Poll, EndTurn, Deliver, ExitTruncated, ExitThrow, ExitNormally,
       SignalArrives
  <2> QED
    BY <1>2, <2>1, ChildMaySteps DEF ChildMay, dispatchVars, StutterMay, Stage,
       Documents, Failed
<1>5. ASSUME phase \notin Terminal, phase' = phase PROVE StutterMay
  BY <1>2, <1>5, NoneBefore DEF StutterMay, Stage, Failed, Terminal, Emitted
<1>6. ASSUME phase \in Running, phase' \in Running PROVE StutterMay
  BY <1>2, <1>6, NoneBefore DEF StutterMay, Stage, Failed, Terminal, Emitted, Running,
     InSettling
<1>7. ASSUME phase \in Running, phase' \in Terminal PROVE EndMay
  BY <1>2, <1>3, <1>7 DEF EndMay, Stage, Terminal, Running, InSettling
<1>8. ASSUME phase = "confirm", phase' = "terminated" PROVE TurnAwayMay
  <2>1. SignalStep
    BY <1>8, ExitSteps, ChildMaySteps DEF LaterStep, OwnStep, EndStep, ExitCall,
       SettleStep, WriteStray, SupplyPayload, ThrowExitNow, Unwind, Return,
       CallProcessExit, SettleQuiet, SendTerm, TermRefused, GraceExpires, ReapKilled,
       SettleDone, Poll, EndTurn, Deliver, ExitMay, ChildMay, dispatchVars
  <2>2. status' # 0
    BY <1>8, <2>1 DEF SignalStep, SignalArrives, Handled, Number
  <2> QED
    BY <1>2, <1>8, <2>2, NoneBefore DEF TurnAwayMay, Stage, Failed, Terminal, Emitted
<1>9. phase \in {"confirm"} \cup Running \cup Terminal
  BY DEF DispatchTypeOK, Phases, Running, InSettling
<1> QED
  BY <1>1, <1>4, <1>5, <1>6, <1>7, <1>8, <1>9 DEF LaterMay, Terminal, Emitted

LEMMA StepContract ==
    ASSUME DispatchTypeOK, Consent, Streams, Streams', Written', [DispatchNext]_vars
    PROVE  [Contract!ContractNext]_(Contract!contractVars)
<1>1. CASE Decline
  <2>1. Mutated' = Mutated /\ Documents' = Documents
    BY <1>1 DEF Decline, handleVars, Mutated, Documents
  <2>2. Permit' = Permit
    BY <1>1 DEF Decline, handleVars, Permit, Consent
  <2>3. TurnAwayMay
    BY <1>1, <2>1, <2>2 DEF Decline, TurnAwayMay, Stage, Failed, Terminal
  <2> QED
    BY <2>3, ContractTerms
<1>2. CASE EnterHandler
  <2>1. Mutated' = Mutated /\ Documents' = Documents
    BY <1>2 DEF EnterHandler, handleVars, Mutated, Documents
  <2>2. Permit' \in BOOLEAN
    BY DEF Permit
  <2>3. StartMay
    BY <1>2, <2>1, <2>2 DEF EnterHandler, StartMay, Stage, Failed, Terminal
  <2> QED
    BY <2>3, ContractTerms
<1>3. CASE CallHandle
  <2>1. HandlerMay /\ phase = "handler" /\ UNCHANGED dispatchVars
    BY <1>3, HandlerCalls DEF CallHandle, DispatchTypeOK
  <2>2. Stage = "running" /\ Stage' = Stage /\ Failed' = Failed /\ Documents' = Documents
    BY <2>1, NoneBefore DEF dispatchVars, Stage, Failed, Terminal, Emitted
  <2>3. Permit' = Permit
    BY <2>1 DEF HandlerMay, dispatchVars, Permit
  <2>4. confirmed \in {"yes", "not-needed"}
    BY <2>1 DEF Consent, Running
  <2>5. Mutated' = Mutated \/ (Mutated' = TRUE /\ Permit)
    BY <2>1, <2>4 DEF HandlerMay, Permit, Mutated
  <2>6. StutterMay \/ ChangeMay
    BY <2>2, <2>3, <2>5 DEF StutterMay, ChangeMay
  <2> QED
    BY <2>6, ContractTerms
<1>4. CASE LaterStep
  BY <1>4, LaterContract, ContractTerms
<1>5. CASE UNCHANGED vars
  <2>1. StutterMay
    BY <1>5 DEF vars, handleVars, dispatchVars, StutterMay, Stage, Permit, Mutated,
       Documents, Failed
  <2> QED
    BY <2>1, ContractTerms
<1> QED
  BY <1>1, <1>2, <1>3, <1>4, <1>5, DispatchSteps DEF LaterStep

\* Every dispatch is a run of the contract: whatever the handler does, nothing
\* changes before or without the permission, the run is over once, and it
\* writes at most one document.
THEOREM DispatchImplements == DispatchSpec => ImplementsContract
<1>1. DispatchInit => Contract!ContractInit
  <2> SUFFICES ASSUME DispatchInit PROVE Contract!ContractInit
    OBVIOUS
  <2>1. stdout = << >> /\ stderr = << >> /\ ~Mutated
    BY NothingMutated DEF DispatchInit, EffectsInit
  <2>2. Cardinality(Envelopes(stdout)) + Cardinality(Envelopes(stderr)) = 0
    BY <2>1, EnvelopeCounts
  <2> QED
    BY <2>1, <2>2 DEF DispatchInit, Contract!ContractInit, Terminal, Mutated
<1> QED
  BY <1>1, StepContract, DispatchTypeCorrect, ConsentHolds, StreamsHold, WrittenHolds, PTL
     DEF DispatchSpec, ImplementsContract, Contract!ContractSpec
=============================================================================
