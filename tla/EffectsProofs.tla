---------------------------- MODULE EffectsProofs ----------------------------
(***************************************************************************)
(* Theorems about the effects handle, for every set of requests, texts and *)
(* allowlisted argvs and every bound.                                      *)
(*                                                                         *)
(* Type correctness comes first; then every step is put in one of three    *)
(* classes (a quiet step, an observe, a mutation) by what it may change,   *)
(* and each invariant is carried over the three classes.                   *)
(***************************************************************************)
EXTENDS Effects, TLAPS

-----------------------------------------------------------------------------
(* The log's operators.                                                    *)

\* What append() does to the fields the invariants speak of.
LEMMA AppendedLog ==
    ASSUME NEW l \in EffectLogType, NEW rec \in EffectRecord
    PROVE  LET new == AppendRecord(l, rec) IN
           /\ new \in EffectLogType
           /\ new.records = Append(l.records, rec)
           /\ new.truncated = l.truncated
           /\ new.renderedCount = IF rec.kind = CacheWrite THEN l.renderedCount
                                  ELSE l.renderedCount + 1
<1> DEFINE recs == Append(l.records, rec)
           cached == l.cachedCount + 1
           rendered == l.renderedCount + 1
<1>1. recs \in Seq(EffectRecord) /\ cached \in Nat /\ rendered \in Nat
  BY DEF EffectLogType
<1>2. AppendRecord(l, rec) = IF rec.kind = CacheWrite
                             THEN [l EXCEPT !.records = recs, !.cachedCount = cached]
                             ELSE [l EXCEPT !.records = recs, !.renderedCount = rendered]
  BY DEF AppendRecord
<1>3. AppendRecord(l, rec) \in EffectLogType
  <2> HIDE DEF recs, cached, rendered
  <2> QED
    BY <1>1, <1>2 DEF EffectLogType
<1> QED
  BY <1>2, <1>3 DEF EffectLogType

\* A handler's record is a would-do line numbered by NextSeq.
LEMMA RecordedLog ==
    ASSUME NEW l \in EffectLogType, NEW k \in EffectKinds, NEW b \in BOOLEAN
    PROVE  LET new == Record(l, k, b)
               rec == [kind |-> k, seq |-> l.renderedCount + 1, recorded |-> b] IN
           /\ new \in EffectLogType
           /\ new.records = Append(l.records, rec)
           /\ new.truncated = l.truncated
           /\ new.renderedCount = l.renderedCount + 1
<1> DEFINE rec == [kind |-> k, seq |-> l.renderedCount + 1, recorded |-> b]
<1>1. rec \in EffectRecord
  BY DEF EffectLogType, EffectRecord
<1>2. k # CacheWrite
  BY DEF EffectKinds, CacheWrite
<1>3. Record(l, k, b) = AppendRecord(l, rec)
  BY DEF Record, NextSeq
<1> QED
  BY <1>1, <1>2, <1>3, AppendedLog

\* Truncating and claiming leave the records and the first truncation alone.
SameRecords(l, new) ==
    /\ new.records = l.records
    /\ new.renderedCount = l.renderedCount
    /\ l.truncated # NotTruncated => new.truncated = l.truncated

LEMMA MarkedLog ==
    ASSUME NEW l \in EffectLogType
    PROVE  \A new \in {Truncate(l), Claim(l), ClaimAndRender(l)} :
                new \in EffectLogType /\ SameRecords(l, new)
<1>1. /\ Claim(l) \in EffectLogType /\ SameRecords(l, Claim(l))
      /\ ClaimAndRender(l) \in EffectLogType /\ SameRecords(l, ClaimAndRender(l))
  BY DEF Claim, ClaimAndRender, EffectLogType, SameRecords
<1>2. Truncate(l) \in EffectLogType /\ SameRecords(l, Truncate(l))
  <2> DEFINE step == IF l.truncated = NotTruncated THEN NextSeq(l) ELSE l.truncated
  <2>1. step \in Nat
    BY DEF EffectLogType, NextSeq
  <2>2. l.truncated # NotTruncated => step = l.truncated
    OBVIOUS
  <2>3. Truncate(l) = [l EXCEPT !.truncated = step]
    BY DEF Truncate
  <2> HIDE DEF step
  <2> QED
    BY <2>1, <2>2, <2>3 DEF EffectLogType, SameRecords
<1> QED
  BY <1>1, <1>2

LEMMA InitialLog ==
    /\ NewLog \in EffectLogType
    /\ NewLog.records = << >>
    /\ NewLog.renderedCount = 0
    /\ RecordCacheWrite(NewLog) \in EffectLogType
    /\ RecordCacheWrite(NewLog).records =
         <<[kind |-> CacheWrite, seq |-> 1, recorded |-> FALSE]>>
    /\ RecordCacheWrite(NewLog).renderedCount = 0
<1>1. /\ NewLog \in EffectLogType
      /\ NewLog.records = << >>
      /\ NewLog.renderedCount = 0
      /\ NewLog.cachedCount = 0
  BY DEF NewLog, EffectLogType, NotTruncated
<1> DEFINE rec == [kind |-> CacheWrite, seq |-> 1, recorded |-> FALSE]
<1>2. rec \in EffectRecord /\ rec.kind = CacheWrite
  BY DEF EffectRecord
<1>3. RecordCacheWrite(NewLog) = AppendRecord(NewLog, rec)
  BY <1>1 DEF RecordCacheWrite, NextCacheSeq
<1>4. Append(<< >>, rec) = <<rec>>
  OBVIOUS
<1> HIDE DEF rec
<1>5. QED
  BY <1>1, <1>2, <1>3, <1>4, AppendedLog DEF rec

-----------------------------------------------------------------------------
(* Type correctness.                                                       *)

LEMMA ValueTypes ==
    /\ \A t \in Texts : Value("completed", t, 0, FALSE) \in Values
    /\ \A t \in Texts : Value("response", t, 0, FALSE) \in Values
    /\ \A k \in Nat : Value("spawned", "", k, FALSE) \in Values
    /\ \A k \in Nat, b \in BOOLEAN : Carrier(k, b) \in Values
    /\ StaleCarrier \in Values
  BY DEF Value, Values, Carrier, StaleCarrier

LEMMA ResultTypes ==
    /\ \A result \in CompletedResults : result \subseteq Values
    /\ \A m \in Methods : \A result \in ResultsOf(m) : result \subseteq Values
<1>1. \A result \in CompletedResults : result \subseteq Values
  <2> TAKE result \in CompletedResults
  <2>1. PICK t \in Texts : result = {Value("completed", t, 0, FALSE)}
    BY Zenon DEF CompletedResults
  <2>2. Value("completed", t, 0, FALSE) \in Values
    BY ValueTypes
  <2> QED
    BY <2>1, <2>2
<1>2. \A result \in ResponseResults : result \subseteq Values
  <2> TAKE result \in ResponseResults
  <2>1. PICK t \in Texts : result = {Value("response", t, 0, FALSE)}
    BY Zenon DEF ResponseResults
  <2>2. Value("response", t, 0, FALSE) \in Values
    BY ValueTypes
  <2> QED
    BY <2>1, <2>2
<1> QED
  BY <1>1, <1>2 DEF ResultsOf

LEMMA KindTypes == \A m \in Methods : KindOf(m) \in EffectKinds
  BY DEF Methods, KindOf, EffectKinds

\* The types of the three variables an execution may change.
ExecTypeOK ==
    /\ held \subseteq Values
    /\ thrown \in ThrowType
    /\ performed \subseteq PerformedType

LEMMA ThrowTypes == \A k \in ThrowKinds : Threw(k) \in ThrowType
  BY DEF Threw, ThrowType

LEMMA ExecTypes ==
    ASSUME EffectsTypeOK,
           NEW what \in {"observe", "mutation"}, NEW rec \in Nat, NEW operands,
           NEW results, \A result \in results : result \subseteq Values,
           Exec(what, rec, operands, results)
    PROVE  ExecTypeOK'
<1> DEFINE fact == [what |-> what, record |-> rec, after |-> log.renderedCount]
<1>1. fact \in PerformedType
  BY DEF EffectsTypeOK, EffectLogType, PerformedType
<1>2. /\ {"error", "effect-failed", "backstop"} \subseteq ThrowKinds
      /\ ExecTypeOK
  BY DEF ThrowKinds, EffectsTypeOK, ExecTypeOK
<1>3. CASE BackstopHit(operands)
  BY <1>2, <1>3, ThrowTypes DEF Exec, ExecTypeOK
<1>4. CASE ExecFails(what, rec)
  <2>1. performed' \in {performed, performed \cup {fact}} /\ held' = held
    BY <1>4 DEF ExecFails
  <2>2. thrown' \in {Threw("error"), Threw("effect-failed")}
    BY <1>4 DEF ExecFails
  <2> QED
    BY <1>1, <1>2, <2>1, <2>2, ThrowTypes DEF ExecTypeOK
<1>5. CASE ExecSucceeds(what, rec, results)
  <2>1. performed' = performed \cup {fact} /\ thrown' = thrown
    BY <1>5 DEF ExecSucceeds
  <2>2. PICK result \in results : held' = held \cup result
    BY <1>5 DEF ExecSucceeds
  <2> QED
    BY <1>1, <1>2, <2>1, <2>2 DEF ExecTypeOK
<1> QED
  BY <1>3, <1>4, <1>5 DEF Exec

LEMMA ChildUpdated ==
    ASSUME NEW s \in Seq(ChildType), NEW k \in DOMAIN s, NEW c \in ChildType
    PROVE  /\ [s EXCEPT ![k] = c] \in Seq(ChildType)
           /\ s # << >>
  OBVIOUS

\* A step of a child or on one: it rewrites that child, may throw, and touches
\* nothing else.
ChildStep(k) == ChildExits(k) \/ SendSignal(k) \/ Wait(k) \/ Kill(k)

OnlyChild(k) ==
    /\ UNCHANGED <<request, log, mutationRecorded, held, performed, stdout>>
    /\ \E c \in ChildType : children' \in {children, [children EXCEPT ![k] = c]}
    /\ thrown' \in {thrown, Threw("error"), Threw("effect-failed")}

LEMMA ChildSteps ==
    ASSUME EffectsTypeOK, NEW k \in DOMAIN children, ChildStep(k)
    PROVE  OnlyChild(k)
<1> DEFINE old == children[k]
<1>1. old \in ChildType
  BY DEF EffectsTypeOK
<1>2. CASE ChildExits(k)
  <2>1. children' = [children EXCEPT ![k] = [old EXCEPT !.proc = "exited"]]
    BY <1>2 DEF ChildExits
  <2>2. [old EXCEPT !.proc = "exited"] \in ChildType
    BY <1>1 DEF ChildType
  <2> QED
    BY <1>2, <2>1, <2>2 DEF ChildExits, OnlyChild
<1>3. CASE SendSignal(k)
  <2>1. children' \in {children,
                       [children EXCEPT ![k] = [old EXCEPT !.proc = "terminated"]]}
    BY <1>3 DEF SendSignal, SignalChild
  <2>2. [old EXCEPT !.proc = "terminated"] \in ChildType
    BY <1>1 DEF ChildType
  <2>3. thrown' \in {thrown, Threw("error")}
    BY <1>3 DEF SendSignal, SignalChild
  <2> QED
    BY <1>3, <2>1, <2>2, <2>3 DEF SendSignal, OnlyChild
<1>4. CASE Wait(k)
  <2>1. children' = [children EXCEPT ![k] = [old EXCEPT !.waited = TRUE, !.reaped = TRUE]]
    BY <1>4 DEF Wait
  <2>2. [old EXCEPT !.waited = TRUE, !.reaped = TRUE] \in ChildType
    BY <1>1 DEF ChildType
  <2> QED
    BY <1>4, <2>1, <2>2 DEF Wait, OnlyChild
<1>5. CASE Kill(k)
  <2> DEFINE marked == [old EXCEPT !.waited = TRUE]
             gone == [old EXCEPT !.waited = TRUE, !.reaped = TRUE, !.proc = "exited"]
  <2>1. marked \in ChildType /\ gone \in ChildType
    BY <1>1 DEF ChildType
  <2>2. \/ children' = [children EXCEPT ![k] = marked] /\ thrown' = Threw("error")
        \/ children' = [children EXCEPT ![k] = gone] /\ thrown' = thrown
    BY <1>5 DEF Kill
  <2> QED
    BY <1>5, <2>1, <2>2 DEF Kill, OnlyChild
<1> QED
  BY <1>2, <1>3, <1>4, <1>5 DEF ChildStep

\* A step that at most marks the log, throws, or writes a rendered log.
MarkStep == Refuse \/ Recorded \/ RenderLog \/ Extract \/ Catch

OnlyMark ==
    /\ UNCHANGED <<request, mutationRecorded, held, children, performed>>
    /\ log' \in {log, Truncate(log), Claim(log), ClaimAndRender(log)}
    /\ thrown' \in {thrown, Threw("error"), Threw("truncated"), NoThrow}
    /\ stdout' \in {stdout, Append(stdout, LogText(log))}

LEMMA MarkSteps == MarkStep => OnlyMark
<1>1. Refuse => OnlyMark
  BY DEF Refuse, OnlyMark
<1>2. Recorded => OnlyMark
  BY DEF Recorded, OnlyMark
<1>3. RenderLog => OnlyMark
  BY DEF RenderLog, OnlyMark
<1>4. Extract => OnlyMark
  BY DEF Extract, OnlyMark
<1>5. Catch => OnlyMark
  BY DEF Catch, OnlyMark
<1> QED
  BY <1>1, <1>2, <1>3, <1>4, <1>5 DEF MarkStep

\* Every step is of one of four classes.
LEMMA StepClasses ==
    ASSUME EffectsNext
    PROVE  \/ MarkStep
           \/ Observe
           \/ \E m \in Methods : Mutate(m)
           \/ \E k \in DOMAIN children : ChildStep(k)
  BY DEF EffectsNext, HandlerStep, HandleCall, MarkStep, ChildStep

\* What a mutating call may do, by its three halves.
LEMMA MutateHalves ==
    ASSUME NEW m \in Methods, Mutate(m)
    PROVE  /\ request' = request /\ stdout' = stdout
           /\ request.effect = "mutating"
           /\ \/ request.dryRun /\ RecordOnly(m)
              \/ /\ ~request.dryRun
                 /\ \E operands \in Operands(m) : StartChild(operands)
              \/ /\ ~request.dryRun
                 /\ \E operands \in Operands(m) : Perform(m, operands)
<1>1. PICK operands \in Operands(m) :
         /\ Accepted(m, operands)
         /\ ~(m = "run" /\ IsObserve(operands))
         /\ IF Sealed(m) THEN RecordOnly(m)
            ELSE IF m = "spawn" THEN StartChild(operands)
            ELSE Perform(m, operands)
  BY DEF Mutate
<1>2. request.effect = "mutating"
  BY <1>1 DEF Accepted, Authorized
<1> QED
  BY <1>1, <1>2 DEF Mutate, Sealed

LEMMA MarkTypes ==
    ASSUME EffectsTypeOK, MarkStep
    PROVE  EffectsTypeOK'
<1>1. OnlyMark
  BY MarkSteps
<1>2. log' \in EffectLogType
  BY <1>1, MarkedLog DEF OnlyMark, EffectsTypeOK
<1>3. thrown' \in ThrowType
  <2>1. Threw("error") \in ThrowType
        /\ Threw("truncated") \in ThrowType
        /\ NoThrow \in ThrowType
    BY DEF Threw, NoThrow, ThrowKinds, ThrowType
  <2> QED
    BY <1>1, <2>1 DEF OnlyMark, EffectsTypeOK
<1>4. stdout' \in Seq(ItemType)
  <2>1. LogText(log) \in ItemType
    BY DEF LogText, EffectsTypeOK, EffectLogType, ItemType
  <2>2. stdout \in Seq(ItemType)
    BY DEF EffectsTypeOK
  <2>3. stdout' \in {stdout, Append(stdout, LogText(log))}
    BY <1>1 DEF OnlyMark
  <2> QED
    BY <2>1, <2>2, <2>3
<1> QED
  BY <1>1, <1>2, <1>3, <1>4 DEF OnlyMark, EffectsTypeOK

LEMMA ChildTypes ==
    ASSUME EffectsTypeOK, NEW k \in DOMAIN children, ChildStep(k)
    PROVE  EffectsTypeOK'
<1>1. OnlyChild(k)
  BY ChildSteps
<1>2. children' \in Seq(ChildType)
  <2>1. children \in Seq(ChildType)
    BY DEF EffectsTypeOK
  <2>2. PICK c \in ChildType : children' \in {children, [children EXCEPT ![k] = c]}
    BY <1>1 DEF OnlyChild
  <2> QED
    BY <2>1, <2>2, ChildUpdated
<1>3. thrown' \in ThrowType
  <2>1. "error" \in ThrowKinds /\ "effect-failed" \in ThrowKinds
    BY DEF ThrowKinds
  <2> QED
    BY <1>1, <2>1, ThrowTypes DEF OnlyChild, EffectsTypeOK
<1> QED
  BY <1>1, <1>2, <1>3 DEF OnlyChild, EffectsTypeOK

LEMMA ObserveTypes ==
    ASSUME EffectsTypeOK, Observe
    PROVE  EffectsTypeOK'
<1>1. ExecTypeOK'
  <2>1. PICK operands \in Operands("run") :
           IF ObserveIsStale
           THEN held' = held \cup {StaleCarrier} /\ UNCHANGED <<thrown, performed>>
           ELSE Exec("observe", 0, operands, CompletedResults)
    BY DEF Observe
  <2>2. CASE ObserveIsStale
    BY <2>1, <2>2, ValueTypes DEF EffectsTypeOK, ExecTypeOK
  <2>3. CASE ~ObserveIsStale
    BY <2>1, <2>3, ExecTypes, ResultTypes
  <2> QED
    BY <2>2, <2>3
<1> QED
  BY <1>1 DEF Observe, EffectsTypeOK, ExecTypeOK

LEMMA MutateTypes ==
    ASSUME EffectsTypeOK, NEW m \in Methods, Mutate(m)
    PROVE  EffectsTypeOK'
<1>1. /\ log \in EffectLogType /\ Len(log.records) + 1 \in Nat
      /\ log.renderedCount \in Nat /\ Len(children) + 1 \in Nat
  BY DEF EffectsTypeOK, EffectLogType
<1>2. /\ KindOf(m) \in EffectKinds
      /\ "proc_spawn" \in EffectKinds
  BY KindTypes DEF EffectKinds
<1>3. ASSUME RecordOnly(m)
      PROVE  /\ log' \in EffectLogType /\ mutationRecorded' \in BOOLEAN
             /\ children' \in Seq(ChildType) /\ ExecTypeOK'
  <2>1. log' \in EffectLogType
    BY <1>1, <1>2, <1>3, RecordedLog DEF RecordOnly
  <2>2. Carrier(NextSeq(log), HasProjection(m)) \in Values
    <3>1. NextSeq(log) \in Nat /\ HasProjection(m) \in BOOLEAN
      BY <1>1 DEF NextSeq, HasProjection
    <3> QED
      BY <3>1, ValueTypes
  <2> QED
    BY <1>3, <2>1, <2>2 DEF RecordOnly, EffectsTypeOK, ExecTypeOK
<1>4. ASSUME NEW operands \in Operands(m), Perform(m, operands)
      PROVE  /\ log' \in EffectLogType /\ mutationRecorded' \in BOOLEAN
             /\ children' \in Seq(ChildType) /\ ExecTypeOK'
  <2>1. log' \in EffectLogType
    BY <1>1, <1>2, <1>4, RecordedLog DEF Perform
  <2>2. ExecTypeOK'
    BY <1>1, <1>4, ExecTypes, ResultTypes DEF Perform
  <2> QED
    BY <1>4, <2>1, <2>2 DEF Perform, EffectsTypeOK
<1>5. ASSUME NEW operands \in Operands(m), StartChild(operands)
      PROVE  /\ log' \in EffectLogType /\ mutationRecorded' \in BOOLEAN
             /\ children' \in Seq(ChildType) /\ ExecTypeOK'
  <2>1. log' \in EffectLogType /\ mutationRecorded' = mutationRecorded
    BY <1>1, <1>2, <1>5, RecordedLog DEF StartChild
  <2>2. /\ Threw("error") \in ThrowType
        /\ Threw("backstop") \in ThrowType
    BY DEF Threw, ThrowKinds, ThrowType
  <2>3. CASE /\ thrown' \in {Threw("error"), Threw("backstop")}
             /\ UNCHANGED <<held, performed, children>>
    BY <2>1, <2>2, <2>3 DEF EffectsTypeOK, ExecTypeOK
  <2>4. CASE /\ \E foreign \in {FALSE, ForeignChildren} :
                    children' = Append(children,
                        [proc |-> "running", waited |-> FALSE, reaped |-> FALSE,
                         foreign |-> foreign])
             /\ held' = held \cup {Value("spawned", "", Len(children) + 1, FALSE)}
             /\ performed' = performed \cup
                    {[what |-> "mutation", record |-> Len(log.records) + 1,
                      after |-> log.renderedCount]}
             /\ UNCHANGED thrown
    <3>1. children' \in Seq(ChildType)
      <4>1. PICK foreign \in BOOLEAN :
               children' = Append(children,
                   [proc |-> "running", waited |-> FALSE, reaped |-> FALSE,
                    foreign |-> foreign])
        BY <2>4, BoundsAssumption
      <4>2. [proc |-> "running", waited |-> FALSE, reaped |-> FALSE,
             foreign |-> foreign] \in ChildType
        BY DEF ChildType
      <4>3. children \in Seq(ChildType)
        BY DEF EffectsTypeOK
      <4> QED
        BY <4>1, <4>2, <4>3
    <3>2. ExecTypeOK'
      <4>1. Value("spawned", "", Len(children) + 1, FALSE) \in Values
        BY <1>1, ValueTypes
      <4>2. [what |-> "mutation", record |-> Len(log.records) + 1,
             after |-> log.renderedCount] \in PerformedType
        BY <1>1 DEF PerformedType
      <4> QED
        BY <2>4, <4>1, <4>2 DEF EffectsTypeOK, ExecTypeOK
    <3> QED
      BY <2>1, <3>1, <3>2 DEF EffectsTypeOK
  <2> QED
    BY <1>5, <2>3, <2>4 DEF StartChild
<1>6. /\ log' \in EffectLogType /\ mutationRecorded' \in BOOLEAN
      /\ children' \in Seq(ChildType) /\ ExecTypeOK'
  BY <1>3, <1>4, <1>5, MutateHalves
<1> QED
  BY <1>6, MutateHalves DEF EffectsTypeOK, ExecTypeOK

LEMMA HandleStarts == EffectsInit => EffectsTypeOK
<1> SUFFICES ASSUME EffectsInit PROVE EffectsTypeOK
  OBVIOUS
<1>1. log \in EffectLogType
  BY InitialLog DEF EffectsInit
<1>2. thrown \in ThrowType
  BY DEF EffectsInit, NoThrow, ThrowKinds, ThrowType
<1>3. performed \subseteq PerformedType
  <2>1. [what |-> "cache", record |-> 1, after |-> 0] \in PerformedType
    BY DEF PerformedType
  <2> QED
    BY <2>1 DEF EffectsInit
<1>4. /\ request \in Requests /\ mutationRecorded \in BOOLEAN
      /\ held \subseteq Values
  BY DEF EffectsInit
<1>5. children \in Seq(ChildType)
  BY DEF EffectsInit
<1>6. stdout \in Seq(ItemType)
  BY DEF EffectsInit
<1> QED
  BY <1>1, <1>2, <1>3, <1>4, <1>5, <1>6 DEF EffectsTypeOK

\* Every variable keeps its type: the handle never stores a record without a
\* number, or a value of an unknown kind.
THEOREM TypeCorrect == EffectsSpec => []EffectsTypeOK
<1>1. EffectsInit => EffectsTypeOK
  BY HandleStarts
<1>2. EffectsTypeOK /\ [EffectsNext]_handleVars => EffectsTypeOK'
  <2> SUFFICES ASSUME EffectsTypeOK, [EffectsNext]_handleVars PROVE EffectsTypeOK'
    OBVIOUS
  <2>1. CASE EffectsNext
    BY <2>1, StepClasses, MarkTypes, ObserveTypes, MutateTypes, ChildTypes
  <2>2. CASE UNCHANGED handleVars
    BY <2>2 DEF handleVars, EffectsTypeOK
  <2> QED
    BY <2>1, <2>2
<1> QED
  BY <1>1, <1>2, PTL DEF EffectsSpec

-----------------------------------------------------------------------------
(* The seal of a dry run.                                                  *)

\* DryRunSealed says nothing of what the next call may execute.  The step that
\* matters is the observe: it executes in a dry run too, so it must know that
\* no carrier exists yet (a carrier only exists after a recorded mutation) and
\* that nothing has been recorded when it is not stale.
Sealing ==
    /\ \A v \in held : v.type = "carrier" => request.dryRun /\ mutationRecorded
    /\ request.dryRun /\ ~mutationRecorded => log.renderedCount = 0
    /\ DryRunSealed
    /\ FreshObservation
    /\ BackstopUnreachable

LEMMA OfferedValues ==
    ASSUME EffectsTypeOK, NEW v \in Offered
    PROVE  v \in Values /\ (v.type = "carrier" => v \in held)
<1>1. CASE v \in held
  BY <1>1 DEF EffectsTypeOK
<1>2. CASE v \in TextValues
  <2>1. PICK t \in Texts : v = Value("text", t, 0, FALSE)
    BY <1>2 DEF TextValues
  <2> QED
    BY <2>1 DEF Value, Values
<1>3. CASE v = OtherValue
  BY <1>3 DEF OtherValue, Value, Values
<1> QED
  BY <1>1, <1>2, <1>3 DEF Offered

\* Without a carrier in the handler's hands every operand is settled.
LEMMA SettledOperands ==
    ASSUME EffectsTypeOK, NEW m \in Methods, NEW operands \in Operands(m),
           \A v \in held : v.type # "carrier"
    PROVE  ~BackstopHit(operands)
<1> SUFFICES ASSUME NEW i \in DOMAIN operands PROVE Operand(operands[i]) # Unsettled
  BY DEF BackstopHit
<1>1. operands[i] \in Offered
  <2>1. PICK n \in Arity(m) : operands \in [1 .. n -> Offered]
    BY DEF Operands
  <2> QED
    BY <2>1
<1>2. operands[i] \in Values /\ operands[i].type # "carrier"
  BY <1>1, OfferedValues
<1>3. operands[i].text # Unsettled
  BY <1>2, OperandAssumption DEF Values, Unsettled
<1> QED
  BY <1>2, <1>3 DEF Operand, Unsettled, Refused

\* What an execution of settled operands adds, whether it succeeds or fails.
LEMMA SettledExec ==
    ASSUME EffectsTypeOK, NEW what, NEW rec, NEW operands, NEW results,
           ~BackstopHit(operands), Exec(what, rec, operands, results),
           BackstopUnreachable,
           \A result \in results : \A v \in result : v.type # "carrier"
    PROVE  /\ BackstopUnreachable'
           /\ \A v \in held' : v \in held \/ v.type # "carrier"
           /\ performed' \in {performed,
                performed \cup {[what |-> what, record |-> rec,
                                 after |-> log.renderedCount]}}
<1>1. CASE ExecFails(what, rec)
  <2>1. thrown' \in {Threw("error"), Threw("effect-failed")} /\ held' = held
    BY <1>1 DEF ExecFails
  <2>2. BackstopUnreachable'
    BY <2>1 DEF Threw, BackstopUnreachable
  <2>3. performed' \in {performed,
                performed \cup {[what |-> what, record |-> rec,
                                 after |-> log.renderedCount]}}
    BY <1>1 DEF ExecFails
  <2> QED
    BY <2>1, <2>2, <2>3
<1>2. CASE ExecSucceeds(what, rec, results)
  BY <1>2 DEF ExecSucceeds, BackstopUnreachable
<1> QED
  BY <1>1, <1>2 DEF Exec

LEMMA ResultsSettled ==
    /\ \A result \in CompletedResults : \A v \in result : v.type # "carrier"
    /\ \A m \in Methods : \A result \in ResultsOf(m) : \A v \in result :
            v.type # "carrier"
<1>1. \A result \in CompletedResults : \A v \in result : v.type # "carrier"
  <2> TAKE result \in CompletedResults
  <2>1. PICK t \in Texts : result = {Value("completed", t, 0, FALSE)}
    BY Zenon DEF CompletedResults
  <2>2. Value("completed", t, 0, FALSE).type # "carrier"
    BY DEF Value
  <2> QED
    BY <2>1, <2>2
<1>2. \A result \in ResponseResults : \A v \in result : v.type # "carrier"
  <2> TAKE result \in ResponseResults
  <2>1. PICK t \in Texts : result = {Value("response", t, 0, FALSE)}
    BY Zenon DEF ResponseResults
  <2>2. Value("response", t, 0, FALSE).type # "carrier"
    BY DEF Value
  <2> QED
    BY <2>1, <2>2
<1> QED
  BY <1>1, <1>2 DEF ResultsOf

LEMMA SealingObserve ==
    ASSUME EffectsTypeOK, Sealing, Observe
    PROVE  Sealing'
<1> "run" \in Methods
  BY DEF Methods
<1>1. PICK operands \in Operands("run") :
         IF ObserveIsStale
         THEN held' = held \cup {StaleCarrier} /\ UNCHANGED <<thrown, performed>>
         ELSE Exec("observe", 0, operands, CompletedResults)
  BY DEF Observe
<1>2. UNCHANGED <<request, log, mutationRecorded, children>>
  BY DEF Observe
<1>3. CASE ObserveIsStale
  BY <1>1, <1>2, <1>3 DEF ObserveIsStale, Sealing, DryRunSealed, FreshObservation,
                          BackstopUnreachable
<1>4. CASE ~ObserveIsStale
  <2>1. \A v \in held : v.type # "carrier"
    BY <1>4 DEF ObserveIsStale, Sealing
  <2>2. /\ BackstopUnreachable'
        /\ \A v \in held' : v \in held \/ v.type # "carrier"
        /\ performed' \in {performed,
              performed \cup {[what |-> "observe", record |-> 0,
                               after |-> log.renderedCount]}}
    BY <1>1, <1>4, <2>1, SettledOperands, SettledExec, ResultsSettled DEF Sealing
  <2>3. \A v \in held' : v.type # "carrier"
    BY <2>1, <2>2
  <2>4. request.dryRun => log.renderedCount = 0
    BY <1>4 DEF ObserveIsStale, Sealing
  <2>5. FreshObservation' /\ DryRunSealed'
    BY <1>2, <2>2, <2>4 DEF Sealing, FreshObservation, DryRunSealed
  <2> QED
    BY <1>2, <2>2, <2>3, <2>5 DEF Sealing
<1> QED
  BY <1>3, <1>4

LEMMA SealingMutate ==
    ASSUME EffectsTypeOK, Sealing, NEW m \in Methods, Mutate(m)
    PROVE  Sealing'
<1>1. request' = request
  BY MutateHalves
<1>2. CASE request.dryRun /\ RecordOnly(m)
  <2>1. mutationRecorded' /\ UNCHANGED <<children, thrown, performed>>
    BY <1>2 DEF RecordOnly
  <2>2. DryRunSealed' /\ FreshObservation' /\ BackstopUnreachable'
    BY <1>1, <2>1 DEF Sealing, DryRunSealed, FreshObservation, BackstopUnreachable
  <2> QED
    BY <1>1, <1>2, <2>1, <2>2 DEF Sealing
<1>3. ASSUME ~request.dryRun, NEW operands \in Operands(m),
             StartChild(operands) \/ Perform(m, operands)
      PROVE  Sealing'
  <2>1. \A v \in held : v.type # "carrier"
    BY <1>3 DEF Sealing
  <2>2. ~BackstopHit(operands)
    BY <2>1, SettledOperands
  <2>3. BackstopUnreachable' /\ \A v \in held' : v.type # "carrier"
    <3>1. CASE Perform(m, operands)
      <4>1. Exec("mutation", Len(log.records) + 1, operands, ResultsOf(m))
        BY <3>1 DEF Perform
      <4> QED
        BY <2>1, <2>2, <4>1, SettledExec, ResultsSettled DEF Sealing
    <3>2. CASE StartChild(operands)
      <4>1. \/ thrown' = Threw("error") /\ UNCHANGED held
            \/ /\ held' = held \cup {Value("spawned", "", Len(children) + 1, FALSE)}
               /\ UNCHANGED thrown
        BY <2>2, <3>2 DEF StartChild
      <4>2. Value("spawned", "", Len(children) + 1, FALSE).type # "carrier"
        BY DEF Value
      <4>3. BackstopUnreachable'
        <5>1. BackstopUnreachable /\ Threw("error").kind # "backstop"
          BY DEF Sealing, Threw
        <5> QED
          BY <4>1, <5>1 DEF BackstopUnreachable
      <4>4. ASSUME NEW v \in held' PROVE v.type # "carrier"
        BY <2>1, <4>1, <4>2
      <4> QED
        BY <4>3, <4>4
    <3> QED
      BY <1>3, <3>1, <3>2
  <2> QED
    BY <1>1, <1>3, <2>3 DEF Sealing, DryRunSealed, FreshObservation
<1> QED
  BY <1>2, <1>3, MutateHalves

LEMMA SealingOther ==
    ASSUME EffectsTypeOK, Sealing,
           MarkStep \/ \E k \in DOMAIN children : ChildStep(k)
    PROVE  Sealing'
<1>1. CASE MarkStep
  <2>1. OnlyMark
    BY <1>1, MarkSteps
  <2>2. log'.renderedCount = log.renderedCount
    BY <2>1, MarkedLog DEF OnlyMark, EffectsTypeOK, SameRecords
  <2>3. BackstopUnreachable'
    BY <2>1 DEF OnlyMark, Sealing, BackstopUnreachable, Threw, NoThrow
  <2> QED
    BY <2>1, <2>2, <2>3 DEF OnlyMark, Sealing, DryRunSealed, FreshObservation
<1>2. ASSUME NEW k \in DOMAIN children, ChildStep(k)
      PROVE  Sealing'
  <2>1. OnlyChild(k)
    BY <1>2, ChildSteps
  <2>2. ~request.dryRun
    BY <1>2 DEF Sealing, DryRunSealed
  <2>3. BackstopUnreachable'
    BY <2>1 DEF OnlyChild, Sealing, BackstopUnreachable, Threw
  <2> QED
    BY <2>1, <2>2, <2>3 DEF OnlyChild, Sealing, DryRunSealed, FreshObservation
<1> QED
  BY <1>1, <1>2

\* The seal holds in every reachable state.
THEOREM SealingHolds == EffectsSpec => []Sealing
<1>1. EffectsInit => Sealing
  <2> SUFFICES ASSUME EffectsInit PROVE Sealing
    OBVIOUS
  <2>1. log.renderedCount = 0
    BY InitialLog DEF EffectsInit
  <2>2. \A p \in performed : p.what = "cache"
    BY DEF EffectsInit
  <2> QED
    BY <2>1, <2>2 DEF EffectsInit, Sealing, DryRunSealed, FreshObservation,
                      BackstopUnreachable, NoThrow
<1>2. EffectsTypeOK /\ Sealing /\ [EffectsNext]_handleVars => Sealing'
  <2> SUFFICES ASSUME EffectsTypeOK, Sealing, [EffectsNext]_handleVars PROVE Sealing'
    OBVIOUS
  <2>1. CASE EffectsNext
    BY <2>1, StepClasses, SealingOther, SealingObserve, SealingMutate
  <2>2. CASE UNCHANGED handleVars
    BY <2>2 DEF handleVars, Sealing, DryRunSealed, FreshObservation, BackstopUnreachable
  <2> QED
    BY <2>1, <2>2
<1> QED
  BY <1>1, <1>2, TypeCorrect, PTL DEF EffectsSpec

\* A dry run performs no mutation and starts no child, for every handler.
THEOREM DryRunIsSealed == EffectsSpec => []DryRunSealed
<1>1. Sealing => DryRunSealed
  BY DEF Sealing
<1> QED
  BY <1>1, SealingHolds, PTL

\* Whatever a dry run observed, it observed before it recorded a mutation.
THEOREM ObservationsAreFresh == EffectsSpec => []FreshObservation
<1>1. Sealing => FreshObservation
  BY DEF Sealing
<1> QED
  BY <1>1, SealingHolds, PTL

\* The fail-closed backstop of settled() is never reached.
THEOREM BackstopIsUnreachable == EffectsSpec => []BackstopUnreachable
<1>1. Sealing => BackstopUnreachable
  BY DEF Sealing
<1> QED
  BY <1>1, SealingHolds, PTL

-----------------------------------------------------------------------------
(* The numbering of the lines and the ledger.                              *)

\* StepsContiguous, of any log.
Numbered(l) ==
    /\ RenderedSteps(l) = 1 .. l.renderedCount
    /\ \A i, j \in RenderedIndices(l) : i < j => l.records[i].seq < l.records[j].seq

\* A new record leaves the old ones in place and is a line of its own.
LEMMA RecordedIndices ==
    ASSUME NEW l \in EffectLogType, NEW k \in EffectKinds, NEW b \in BOOLEAN
    PROVE  LET new == Record(l, k, b)
               n == Len(l.records) + 1 IN
           /\ Len(l.records) <= Len(new.records)
           /\ \A i \in DOMAIN l.records : i < n /\ new.records[i] = l.records[i]
           /\ new.records[n] = [kind |-> k, seq |-> l.renderedCount + 1, recorded |-> b]
           /\ RenderedIndices(new) = RenderedIndices(l) \cup {n}
<1> DEFINE new == Record(l, k, b)
           rec == [kind |-> k, seq |-> l.renderedCount + 1, recorded |-> b]
           n == Len(l.records) + 1
<1>1. new.records = Append(l.records, rec)
  BY RecordedLog
<1>2. l.records \in Seq(EffectRecord) /\ rec \in EffectRecord
  BY DEF EffectLogType, EffectRecord
<1>3. rec.kind # CacheWrite
  BY DEF EffectKinds, CacheWrite
<1> HIDE DEF rec, new
<1>4. /\ Len(new.records) = n
      /\ DOMAIN new.records = DOMAIN l.records \cup {n}
      /\ \A i \in DOMAIN l.records : i < n /\ new.records[i] = l.records[i]
      /\ new.records[n] = rec
  BY <1>1, <1>2
<1>5. RenderedIndices(new) = RenderedIndices(l) \cup {n}
  BY <1>3, <1>4 DEF RenderedIndices, IsLine
<1> QED
  BY <1>2, <1>4, <1>5 DEF rec, new

LEMMA RecordNumbered ==
    ASSUME NEW l \in EffectLogType, NEW k \in EffectKinds, NEW b \in BOOLEAN,
           Numbered(l)
    PROVE  Numbered(Record(l, k, b))
<1> DEFINE new == Record(l, k, b)
           n == Len(l.records) + 1
           c == l.renderedCount
<1>1. /\ c \in Nat /\ n \in Nat
      /\ new.renderedCount = c + 1
  <2>1. c \in Nat /\ Len(l.records) \in Nat
    BY DEF EffectLogType
  <2>2. new.renderedCount = c + 1
    BY RecordedLog
  <2> QED
    BY <2>1, <2>2
<1>2. /\ \A i \in RenderedIndices(l) : i < n /\ new.records[i] = l.records[i]
      /\ new.records[n].seq = c + 1
      /\ RenderedIndices(new) = RenderedIndices(l) \cup {n}
  <2>1. RenderedIndices(l) \subseteq DOMAIN l.records
    BY DEF RenderedIndices
  <2>2. new.records[n] = [kind |-> k, seq |-> c + 1, recorded |-> b]
    BY RecordedIndices
  <2> QED
    BY <2>1, <2>2, RecordedIndices
<1>3. RenderedSteps(new) = RenderedSteps(l) \cup {c + 1}
  BY <1>2 DEF RenderedSteps
<1>4. \A i \in RenderedIndices(l) : l.records[i].seq \in 1 .. c
  BY DEF Numbered, RenderedSteps
<1>5. RenderedIndices(l) \subseteq Nat
  BY DEF RenderedIndices, EffectLogType
<1> HIDE DEF new, n, c
<1>6. ASSUME NEW i \in RenderedIndices(new), NEW j \in RenderedIndices(new), i < j
      PROVE  new.records[i].seq < new.records[j].seq
  <2>1. CASE j \in RenderedIndices(l)
    <3>1. i \in RenderedIndices(l)
      BY <1>1, <1>2, <1>5, <1>6, <2>1
    <3> QED
      BY <1>2, <1>6, <2>1, <3>1 DEF Numbered
  <2>2. CASE j = n
    <3>1. i \in RenderedIndices(l)
      BY <1>1, <1>2, <1>5, <1>6, <2>2
    <3>2. l.records[i].seq \in Nat /\ l.records[i].seq < c + 1
      BY <1>1, <1>4, <3>1
    <3>3. new.records[i] = l.records[i] /\ new.records[j].seq = c + 1
      BY <1>2, <2>2, <3>1
    <3> QED
      BY <3>2, <3>3
  <2> QED
    BY <1>2, <2>1, <2>2
<1>7. RenderedSteps(new) = 1 .. (c + 1)
  BY <1>1, <1>3 DEF Numbered, c
<1> QED
  BY <1>1, <1>6, <1>7 DEF Numbered, new

\* What a step does to the log: nothing the invariants see, or one record.
OneRecord ==
    \/ log' = log
    \/ SameRecords(log, log')
    \/ \E k \in EffectKinds, b \in BOOLEAN : log' = Record(log, k, b)

LEMMA StepsOfLog ==
    ASSUME EffectsTypeOK, EffectsNext
    PROVE  OneRecord
<1>1. CASE MarkStep
  <2>1. log' \in {log, Truncate(log), Claim(log), ClaimAndRender(log)}
    BY <1>1, MarkSteps DEF OnlyMark
  <2>2. log \in EffectLogType
    BY DEF EffectsTypeOK
  <2> QED
    BY <2>1, <2>2, MarkedLog DEF OneRecord
<1>2. CASE Observe
  BY <1>2 DEF Observe, OneRecord
<1>3. ASSUME NEW m \in Methods, Mutate(m) PROVE OneRecord
  <2>1. KindOf(m) \in EffectKinds /\ "proc_spawn" \in EffectKinds
    BY KindTypes DEF EffectKinds
  <2> QED
    BY <1>3, <2>1, MutateHalves DEF RecordOnly, StartChild, Perform, OneRecord
<1>4. ASSUME NEW k \in DOMAIN children, ChildStep(k) PROVE OneRecord
  BY <1>4, ChildSteps DEF OnlyChild, OneRecord
<1> QED
  BY <1>1, <1>2, <1>3, <1>4, StepClasses

\* The would-do lines are numbered 1, 2, 3 ..., in order, in every mode.
THEOREM LinesAreNumbered == EffectsSpec => []StepsContiguous
<1>1. EffectsInit => StepsContiguous
  <2> SUFFICES ASSUME EffectsInit PROVE StepsContiguous
    OBVIOUS
  <2>1. log.renderedCount = 0
    BY InitialLog DEF EffectsInit
  <2>2. RenderedIndices(log) = {}
    BY InitialLog DEF EffectsInit, RenderedIndices, IsLine
  <2> QED
    BY <2>1, <2>2 DEF StepsContiguous, RenderedSteps
<1>2. EffectsTypeOK /\ StepsContiguous /\ [EffectsNext]_handleVars => StepsContiguous'
  <2> SUFFICES ASSUME EffectsTypeOK, StepsContiguous, [EffectsNext]_handleVars
               PROVE  StepsContiguous'
    OBVIOUS
  <2>1. CASE log' = log
    BY <2>1 DEF StepsContiguous, RenderedSteps, RenderedIndices, IsLine
  <2>2. CASE SameRecords(log, log')
    BY <2>2 DEF SameRecords, StepsContiguous, RenderedSteps, RenderedIndices, IsLine
  <2>3. ASSUME NEW k \in EffectKinds, NEW b \in BOOLEAN, log' = Record(log, k, b)
        PROVE  StepsContiguous'
    <3>1. Numbered(Record(log, k, b))
      BY RecordNumbered DEF EffectsTypeOK, StepsContiguous, Numbered
    <3> QED
      BY <2>3, <3>1 DEF StepsContiguous, Numbered
  <2> QED
    BY <2>1, <2>2, <2>3, StepsOfLog DEF OneRecord, handleVars
<1> QED
  BY <1>1, <1>2, TypeCorrect, PTL DEF EffectsSpec

\* Once a preview is truncated the truncation stands, and no record is dropped
\* or rewritten, whatever the handler catches and calls afterwards.
THEOREM TruncationIsFinal == EffectsSpec => TruncationStands
<1> DEFINE Stands ==
        /\ log.truncated # NotTruncated => log'.truncated = log.truncated
        /\ Len(log.records) <= Len(log'.records)
        /\ \A i \in DOMAIN log.records : log'.records[i] = log.records[i]
<1>1. EffectsTypeOK /\ [EffectsNext]_handleVars => [Stands]_handleVars
  <2> SUFFICES ASSUME EffectsTypeOK, EffectsNext PROVE Stands
    OBVIOUS
  <2> log \in EffectLogType /\ Len(log.records) \in Nat
    BY DEF EffectsTypeOK, EffectLogType
  <2>1. CASE log' = log
    BY <2>1
  <2>2. CASE SameRecords(log, log')
    BY <2>2 DEF SameRecords
  <2>3. ASSUME NEW k \in EffectKinds, NEW b \in BOOLEAN, log' = Record(log, k, b)
        PROVE  Stands
    BY <2>3, RecordedLog, RecordedIndices
  <2> QED
    BY <2>1, <2>2, <2>3, StepsOfLog DEF OneRecord
<1> QED
  BY <1>1, TypeCorrect, PTL DEF EffectsSpec, TruncationStands

Fact(what, rec) == [what |-> what, record |-> rec, after |-> log.renderedCount]

LEMMA ExecPerforms ==
    ASSUME NEW what, NEW rec, NEW operands, NEW results,
           Exec(what, rec, operands, results)
    PROVE  performed' \in {performed, performed \cup {Fact(what, rec)}}
<1>1. CASE BackstopHit(operands)
  BY <1>1 DEF Exec
<1>2. CASE ExecFails(what, rec)
  BY <1>2 DEF ExecFails, Fact
<1>3. CASE ExecSucceeds(what, rec, results)
  BY <1>3 DEF ExecSucceeds, Fact
<1> QED
  BY <1>1, <1>2, <1>3 DEF Exec

\* What a step adds to the effects that happened: nothing; an observe, and no
\* record; or a mutation, with the record appended in front of it.
AddsMutation ==
    /\ request.effect = "mutating"
    /\ \E k \in EffectKinds : log' = Record(log, k, FALSE)
    /\ performed' \in {performed,
                       performed \cup {Fact("mutation", Len(log.records) + 1)}}

LEMMA StepsOfPerformed ==
    ASSUME EffectsTypeOK, EffectsNext
    PROVE  /\ request' = request
           /\ \/ performed' = performed
              \/ log' = log /\ performed' = performed \cup {Fact("observe", 0)}
              \/ AddsMutation
<1>1. CASE MarkStep
  BY <1>1, MarkSteps DEF OnlyMark
<1>2. CASE Observe
  <2>1. PICK operands \in Operands("run") :
           IF ObserveIsStale
           THEN held' = held \cup {StaleCarrier} /\ UNCHANGED <<thrown, performed>>
           ELSE Exec("observe", 0, operands, CompletedResults)
    BY <1>2 DEF Observe
  <2>2. performed' \in {performed, performed \cup {Fact("observe", 0)}}
    BY <2>1, ExecPerforms
  <2> QED
    BY <1>2, <2>2 DEF Observe
<1>3. ASSUME NEW m \in Methods, Mutate(m)
      PROVE  /\ request' = request
             /\ performed' = performed \/ AddsMutation
  <2>1. request.effect = "mutating" /\ request' = request
    BY <1>3, MutateHalves
  <2>2. KindOf(m) \in EffectKinds /\ "proc_spawn" \in EffectKinds
    BY KindTypes DEF EffectKinds
  <2>3. CASE RecordOnly(m)
    BY <2>1, <2>3 DEF RecordOnly
  <2>4. ASSUME NEW operands \in Operands(m), Perform(m, operands)
        PROVE  AddsMutation
    <3>1. Exec("mutation", Len(log.records) + 1, operands, ResultsOf(m))
      BY <2>4 DEF Perform
    <3> QED
      BY <2>1, <2>2, <2>4, <3>1, ExecPerforms DEF Perform, AddsMutation
  <2>5. ASSUME NEW operands \in Operands(m), StartChild(operands)
        PROVE  AddsMutation
    BY <2>1, <2>2, <2>5 DEF StartChild, AddsMutation, Fact
  <2> QED
    BY <1>3, <2>1, <2>3, <2>4, <2>5, MutateHalves
<1>4. ASSUME NEW k \in DOMAIN children, ChildStep(k)
      PROVE  request' = request /\ performed' = performed
  BY <1>4, ChildSteps DEF OnlyChild
<1> QED
  BY <1>1, <1>2, <1>3, <1>4, StepClasses

\* That a log names an effect, by a line numbered as the next one was when the
\* effect was attempted.
Names(l, p) ==
    /\ p.record \in RenderedIndices(l)
    /\ l.records[p.record].seq = p.after + 1
    /\ ~l.records[p.record].recorded

LEMMA StillNamed ==
    ASSUME EffectsTypeOK, OneRecord, NEW p, Names(log, p)
    PROVE  Names(log', p)
<1> log \in EffectLogType
  BY DEF EffectsTypeOK
<1>1. CASE log' = log
  BY <1>1
<1>2. CASE SameRecords(log, log')
  BY <1>2 DEF SameRecords, Names, RenderedIndices, IsLine
<1>3. ASSUME NEW k \in EffectKinds, NEW b \in BOOLEAN, log' = Record(log, k, b)
      PROVE  Names(log', p)
  <2>1. p.record \in DOMAIN log.records
    BY DEF Names, RenderedIndices
  <2>2. /\ log'.records[p.record] = log.records[p.record]
        /\ p.record \in RenderedIndices(log')
    BY <1>3, <2>1, RecordedIndices DEF Names
  <2> QED
    BY <2>2 DEF Names
<1> QED
  BY <1>1, <1>2, <1>3 DEF OneRecord

\* Every mutation that happened is named by a record appended before it was
\* attempted, whatever failed or was thrown afterwards.
THEOREM LedgerIsAhead == EffectsSpec => []LedgerBeforeEffect
<1>1. EffectsInit => LedgerBeforeEffect
  <2> SUFFICES ASSUME EffectsInit PROVE LedgerBeforeEffect
    OBVIOUS
  <2>1. \A p \in performed : p.what = "cache"
    BY DEF EffectsInit
  <2> QED
    BY <2>1 DEF LedgerBeforeEffect
<1>2. EffectsTypeOK /\ LedgerBeforeEffect /\ [EffectsNext]_handleVars
        => LedgerBeforeEffect'
  <2> SUFFICES ASSUME EffectsTypeOK, LedgerBeforeEffect, EffectsNext
               PROVE  LedgerBeforeEffect'
    BY DEF LedgerBeforeEffect, RenderedIndices, IsLine, handleVars
  <2> SUFFICES ASSUME NEW p \in performed', p.what = "mutation"
               PROVE  Names(log', p)
    BY DEF LedgerBeforeEffect, Names
  <2>1. CASE p \in performed
    <3>1. Names(log, p)
      BY <2>1 DEF LedgerBeforeEffect, Names
    <3> QED
      BY <3>1, StillNamed, StepsOfLog
  <2>2. CASE p \notin performed
    <3>1. AddsMutation /\ p = Fact("mutation", Len(log.records) + 1)
      <4>1. p # Fact("observe", 0)
        BY DEF Fact
      <4>2. AddsMutation
        BY <2>2, <4>1, StepsOfPerformed
      <4> QED
        BY <2>2, <4>2 DEF AddsMutation
    <3>2. PICK k \in EffectKinds : log' = Record(log, k, FALSE)
      BY <3>1 DEF AddsMutation
    <3>3. /\ log'.records[Len(log.records) + 1] =
                 [kind |-> k, seq |-> log.renderedCount + 1, recorded |-> FALSE]
          /\ Len(log.records) + 1 \in RenderedIndices(log')
      BY <3>2, RecordedIndices DEF EffectsTypeOK
    <3>4. p.record = Len(log.records) + 1 /\ p.after = log.renderedCount
      BY <3>1 DEF Fact
    <3> QED
      BY <3>3, <3>4 DEF Names
  <2> QED
    BY <2>1, <2>2
<1> QED
  BY <1>1, <1>2, TypeCorrect, PTL DEF EffectsSpec

\* A read_only command neither mutates nor previews anything.
THEOREM ReadOnlyIsHarmless == EffectsSpec => []ReadOnlyHasNoEffect
<1>1. EffectsInit => ReadOnlyHasNoEffect
  <2> SUFFICES ASSUME EffectsInit PROVE ReadOnlyHasNoEffect
    OBVIOUS
  <2>1. \A p \in performed : p.what = "cache"
    BY DEF EffectsInit
  <2>2. RenderedIndices(log) = {}
    BY InitialLog DEF EffectsInit, RenderedIndices, IsLine
  <2> QED
    BY <2>1, <2>2 DEF ReadOnlyHasNoEffect
<1>2. EffectsTypeOK /\ ReadOnlyHasNoEffect /\ [EffectsNext]_handleVars
        => ReadOnlyHasNoEffect'
  <2> SUFFICES ASSUME EffectsTypeOK, ReadOnlyHasNoEffect, EffectsNext
               PROVE  ReadOnlyHasNoEffect'
    BY DEF ReadOnlyHasNoEffect, RenderedIndices, IsLine, handleVars
  <2> SUFFICES ASSUME request.effect = "read_only"
               PROVE  /\ RenderedIndices(log') = {}
                      /\ \A p \in performed' : p.what # "mutation"
    BY StepsOfPerformed DEF ReadOnlyHasNoEffect, RenderedIndices, IsLine
  <2>1. \A p \in performed' : p.what # "mutation"
    BY StepsOfPerformed DEF ReadOnlyHasNoEffect, AddsMutation, Fact
  <2>2. log' = log \/ SameRecords(log, log')
    <3>1. CASE MarkStep
      <4>1. log' \in {log, Truncate(log), Claim(log), ClaimAndRender(log)}
        BY <3>1, MarkSteps DEF OnlyMark
      <4>2. log \in EffectLogType
        BY DEF EffectsTypeOK
      <4> QED
        BY <4>1, <4>2, MarkedLog
    <3>2. CASE \E k \in DOMAIN children : ChildStep(k)
      BY <3>2, ChildSteps DEF OnlyChild
    <3>3. CASE Observe
      BY <3>3 DEF Observe
    <3>4. ~\E m \in Methods : Mutate(m)
      BY MutateHalves
    <3> QED
      BY <3>1, <3>2, <3>3, <3>4, StepClasses
  <2>3. RenderedIndices(log') = RenderedIndices(log)
    BY <2>2 DEF SameRecords, RenderedIndices, IsLine
  <2> QED
    BY <2>1, <2>3 DEF ReadOnlyHasNoEffect
<1> QED
  BY <1>1, <1>2, TypeCorrect, PTL DEF EffectsSpec
=============================================================================
