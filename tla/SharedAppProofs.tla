--------------------------- MODULE SharedAppProofs ---------------------------
(***************************************************************************)
(* Theorems about the dispatches of one app that are nested as the doors   *)
(* are meant to be used (a handler awaits what it starts), for every set   *)
(* of dispatches and every number of effects.                              *)
(*                                                                         *)
(* The argument is a stack nobody keeps: the dispatches in flight can be   *)
(* put in a row in which each was started by the one before it, and what   *)
(* console.log, process.stdout.write and the asynchronous context hold is  *)
(* what the last of the row found or put there.                            *)
(***************************************************************************)
EXTENDS SharedApp, TLAPS

\* s: the dispatches in flight, outermost first; con and wr: the console and
\* the stdout replacement after the first m of them began.
Stack(n, s, con, wr) ==
    /\ \A d \in Dispatches : stage[d] = "running" <=> \E i \in 1..n : s[i] = d
    /\ \A i, j \in 1..n : s[i] = s[j] => i = j
    /\ \A i \in 2..n : parent[s[i]] = s[i - 1]
    /\ con[0] = Process /\ wr[0] = << >> /\ con[n] = console /\ wr[n] = write
    /\ \A i \in 1..n :
        /\ con[i] = IF IsTest(s[i]) THEN s[i] ELSE con[i - 1]
        /\ wr[i] = IF Guarded(s[i]) THEN <<s[i]>> \o wr[i - 1] ELSE wr[i - 1]
        /\ IsTest(s[i]) => savedConsole[s[i]] = con[i - 1]
        /\ Guarded(s[i]) => savedWrite[s[i]] = wr[i - 1]
    /\ \A i \in 1..n : context[s[i]] # Process =>
            \E j \in 1..i : context[s[i]] = s[j] /\ Guarded(s[j])
    /\ \A m \in 0..n : \A i \in 1..m :
        /\ con[m] = Process => ~IsTest(s[i])
        /\ Guarded(s[i]) => \E k \in DOMAIN wr[m] : wr[m][k] = s[i]

Nested ==
    \E n \in Nat :
    \E s \in [1..n -> Dispatches], con \in [0..n -> Holders], wr \in [0..n -> Seq(Dispatches)] :
        Stack(n, s, con, wr)

\* What a dispatch that has not begun, or has, can be relied on for.
Begun ==
    \A d \in Dispatches :
        /\ stage[d] = "idle" => parent[d] = Process /\ ~Nests(d) /\ d \notin leaked
        /\ door[d].dryRun => IsTest(d)
        /\ log[d].truncated # NotTruncated => door[d].dryRun

\* The handler that has started nothing has the log the app holds.
OwnLog ==
    \A d \in Running : ~Nests(d) => current = d

SharedTypeOK ==
    /\ stage \in [Dispatches -> {"idle", "running", "ended"}]
    /\ door \in [Dispatches -> Doors]
    /\ parent \in [Dispatches -> Holders]
    /\ log \in [Dispatches -> EffectLogType]
    /\ current \in Holders
    /\ console \in Holders /\ savedConsole \in [Dispatches -> Holders]
    /\ write \in Seq(Dispatches) /\ savedWrite \in [Dispatches -> Seq(Dispatches)]
    /\ context \in [Dispatches -> Holders]
    /\ counted \in [Dispatches -> BOOLEAN]
    /\ leaked \subseteq Dispatches
    /\ report \in [Dispatches -> [lines : Seq(EffectRecord), failed : BOOLEAN]]

-----------------------------------------------------------------------------
(* The log's operators, as far as they matter here.                        *)

\* A record is appended and a truncation set; neither undoes the other.
LEMMA HandledLog ==
    ASSUME NEW l \in EffectLogType, NEW b \in BOOLEAN
    PROVE  /\ Record(l, "file_write", b) \in EffectLogType
           /\ Record(l, "file_write", b).truncated = l.truncated
           /\ Truncate(l) \in EffectLogType
<1> DEFINE rec == [kind |-> "file_write", seq |-> l.renderedCount + 1, recorded |-> b]
           recs == Append(l.records, rec)
           rendered == l.renderedCount + 1
           step == IF l.truncated = NotTruncated THEN rendered ELSE l.truncated
<1>1. rendered \in Nat /\ rendered # 0 /\ step \in Nat
  BY DEF EffectLogType
<1>2. rec \in EffectRecord
  BY <1>1 DEF EffectRecord, EffectKinds
<1>3. recs \in Seq(EffectRecord)
  BY <1>2 DEF EffectLogType
<1>4. Record(l, "file_write", b) = [l EXCEPT !.records = recs, !.renderedCount = rendered]
  BY DEF Record, AppendRecord, NextSeq, CacheWrite
<1>5. Truncate(l) = [l EXCEPT !.truncated = step]
  BY DEF Truncate, NextSeq
<1> HIDE DEF recs, rendered, step
<1> QED
  BY <1>1, <1>3, <1>4, <1>5 DEF EffectLogType

LEMMA FreshLog == NewLog \in EffectLogType /\ NewLog.truncated = NotTruncated
<1>1. << >> \in Seq(EffectRecord)
  OBVIOUS
<1> QED
  BY <1>1 DEF NewLog, EffectLogType, NotTruncated

-----------------------------------------------------------------------------
(* Type correctness, however the dispatches overlap.                       *)

\* The variables a handler's own doings leave alone.
Frame == <<stage, door, parent, current, console, savedConsole, write,
           savedWrite, context, report>>

\* An effect, a caught extraction, a console.log or a write of the handler.
Acts(d) == Effect(d) \/ ExtractAndCatch(d) \/ ConsoleLog(d) \/ StdoutWrite(d)

\* What a handler does changes its own log, counts a byte at some guard, or
\* lets the bytes of a dispatch out that no guard counts.
LEMMA ActsMay ==
    ASSUME SharedTypeOK, NEW d \in Dispatches, Acts(d)
    PROVE  /\ stage[d] = "running" /\ UNCHANGED Frame
           /\ \/ /\ \E l \in EffectLogType :
                       /\ log' = [log EXCEPT ![d] = l]
                       /\ l.truncated = log[d].truncated \/ door[d].dryRun
                 /\ UNCHANGED <<counted, leaked>>
              \/ /\ \E g \in Dispatches : counted' = [counted EXCEPT ![g] = TRUE]
                 /\ UNCHANGED <<log, leaked>>
              \/ /\ leaked' = leaked \cup {d}
                 /\ console = Process \/ \A i \in DOMAIN write : ~Counts(write[i], d)
                 /\ UNCHANGED <<log, counted>>
<1>0. log[d] \in EffectLogType /\ door[d].dryRun \in BOOLEAN
  BY DEF SharedTypeOK, Doors
<1>1. CASE Effect(d)
  <2> DEFINE l == Record(log[d], "file_write", door[d].dryRun)
  <2>1. l \in EffectLogType /\ l.truncated = log[d].truncated
    BY <1>0, HandledLog
  <2>2. log' = [log EXCEPT ![d] = l]
    BY <1>1 DEF Effect
  <2> HIDE DEF l
  <2> QED
    BY <1>1, <2>1, <2>2 DEF Effect, Frame, Running
<1>2. CASE ExtractAndCatch(d)
  <2> DEFINE l == Truncate(log[d])
  <2>1. l \in EffectLogType
    BY <1>0, HandledLog
  <2>2. log' = [log EXCEPT ![d] = l]
    BY <1>2 DEF ExtractAndCatch
  <2> HIDE DEF l
  <2> QED
    BY <1>2, <2>1, <2>2 DEF ExtractAndCatch, Frame, Running
<1>3. CASE ConsoleLog(d)
  <2>1. context[d] \in Holders
    BY DEF SharedTypeOK
  <2> QED
    BY <1>3, <2>1 DEF ConsoleLog, Frame, Running, Holders
<1>4. CASE StdoutWrite(d)
  <2>1. \A i \in DOMAIN write : write[i] \in Dispatches
    BY DEF SharedTypeOK
  <2> QED
    BY <1>4, <2>1 DEF StdoutWrite, Frame, Running
<1> QED
  BY <1>1, <1>2, <1>3, <1>4 DEF Acts

LEMMA SharedSteps ==
    ASSUME SharedNext
    PROVE  \E d \in Dispatches :
              \/ \E starter \in Holders \ {d}, how \in Doors : Begin(d, starter, how)
              \/ Acts(d)
              \/ End(d)
  BY DEF SharedNext, Acts

\* The exit step reads a log, whichever the app holds.
LEMMA ExitReadsALog ==
    ASSUME SharedTypeOK, NEW d \in Dispatches
    PROVE  LogAtExit(d) \in EffectLogType
  BY FreshLog DEF LogAtExit, SharedTypeOK, Holders

LEMMA SharedTypes ==
    ASSUME SharedTypeOK, [SharedNext]_vars
    PROVE  SharedTypeOK'
<1>1. CASE UNCHANGED vars
  BY <1>1 DEF vars, SharedTypeOK
<1>2. ASSUME NEW d \in Dispatches, NEW starter \in Holders \ {d}, NEW how \in Doors,
             Begin(d, starter, how)
      PROVE  SharedTypeOK'
  <2>1. /\ stage' \in [Dispatches -> {"idle", "running", "ended"}]
        /\ door' \in [Dispatches -> Doors] /\ parent' \in [Dispatches -> Holders]
        /\ log' \in [Dispatches -> EffectLogType] /\ current' \in Holders
    BY <1>2, FreshLog DEF Begin, SharedTypeOK, Armed, Holders
  <2>2. console' \in Holders /\ savedConsole' \in [Dispatches -> Holders]
    BY <1>2 DEF Begin, SharedTypeOK, Holders
  <2>3. write' \in Seq(Dispatches) /\ savedWrite' \in [Dispatches -> Seq(Dispatches)]
    <3> DEFINE w == <<d>> \o write
    <3>1. w \in Seq(Dispatches) /\ write \in Seq(Dispatches)
      BY DEF SharedTypeOK
    <3>2. \/ write' = w /\ savedWrite' = [savedWrite EXCEPT ![d] = write]
          \/ UNCHANGED <<write, savedWrite>>
      BY <1>2 DEF Begin
    <3> HIDE DEF w
    <3> QED
      BY <3>1, <3>2 DEF SharedTypeOK
  <2>4. context' \in [Dispatches -> Holders]
    <3>1. PICK c \in Holders : context' = [context EXCEPT ![d] = c]
      <4>1. ContextOf(starter) \in Holders /\ d \in Holders
        BY DEF ContextOf, SharedTypeOK, Holders
      <4>2. \/ context' = [context EXCEPT ![d] = d]
            \/ context' = [context EXCEPT ![d] = ContextOf(starter)]
        BY <1>2 DEF Begin
      <4> QED
        BY <4>1, <4>2
    <3> QED
      BY <3>1 DEF SharedTypeOK
  <2>5. UNCHANGED <<counted, leaked, report>>
    BY <1>2 DEF Begin
  <2> QED
    BY <2>1, <2>2, <2>3, <2>4, <2>5 DEF SharedTypeOK
<1>3. ASSUME NEW d \in Dispatches, Acts(d)
      PROVE  SharedTypeOK'
  <2>1. UNCHANGED Frame
    BY <1>3, ActsMay
  <2>2. /\ log' = log \/ \E l \in EffectLogType : log' = [log EXCEPT ![d] = l]
        /\ counted' = counted \/ \E g \in Dispatches : counted' = [counted EXCEPT ![g] = TRUE]
        /\ leaked' = leaked \/ leaked' = leaked \cup {d}
    BY <1>3, ActsMay
  <2>3. log' \in [Dispatches -> EffectLogType]
    BY <2>2 DEF SharedTypeOK
  <2>4. counted' \in [Dispatches -> BOOLEAN] /\ leaked' \subseteq Dispatches
    BY <2>2 DEF SharedTypeOK
  <2> QED
    BY <2>1, <2>3, <2>4 DEF SharedTypeOK, Frame
<1>4. ASSUME NEW d \in Dispatches, End(d)
      PROVE  SharedTypeOK'
  <2>1. PICK r \in [lines : Seq(EffectRecord), failed : BOOLEAN] :
            report' = IF IsTest(d) THEN [report EXCEPT ![d] = r] ELSE report
    <3> DEFINE l == LogAtExit(d)
               failed == counted[d] \/ l.truncated # NotTruncated
    <3>1. l.records \in Seq(EffectRecord)
      BY ExitReadsALog DEF EffectLogType
    <3>2. failed \in BOOLEAN
      OBVIOUS
    <3>3. report' = IF IsTest(d) THEN [report EXCEPT ![d] = [lines |-> l.records, failed |-> failed]]
                    ELSE report
      BY <1>4 DEF End
    <3>4. [lines |-> l.records, failed |-> failed]
                \in [lines : Seq(EffectRecord), failed : BOOLEAN]
      <4> HIDE DEF l, failed
      <4> QED
        BY <3>1, <3>2
    <3> HIDE DEF l, failed
    <3> QED
      BY <3>3, <3>4
  <2>2. report' \in [Dispatches -> [lines : Seq(EffectRecord), failed : BOOLEAN]]
    BY <2>1 DEF SharedTypeOK
  <2>3. write' \in Seq(Dispatches) /\ console' \in Holders
    BY <1>4 DEF End, RestoredWrite, RestoredConsole, SharedTypeOK
  <2>4. stage' \in [Dispatches -> {"idle", "running", "ended"}]
    BY <1>4 DEF End, SharedTypeOK
  <2> QED
    BY <1>4, <2>2, <2>3, <2>4 DEF End, SharedTypeOK
<1> QED
  BY <1>1, <1>2, <1>3, <1>4, SharedSteps

LEMMA SharedStarts == SharedInit => SharedTypeOK
<1> SUFFICES ASSUME SharedInit PROVE SharedTypeOK
  OBVIOUS
<1>1. << >> \in Seq(Dispatches) /\ << >> \in Seq(EffectRecord)
  OBVIOUS
<1>2. NoReport \in [lines : Seq(EffectRecord), failed : BOOLEAN]
  BY <1>1 DEF NoReport
<1> QED
  BY <1>1, <1>2, FreshLog DEF SharedInit, SharedTypeOK, Doors, Holders

\* However the dispatches of an app overlap, what they share stays what it is:
\* the app's log is a dispatch's, the console a window's, the stdout
\* replacement a chain of guards.
THEOREM SharedTypeCorrect == SharedSpec => []SharedTypeOK
<1>1. SharedTypeOK /\ [SharedNext]_vars => SharedTypeOK'
  BY SharedTypes
<1> QED
  BY <1>1, SharedStarts, PTL DEF SharedSpec

-----------------------------------------------------------------------------
(* The stack.                                                              *)

\* The variables the stack speaks of.
StackFrame == <<stage, door, parent, console, savedConsole, write, savedWrite, context>>

LEMMA StackStays ==
    ASSUME Nested, UNCHANGED StackFrame
    PROVE  Nested'
<1>1. PICK n \in Nat : \E s \in [1..n -> Dispatches], con \in [0..n -> Holders],
                          wr \in [0..n -> Seq(Dispatches)] : Stack(n, s, con, wr)
  BY DEF Nested
<1>2. PICK s \in [1..n -> Dispatches], con \in [0..n -> Holders],
           wr \in [0..n -> Seq(Dispatches)] : Stack(n, s, con, wr)
  BY <1>1
<1>3. Stack(n, s, con, wr)'
  <2>2. \A i \in 1..n : IsTest(s[i])' = IsTest(s[i]) /\ Guarded(s[i])' = Guarded(s[i])
    BY DEF StackFrame, IsTest, Guarded
  <2>3. \A m \in 0..n : \A i \in 1..m : IsTest(s[i])' = IsTest(s[i]) /\ Guarded(s[i])' = Guarded(s[i])
    BY DEF StackFrame, IsTest, Guarded
  <2>4. \A i \in 1..n : \A j \in 1..i : Guarded(s[j])' = Guarded(s[j])
    BY DEF StackFrame, IsTest, Guarded
  <2> QED
    BY <1>2, <2>2, <2>3, <2>4 DEF Stack, StackFrame, IsTest, Guarded
<1>4. \E t \in [1..n -> Dispatches], cons \in [0..n -> Holders],
         wrs \in [0..n -> Seq(Dispatches)] : Stack(n, t, cons, wrs)'
  BY <1>3
<1> QED
  BY <1>4 DEF Nested

\* Only the innermost dispatch has no running child.
LEMMA Innermost ==
    ASSUME NEW n \in Nat, NEW s \in [1..n -> Dispatches], NEW con, NEW wr,
           Stack(n, s, con, wr)
    PROVE  /\ Running = {} <=> n = 0
           /\ \A d \in Running : ~HasRunningChild(d) => n > 0 /\ d = s[n]
           /\ \A i \in 1..n - 1 : Nests(s[i])
<1>1. Running = {} <=> n = 0
  BY DEF Stack, Running
<1>2. \A i \in 1..n - 1 : s[i + 1] \in Running /\ parent[s[i + 1]] = s[i]
  <2> TAKE i \in 1..n - 1
  <2>1. i + 1 \in 2..n /\ i + 1 \in 1..n /\ (i + 1) - 1 = i
    OBVIOUS
  <2> QED
    BY <2>1 DEF Stack, Running
<1>3. \A d \in Running : ~HasRunningChild(d) => n > 0 /\ d = s[n]
  <2> SUFFICES ASSUME NEW d \in Running, ~HasRunningChild(d) PROVE n > 0 /\ d = s[n]
    OBVIOUS
  <2>1. PICK i \in 1..n : s[i] = d
    BY DEF Stack, Running
  <2>2. i \notin 1..n - 1
    BY <1>2, <2>1 DEF HasRunningChild
  <2> QED
    BY <2>1, <2>2
<1>4. \A i \in 1..n - 1 : Nests(s[i])
  BY <1>2 DEF Nests, Running
<1> QED
  BY <1>1, <1>3, <1>4

\* A dispatch begins on top of the one that starts it.
LEMMA StackGrows ==
    ASSUME SharedTypeOK, Nested, Discipline = "nested",
           NEW d \in Dispatches, NEW starter \in Holders \ {d}, NEW how \in Doors,
           Begin(d, starter, how)
    PROVE  Nested'
<1>1. PICK n \in Nat : \E s \in [1..n -> Dispatches], con \in [0..n -> Holders],
                          wr \in [0..n -> Seq(Dispatches)] : Stack(n, s, con, wr)
  BY DEF Nested
<1>2. PICK s \in [1..n -> Dispatches], con \in [0..n -> Holders],
           wr \in [0..n -> Seq(Dispatches)] : Stack(n, s, con, wr)
  BY <1>1
<1>0. PICK c, w : c = console' /\ w = write'
  OBVIOUS
<1> DEFINE t == [i \in 1..n + 1 |-> IF i = n + 1 THEN d ELSE s[i]]
           cons == [m \in 0..n + 1 |-> IF m = n + 1 THEN c ELSE con[m]]
           wrs == [m \in 0..n + 1 |-> IF m = n + 1 THEN w ELSE wr[m]]
<1>3. /\ \A i \in 1..n : i \in 1..n + 1 /\ i # n + 1
      /\ \A i \in 1..n + 1 : i \in 1..n \/ i = n + 1
      /\ \A m \in 0..n : m \in 0..n + 1 /\ m # n + 1
      /\ \A m \in 0..n + 1 : m \in 0..n \/ m = n + 1
      /\ n + 1 \in 1..n + 1 /\ n + 1 \in 0..n + 1 /\ n \in 0..n /\ (n + 1) - 1 = n
      /\ \A i \in 1..n : i - 1 \in 0..n
  OBVIOUS
<1>4. SharedTypeOK'
  <2>1. SharedNext
    BY DEF SharedNext
  <2> QED
    BY <2>1, SharedTypes
<1>5. /\ t \in [1..n + 1 -> Dispatches]
      /\ cons \in [0..n + 1 -> Holders]
      /\ wrs \in [0..n + 1 -> Seq(Dispatches)]
  BY <1>0, <1>3, <1>4 DEF SharedTypeOK
<1>6. /\ \A i \in 1..n : t[i] = s[i]
      /\ t[n + 1] = d
      /\ \A m \in 0..n : cons[m] = con[m] /\ wrs[m] = wr[m]
      /\ cons[n + 1] = console' /\ wrs[n + 1] = write'
  BY <1>0, <1>3
<1> HIDE DEF t, cons, wrs
<1>7. \A i \in 1..n : s[i] \in Dispatches /\ s[i] # d
  BY <1>2 DEF Stack, Begin
<1>8. /\ starter = Process => n = 0
      /\ starter # Process => n > 0 /\ starter = s[n]
  BY <1>2, Innermost, ProcessAssumption DEF Begin, MayBegin, Running
<1>9. \A i \in 1..n :
        /\ door'[s[i]] = door[s[i]] /\ parent'[s[i]] = parent[s[i]]
        /\ context'[s[i]] = context[s[i]]
        /\ savedConsole'[s[i]] = savedConsole[s[i]]
        /\ savedWrite'[s[i]] = savedWrite[s[i]]
        /\ IsTest(s[i])' = IsTest(s[i]) /\ Guarded(s[i])' = Guarded(s[i])
  BY <1>7 DEF Begin, SharedTypeOK, IsTest, Guarded
<1>10. /\ door'[d] = how /\ parent'[d] = starter
       /\ IsTest(d)' <=> how.how = "test"
       /\ Guarded(d)' <=> how.how = "test" /\ how.json
  BY DEF Begin, SharedTypeOK, IsTest, Guarded
<1>11. \A e \in Dispatches : stage'[e] = "running" <=> \E i \in 1..n + 1 : t[i] = e
  <2> SUFFICES ASSUME NEW e \in Dispatches
               PROVE  stage'[e] = "running" <=> \E i \in 1..n + 1 : t[i] = e
    OBVIOUS
  <2>1. stage'[e] = "running" <=> e = d \/ stage[e] = "running"
    BY DEF Begin, SharedTypeOK
  <2>2. stage[e] = "running" <=> \E i \in 1..n : s[i] = e
    BY <1>2 DEF Stack
  <2> QED
    BY <2>1, <2>2, <1>3, <1>6
<1>12. \A i, j \in 1..n + 1 : t[i] = t[j] => i = j
  <2>1. \A i, j \in 1..n : s[i] = s[j] => i = j
    BY <1>2 DEF Stack
  <2> QED
    BY <2>1, <1>3, <1>6, <1>7
<1>13. \A i \in 2..n + 1 : parent'[t[i]] = t[i - 1]
  <2> SUFFICES ASSUME NEW i \in 2..n + 1 PROVE parent'[t[i]] = t[i - 1]
    OBVIOUS
  <2>1. CASE i = n + 1
    <3>1. n > 0 /\ n \in 1..n /\ i - 1 = n
      BY <2>1
    <3> QED
      BY <3>1, <2>1, <1>6, <1>8, <1>10, ProcessAssumption
  <2>2. CASE i # n + 1
    <3>1. i \in 2..n /\ i \in 1..n /\ i - 1 \in 1..n
      BY <2>2
    <3>2. parent[s[i]] = s[i - 1]
      BY <3>1, <1>2 DEF Stack
    <3> QED
      BY <3>1, <3>2, <1>6, <1>9
  <2> QED
    BY <2>1, <2>2
<1>14. cons[0] = Process /\ wrs[0] = << >> /\ cons[n + 1] = console' /\ wrs[n + 1] = write'
  BY <1>2, <1>6 DEF Stack
<1>15. con[n] = console /\ wr[n] = write
  BY <1>2 DEF Stack
<1>16. \A i \in 1..n + 1 :
        /\ cons[i] = IF IsTest(t[i])' THEN t[i] ELSE cons[i - 1]
        /\ wrs[i] = IF Guarded(t[i])' THEN <<t[i]>> \o wrs[i - 1] ELSE wrs[i - 1]
        /\ IsTest(t[i])' => savedConsole'[t[i]] = cons[i - 1]
        /\ Guarded(t[i])' => savedWrite'[t[i]] = wrs[i - 1]
  <2> SUFFICES ASSUME NEW i \in 1..n + 1
               PROVE  /\ cons[i] = IF IsTest(t[i])' THEN t[i] ELSE cons[i - 1]
                      /\ wrs[i] = IF Guarded(t[i])' THEN <<t[i]>> \o wrs[i - 1] ELSE wrs[i - 1]
                      /\ IsTest(t[i])' => savedConsole'[t[i]] = cons[i - 1]
                      /\ Guarded(t[i])' => savedWrite'[t[i]] = wrs[i - 1]
    OBVIOUS
  <2>1. CASE i = n + 1
    <3>1. t[i] = d /\ cons[i - 1] = console /\ wrs[i - 1] = write
          /\ cons[i] = console' /\ wrs[i] = write'
      BY <2>1, <1>3, <1>6, <1>15
    <3>2. /\ console' = IF how.how = "test" THEN d ELSE console
          /\ how.how = "test" => savedConsole'[d] = console
      BY DEF Begin, SharedTypeOK
    <3>3. /\ write' = IF how.how = "test" /\ how.json THEN <<d>> \o write ELSE write
          /\ how.how = "test" /\ how.json => savedWrite'[d] = write
      BY DEF Begin, SharedTypeOK
    <3>4. IsTest(t[i])' = IsTest(d)' /\ Guarded(t[i])' = Guarded(d)'
      BY <3>1 DEF IsTest, Guarded
    <3> QED
      BY <3>1, <3>2, <3>3, <3>4, <1>10
  <2>2. CASE i # n + 1
    <3>1. i \in 1..n /\ i - 1 \in 0..n /\ i \in 0..n
      BY <2>2
    <3>2. /\ t[i] = s[i] /\ cons[i] = con[i] /\ cons[i - 1] = con[i - 1]
          /\ wrs[i] = wr[i] /\ wrs[i - 1] = wr[i - 1]
      BY <3>1, <1>6
    <3>3. /\ con[i] = IF IsTest(s[i]) THEN s[i] ELSE con[i - 1]
          /\ wr[i] = IF Guarded(s[i]) THEN <<s[i]>> \o wr[i - 1] ELSE wr[i - 1]
          /\ IsTest(s[i]) => savedConsole[s[i]] = con[i - 1]
          /\ Guarded(s[i]) => savedWrite[s[i]] = wr[i - 1]
      BY <3>1, <1>2 DEF Stack
    <3>4. IsTest(t[i])' = IsTest(s[i])' /\ Guarded(t[i])' = Guarded(s[i])'
      BY <3>2 DEF IsTest, Guarded
    <3> QED
      BY <3>1, <3>2, <3>3, <3>4, <1>9
  <2> QED
    BY <2>1, <2>2
<1>17. \A i \in 1..n + 1 : context'[t[i]] # Process =>
          \E j \in 1..i : context'[t[i]] = t[j] /\ Guarded(t[j])'
  <2>1. \A i \in 1..n : context[s[i]] # Process =>
          \E j \in 1..i : context[s[i]] = s[j] /\ Guarded(s[j])
    BY <1>2 DEF Stack
  <2>2. \A i \in 1..n : Guarded(t[i])' = Guarded(s[i])
    BY <1>6, <1>9 DEF Guarded, IsTest
  <2>3. \A i \in 1..n : context'[t[i]] # Process =>
          \E j \in 1..i : context'[t[i]] = t[j] /\ Guarded(t[j])'
    <3> SUFFICES ASSUME NEW i \in 1..n, context'[t[i]] # Process
                 PROVE  \E j \in 1..i : context'[t[i]] = t[j] /\ Guarded(t[j])'
      OBVIOUS
    <3>1. PICK j \in 1..i : context[s[i]] = s[j] /\ Guarded(s[j])
      BY <2>1, <1>6, <1>9
    <3>2. j \in 1..n
      OBVIOUS
    <3> QED
      BY <3>1, <3>2, <2>2, <1>6, <1>9
  <2>4. context'[d] # Process =>
          \E j \in 1..n + 1 : context'[d] = t[j] /\ Guarded(t[j])'
    <3>1. CASE how.how = "test" /\ how.json
      <4>1. context'[d] = d
        BY <3>1 DEF Begin, SharedTypeOK
      <4>2. Guarded(t[n + 1])' = Guarded(d)'
        BY <1>6 DEF Guarded, IsTest
      <4> QED
        BY <4>1, <4>2, <3>1, <1>3, <1>6, <1>10
    <3>2. CASE ~(how.how = "test" /\ how.json)
      <4>1. context'[d] = IF starter = Process THEN Process ELSE context[starter]
        BY <3>2 DEF Begin, SharedTypeOK, ContextOf
      <4>2. CASE starter = Process
        BY <4>1, <4>2
      <4>3. CASE starter # Process
        <5>1. n \in 1..n /\ starter = s[n]
          BY <4>3, <1>8
        <5>2. context'[d] = context[s[n]]
          BY <4>1, <4>3, <5>1
        <5>3. context[s[n]] # Process => \E j \in 1..n : context[s[n]] = s[j] /\ Guarded(s[j])
          BY <2>1, <5>1
        <5> QED
          BY <5>2, <5>3, <2>2, <1>3, <1>6
      <4> QED
        BY <4>2, <4>3
    <3> QED
      BY <3>1, <3>2
  <2> QED
    BY <2>3, <2>4, <1>3, <1>6
<1>18. \A m \in 0..n + 1 : \A i \in 1..m :
        /\ cons[m] = Process => ~IsTest(t[i])'
        /\ Guarded(t[i])' => \E k \in DOMAIN wrs[m] : wrs[m][k] = t[i]
  <2>1. \A m \in 0..n : \A i \in 1..m :
        /\ con[m] = Process => ~IsTest(s[i])
        /\ Guarded(s[i]) => \E k \in DOMAIN wr[m] : wr[m][k] = s[i]
    BY <1>2 DEF Stack
  <2>2. \A i \in 1..n : IsTest(t[i])' = IsTest(s[i]) /\ Guarded(t[i])' = Guarded(s[i])
    BY <1>6, <1>9 DEF Guarded, IsTest
  <2>3. \A m \in 0..n : \A i \in 1..m :
        /\ cons[m] = Process => ~IsTest(t[i])'
        /\ Guarded(t[i])' => \E k \in DOMAIN wrs[m] : wrs[m][k] = t[i]
    <3> TAKE m \in 0..n
    <3> TAKE i \in 1..m
    <3>1. i \in 1..n
      OBVIOUS
    <3> QED
      BY <3>1, <2>1, <2>2, <1>6
  <2>4. \A i \in 1..n + 1 :
        /\ console' = Process => ~IsTest(t[i])'
        /\ Guarded(t[i])' => \E k \in DOMAIN write' : write'[k] = t[i]
    <3> SUFFICES ASSUME NEW i \in 1..n + 1
                 PROVE  /\ console' = Process => ~IsTest(t[i])'
                        /\ Guarded(t[i])' => \E k \in DOMAIN write' : write'[k] = t[i]
      OBVIOUS
    <3>1. /\ console' = IF how.how = "test" THEN d ELSE console
          /\ write' = IF how.how = "test" /\ how.json THEN <<d>> \o write ELSE write
          /\ write \in Seq(Dispatches)
      BY DEF Begin, SharedTypeOK
    <3>2. /\ \A k \in DOMAIN write : \E l \in DOMAIN (<<d>> \o write) :
                (<<d>> \o write)[l] = write[k]
          /\ \E l \in DOMAIN (<<d>> \o write) : (<<d>> \o write)[l] = d
      <4>1. /\ Len(<<d>> \o write) = Len(write) + 1
            /\ (<<d>> \o write)[1] = d
            /\ \A k \in 1..Len(write) : (<<d>> \o write)[k + 1] = write[k]
            /\ DOMAIN (<<d>> \o write) = 1..Len(<<d>> \o write)
            /\ DOMAIN write = 1..Len(write) /\ Len(write) \in Nat
        BY <3>1
      <4>2. 1 \in DOMAIN (<<d>> \o write)
            /\ \A k \in DOMAIN write : k + 1 \in DOMAIN (<<d>> \o write)
        BY <4>1
      <4> QED
        BY <4>1, <4>2
    <3>3. CASE i = n + 1
      <4>1. t[i] = d /\ IsTest(t[i])' = IsTest(d)' /\ Guarded(t[i])' = Guarded(d)'
        BY <3>3, <1>6 DEF IsTest, Guarded
      <4> QED
        BY <4>1, <3>1, <3>2, <1>10, ProcessAssumption
    <3>4. CASE i # n + 1
      <4>1. i \in 1..n /\ n \in 0..n
        BY <3>4
      <4>2. /\ console = Process => ~IsTest(s[i])
            /\ Guarded(s[i]) => \E k \in DOMAIN write : write[k] = s[i]
        BY <4>1, <2>1, <1>15
      <4>3. t[i] = s[i] /\ IsTest(t[i])' = IsTest(s[i]) /\ Guarded(t[i])' = Guarded(s[i])
        BY <4>1, <2>2, <1>6
      <4>4. console' = Process => console = Process
        BY <3>1, ProcessAssumption
      <4>5. \A k \in DOMAIN write : \E l \in DOMAIN write' : write'[l] = write[k]
        BY <3>1, <3>2
      <4> QED
        BY <4>2, <4>3, <4>4, <4>5
    <3> QED
      BY <3>3, <3>4
  <2> QED
    BY <2>3, <2>4, <1>3, <1>14
<1>19. Stack(n + 1, t, cons, wrs)'
  BY <1>11, <1>12, <1>13, <1>14, <1>16, <1>17, <1>18 DEF Stack
<1>20. n + 1 \in Nat
  OBVIOUS
<1>21. \E u \in [1..n + 1 -> Dispatches], cs \in [0..n + 1 -> Holders],
          ws \in [0..n + 1 -> Seq(Dispatches)] : Stack(n + 1, u, cs, ws)'
  BY <1>5, <1>19
<1> QED
  BY <1>20, <1>21 DEF Nested

\* Only the innermost dispatch ends, and leaves what it found.
LEMMA StackShrinks ==
    ASSUME SharedTypeOK, Nested, Discipline = "nested",
           NEW d \in Dispatches, End(d)
    PROVE  Nested'
<1>1. PICK n \in Nat : \E s \in [1..n -> Dispatches], con \in [0..n -> Holders],
                          wr \in [0..n -> Seq(Dispatches)] : Stack(n, s, con, wr)
  BY DEF Nested
<1>2. PICK s \in [1..n -> Dispatches], con \in [0..n -> Holders],
           wr \in [0..n -> Seq(Dispatches)] : Stack(n, s, con, wr)
  BY <1>1
<1>3. n > 0 /\ d = s[n]
  BY <1>2, Innermost DEF End
<1> DEFINE m == n - 1
           t == [i \in 1..m |-> s[i]]
           cons == [k \in 0..m |-> con[k]]
           wrs == [k \in 0..m |-> wr[k]]
<1>4. /\ m \in Nat /\ m + 1 = n /\ m \in 0..m /\ 0 \in 0..m
      /\ \A i \in 1..m : i \in 1..n /\ i - 1 \in 0..m /\ i \in 0..m /\ i # n
      /\ \A i \in 2..m : i \in 2..n /\ i \in 1..m /\ i - 1 \in 1..m
      /\ \A k \in 0..m : k \in 0..n
      /\ \A i \in 1..n : i \in 1..m \/ i = n
      /\ n \in 1..n
  BY <1>3
<1>5. /\ t \in [1..m -> Dispatches]
      /\ cons \in [0..m -> Holders]
      /\ wrs \in [0..m -> Seq(Dispatches)]
  BY <1>4
<1>6. /\ \A i \in 1..m : t[i] = s[i]
      /\ \A k \in 0..m : cons[k] = con[k] /\ wrs[k] = wr[k]
  OBVIOUS
<1> HIDE DEF m, t, cons, wrs
<1>7. \A i, j \in 1..n : s[i] = s[j] => i = j
  BY <1>2 DEF Stack
<1>8. \A e \in Dispatches : stage'[e] = "running" <=> \E i \in 1..m : t[i] = e
  <2> SUFFICES ASSUME NEW e \in Dispatches
               PROVE  stage'[e] = "running" <=> \E i \in 1..m : t[i] = e
    OBVIOUS
  <2>1. stage'[e] = "running" <=> e # d /\ stage[e] = "running"
    BY DEF End, SharedTypeOK
  <2>2. stage[e] = "running" <=> \E i \in 1..n : s[i] = e
    BY <1>2 DEF Stack
  <2>3. (\E i \in 1..m : t[i] = e) <=> \E i \in 1..n : i # n /\ s[i] = e
    BY <1>4, <1>6
  <2>4. \A i \in 1..n : s[i] = d <=> i = n
    BY <1>3, <1>4, <1>7
  <2> QED
    BY <2>1, <2>2, <2>3, <2>4
<1>9. UNCHANGED <<door, parent, context, savedConsole, savedWrite>>
  BY DEF End
<1>10. \A i \in 1..m : t[i] \in Dispatches /\ t[i] = s[i]
                       /\ IsTest(t[i])' = IsTest(s[i]) /\ Guarded(t[i])' = Guarded(s[i])
  BY <1>4, <1>6, <1>9 DEF IsTest, Guarded
<1>11. \A i, j \in 1..m : t[i] = t[j] => i = j
  BY <1>4, <1>6, <1>7
<1>12. \A i \in 2..m : parent'[t[i]] = t[i - 1]
  <2>1. \A i \in 2..n : parent[s[i]] = s[i - 1]
    BY <1>2 DEF Stack
  <2> QED
    BY <2>1, <1>4, <1>6, <1>9
<1>13. \A i \in 1..n :
        /\ con[i] = IF IsTest(s[i]) THEN s[i] ELSE con[i - 1]
        /\ wr[i] = IF Guarded(s[i]) THEN <<s[i]>> \o wr[i - 1] ELSE wr[i - 1]
        /\ IsTest(s[i]) => savedConsole[s[i]] = con[i - 1]
        /\ Guarded(s[i]) => savedWrite[s[i]] = wr[i - 1]
  BY <1>2 DEF Stack
<1>14. cons[0] = Process /\ wrs[0] = << >> /\ cons[m] = console' /\ wrs[m] = write'
  <2>1. con[0] = Process /\ wr[0] = << >> /\ con[n] = console /\ wr[n] = write
    BY <1>2 DEF Stack
  <2>2. n - 1 = m
    BY <1>4
  <2>3. console' = con[m] /\ write' = wr[m]
    BY <2>1, <2>2, <1>3, <1>4, <1>13 DEF End, RestoredConsole, RestoredWrite
  <2> QED
    BY <2>1, <2>3, <1>4, <1>6
<1>15. \A i \in 1..m :
        /\ cons[i] = IF IsTest(t[i])' THEN t[i] ELSE cons[i - 1]
        /\ wrs[i] = IF Guarded(t[i])' THEN <<t[i]>> \o wrs[i - 1] ELSE wrs[i - 1]
        /\ IsTest(t[i])' => savedConsole'[t[i]] = cons[i - 1]
        /\ Guarded(t[i])' => savedWrite'[t[i]] = wrs[i - 1]
  BY <1>4, <1>6, <1>9, <1>10, <1>13
<1>16. \A i \in 1..m : context'[t[i]] # Process =>
            \E j \in 1..i : context'[t[i]] = t[j] /\ Guarded(t[j])'
  <2> SUFFICES ASSUME NEW i \in 1..m, context'[t[i]] # Process
               PROVE  \E j \in 1..i : context'[t[i]] = t[j] /\ Guarded(t[j])'
    OBVIOUS
  <2>1. i \in 1..n /\ context[s[i]] # Process
    BY <1>4, <1>6, <1>9
  <2>2. PICK j \in 1..i : context[s[i]] = s[j] /\ Guarded(s[j])
    BY <2>1, <1>2 DEF Stack
  <2>3. j \in 1..m
    BY <1>4
  <2> QED
    BY <2>2, <2>3, <1>6, <1>9, <1>10
<1>17. \A k \in 0..m : \A i \in 1..k :
            /\ cons[k] = Process => ~IsTest(t[i])'
            /\ Guarded(t[i])' => \E l \in DOMAIN wrs[k] : wrs[k][l] = t[i]
  <2> TAKE k \in 0..m
  <2> TAKE i \in 1..k
  <2>1. k \in 0..n /\ i \in 1..m
    BY <1>4
  <2>2. /\ con[k] = Process => ~IsTest(s[i])
        /\ Guarded(s[i]) => \E l \in DOMAIN wr[k] : wr[k][l] = s[i]
    BY <2>1, <1>2 DEF Stack
  <2> QED
    BY <2>1, <2>2, <1>6, <1>10
<1>18. Stack(m, t, cons, wrs)'
  BY <1>8, <1>11, <1>12, <1>14, <1>15, <1>16, <1>17 DEF Stack, IsTest, Guarded
<1>19. \E u \in [1..m -> Dispatches], cs \in [0..m -> Holders],
          ws \in [0..m -> Seq(Dispatches)] : Stack(m, u, cs, ws)'
  BY <1>5, <1>18
<1> QED
  BY <1>4, <1>19 DEF Nested

LEMMA StackHolds ==
    ASSUME SharedTypeOK, Nested, Discipline = "nested", [SharedNext]_vars
    PROVE  Nested'
<1>1. CASE UNCHANGED vars
  BY <1>1, StackStays DEF vars, StackFrame
<1>2. ASSUME NEW d \in Dispatches, Acts(d)
      PROVE  Nested'
  BY <1>2, ActsMay, StackStays DEF Frame, StackFrame
<1> QED
  BY <1>1, <1>2, StackGrows, StackShrinks, SharedSteps

LEMMA StackStarts == SharedInit => Nested
<1> SUFFICES ASSUME SharedInit PROVE Nested
  OBVIOUS
<1> DEFINE s == [i \in 1..0 |-> Process]
           con == [m \in 0..0 |-> Process]
           wr == [m \in 0..0 |-> << >>]
<1>1. 1..0 = {} /\ 2..0 = {} /\ \A m \in 0..0 : m = 0
  OBVIOUS
<1>2. << >> \in Seq(Dispatches) /\ Process \in Holders
  BY DEF Holders
<1>3. s \in [1..0 -> Dispatches] /\ con \in [0..0 -> Holders] /\ wr \in [0..0 -> Seq(Dispatches)]
  BY <1>1, <1>2
<1>4. con[0] = Process /\ wr[0] = << >>
  OBVIOUS
<1> HIDE DEF s, con, wr
<1>5. Stack(0, s, con, wr)
  BY <1>1, <1>4 DEF Stack, SharedInit
<1>6. \E t \in [1..0 -> Dispatches], cons \in [0..0 -> Holders],
          wrs \in [0..0 -> Seq(Dispatches)] : Stack(0, t, cons, wrs)
  BY <1>3, <1>5
<1> QED
  BY <1>6 DEF Nested

-----------------------------------------------------------------------------
(* What has begun.                                                         *)

LEMMA BegunHolds ==
    ASSUME SharedTypeOK, Begun, [SharedNext]_vars
    PROVE  Begun'
<1>1. CASE UNCHANGED vars
  BY <1>1 DEF vars, Begun, Nests, IsTest
<1>2. ASSUME NEW d \in Dispatches, NEW starter \in Holders \ {d}, NEW how \in Doors,
             Begin(d, starter, how)
      PROVE  Begun'
  <2> SUFFICES ASSUME NEW e \in Dispatches
               PROVE  /\ stage'[e] = "idle" => parent'[e] = Process /\ ~Nests(e)' /\ e \notin leaked'
                      /\ log'[e].truncated # NotTruncated => door'[e].dryRun
                      /\ door'[e].dryRun => IsTest(e)'
    BY DEF Begun
  <2>1. /\ stage[d] = "idle" /\ stage' = [stage EXCEPT ![d] = "running"]
        /\ parent' = [parent EXCEPT ![d] = starter]
        /\ door' = [door EXCEPT ![d] = how] /\ log' = [log EXCEPT ![d] = NewLog]
        /\ leaked' = leaked
        /\ starter = Process \/ stage[starter] = "running"
    BY <1>2 DEF Begin, Running
  <2>2. stage'[e] = "idle" => e # d /\ stage[e] = "idle"
    BY <2>1 DEF SharedTypeOK
  <2>3. stage'[e] = "idle" => ~Nests(e)'
    BY <2>1, <2>2, ProcessAssumption DEF Begun, Nests, SharedTypeOK
  <2>4. stage'[e] = "idle" => parent'[e] = Process /\ e \notin leaked'
    BY <2>1, <2>2 DEF Begun, SharedTypeOK
  <2>5. log'[e].truncated # NotTruncated => e # d /\ log'[e] = log[e] /\ door'[e] = door[e]
    BY <2>1, FreshLog DEF SharedTypeOK
  <2>6. door'[e].dryRun => IsTest(e)'
    <3>1. how.dryRun => how.how = "test"
      BY <1>2 DEF Begin, Doors
    <3>2. door'[e] = IF e = d THEN how ELSE door[e]
      BY <2>1 DEF SharedTypeOK
    <3> QED
      BY <3>1, <3>2 DEF Begun, IsTest
  <2> QED
    BY <2>3, <2>4, <2>5, <2>6 DEF Begun, IsTest
<1>3. ASSUME NEW d \in Dispatches, Acts(d)
      PROVE  Begun'
  <2> SUFFICES ASSUME NEW e \in Dispatches
               PROVE  /\ stage'[e] = "idle" => parent'[e] = Process /\ ~Nests(e)' /\ e \notin leaked'
                      /\ log'[e].truncated # NotTruncated => door'[e].dryRun
                      /\ door'[e].dryRun => IsTest(e)'
    BY DEF Begun
  <2>1. stage[d] = "running" /\ UNCHANGED Frame
    BY <1>3, ActsMay
  <2>2. leaked' = leaked \/ leaked' = leaked \cup {d}
    BY <1>3, ActsMay
  <2>3. \/ log' = log
        \/ \E l \in EffectLogType : /\ log' = [log EXCEPT ![d] = l]
                                    /\ l.truncated = log[d].truncated \/ door[d].dryRun
    BY <1>3, ActsMay
  <2>4. stage'[e] = "idle" => parent'[e] = Process /\ ~Nests(e)' /\ e \notin leaked'
    BY <2>1, <2>2 DEF Frame, Begun, Nests
  <2>5. log'[e].truncated # NotTruncated =>
            log[e].truncated # NotTruncated \/ door[e].dryRun
    BY <2>3 DEF SharedTypeOK
  <2> QED
    BY <2>1, <2>4, <2>5 DEF Frame, Begun, IsTest
<1>4. ASSUME NEW d \in Dispatches, End(d)
      PROVE  Begun'
  <2>1. /\ \A e \in Dispatches : stage'[e] = "idle" => stage[e] = "idle"
        /\ UNCHANGED <<parent, leaked, log, door>>
    BY <1>4 DEF End, SharedTypeOK
  <2> QED
    BY <2>1 DEF Begun, Nests, IsTest
<1> QED
  BY <1>1, <1>2, <1>3, <1>4, SharedSteps

-----------------------------------------------------------------------------
(* Whose log the app holds.                                                *)

LEMMA OwnLogHolds ==
    ASSUME SharedTypeOK, Nested, Begun, OwnLog, Discipline = "nested", [SharedNext]_vars
    PROVE  OwnLog'
<1>1. CASE UNCHANGED vars
  BY <1>1 DEF vars, OwnLog, Nests, Running
<1>2. ASSUME NEW d \in Dispatches, NEW starter \in Holders \ {d}, NEW how \in Doors,
             Begin(d, starter, how)
      PROVE  OwnLog'
  <2> SUFFICES ASSUME NEW e \in Dispatches, stage'[e] = "running", ~Nests(e)'
               PROVE  current' = e
    BY DEF OwnLog, Running
  <2>1. current' = d /\ parent' = [parent EXCEPT ![d] = starter] /\ stage[d] = "idle"
    BY <1>2 DEF Begin, Armed
  <2>2. parent'[d] = starter /\ e # starter
    BY <2>1 DEF SharedTypeOK, Nests
  <2>3. CASE e # d
    <3>1. stage[e] = "running" /\ e \in Running
      BY <1>2, <2>3 DEF Begin, SharedTypeOK, Running
    <3>2. starter # Process /\ starter \in Running /\ ~HasRunningChild(starter)
      BY <1>2, <3>1 DEF Begin, MayBegin
    <3>3. ~HasRunningChild(e)
      <4> SUFFICES ASSUME NEW c \in Running, parent[c] = e PROVE FALSE
        BY DEF HasRunningChild
      <4>1. c # d /\ c \in Dispatches
        BY <2>1 DEF Running
      <4>2. parent'[c] = e
        BY <2>1, <4>1 DEF SharedTypeOK
      <4> QED
        BY <4>1, <4>2 DEF Nests
    <3>4. PICK n \in Nat : \E s \in [1..n -> Dispatches], con \in [0..n -> Holders],
                          wr \in [0..n -> Seq(Dispatches)] : Stack(n, s, con, wr)
      BY DEF Nested
    <3>5. PICK s \in [1..n -> Dispatches] : \E con, wr : Stack(n, s, con, wr)
      BY <3>4
    <3>6. e = s[n] /\ starter = s[n]
      BY <3>1, <3>2, <3>3, <3>5, Innermost
    <3> QED
      BY <3>6, <2>2
  <2> QED
    BY <2>1, <2>3
<1>3. ASSUME NEW d \in Dispatches, Acts(d)
      PROVE  OwnLog'
  <2>1. UNCHANGED Frame
    BY <1>3, ActsMay
  <2> QED
    BY <2>1 DEF Frame, OwnLog, Nests, Running
<1>4. ASSUME NEW d \in Dispatches, End(d)
      PROVE  OwnLog'
  <2>1. /\ \A e \in Dispatches : stage'[e] = "running" => stage[e] = "running"
        /\ UNCHANGED <<parent, current>>
    BY <1>4 DEF End, SharedTypeOK
  <2> QED
    BY <2>1 DEF OwnLog, Nests, Running
<1> QED
  BY <1>1, <1>2, <1>3, <1>4, SharedSteps

-----------------------------------------------------------------------------
(* The properties.                                                         *)

\* What an exit step reads is what its own handler appended.
Reports == PreviewIsOwn /\ SwallowFailsClosed

\* Whoever has ended stays so, with its log and what it reported.
EndedStays(d) ==
    /\ stage'[d] = "ended" => stage[d] = "ended"
    /\ Nests(d) => Nests(d)'
    /\ UNCHANGED <<log[d], report[d], door[d]>>

LEMMA ReportsStand ==
    ASSUME Reports, NEW d \in Dispatches, EndedStays(d)
    PROVE  /\ (stage[d] = "ended" /\ IsTest(d) /\ ~Nests(d) => report[d].lines = log[d].records)'
           /\ (Nests(d) \/ FailsClosed(d))'
  BY DEF Reports, PreviewIsOwn, SwallowFailsClosed, FailsClosed, EndedStays, IsTest

LEMMA ReportsHold ==
    ASSUME SharedTypeOK, Nested, Begun, OwnLog, Reports,
           Discipline = "nested", [SharedNext]_vars
    PROVE  Reports'
<1> SUFFICES ASSUME NEW e \in Dispatches
             PROVE  /\ (stage[e] = "ended" /\ IsTest(e) /\ ~Nests(e) =>
                            report[e].lines = log[e].records)'
                    /\ (Nests(e) \/ FailsClosed(e))'
  BY DEF Reports, PreviewIsOwn, SwallowFailsClosed
<1>1. CASE UNCHANGED vars
  BY <1>1, ReportsStand DEF vars, EndedStays, Nests
<1>2. ASSUME NEW d \in Dispatches, NEW starter \in Holders \ {d}, NEW how \in Doors,
             Begin(d, starter, how)
      PROVE  /\ (stage[e] = "ended" /\ IsTest(e) /\ ~Nests(e) =>
                            report[e].lines = log[e].records)'
             /\ (Nests(e) \/ FailsClosed(e))'
  <2>1. /\ stage[d] = "idle" /\ stage' = [stage EXCEPT ![d] = "running"]
        /\ parent' = [parent EXCEPT ![d] = starter]
        /\ door' = [door EXCEPT ![d] = how] /\ log' = [log EXCEPT ![d] = NewLog]
        /\ report' = report
    BY <1>2 DEF Begin
  <2>2. CASE e = d
    <3>1. stage'[e] = "running"
      BY <2>1, <2>2 DEF SharedTypeOK
    <3> QED
      BY <3>1 DEF FailsClosed
  <2>3. CASE e # d
    <3>1. Nests(e) => Nests(e)'
      <4> SUFFICES ASSUME NEW c \in Dispatches, parent[c] = e PROVE Nests(e)'
        BY DEF Nests
      <4>1. c # d
        BY <2>1, ProcessAssumption DEF Begun
      <4>2. parent'[c] = e
        BY <2>1, <4>1 DEF SharedTypeOK
      <4> QED
        BY <4>2 DEF Nests
    <3>2. EndedStays(e)
      BY <2>1, <2>3, <3>1 DEF EndedStays, SharedTypeOK
    <3> QED
      BY <3>2, ReportsStand
  <2> QED
    BY <2>2, <2>3
<1>3. ASSUME NEW d \in Dispatches, Acts(d)
      PROVE  /\ (stage[e] = "ended" /\ IsTest(e) /\ ~Nests(e) =>
                            report[e].lines = log[e].records)'
             /\ (Nests(e) \/ FailsClosed(e))'
  <2>1. stage[d] = "running" /\ UNCHANGED Frame
    BY <1>3, ActsMay
  <2>2. CASE e = d
    BY <2>1, <2>2 DEF Frame, FailsClosed
  <2>3. CASE e # d
    <3>1. log' = log \/ \E l \in EffectLogType : log' = [log EXCEPT ![d] = l]
      BY <1>3, ActsMay
    <3>2. log'[e] = log[e]
      BY <2>3, <3>1 DEF SharedTypeOK
    <3>3. EndedStays(e)
      BY <2>1, <3>2 DEF Frame, EndedStays, Nests
    <3> QED
      BY <3>3, ReportsStand
  <2> QED
    BY <2>2, <2>3
<1>4. ASSUME NEW d \in Dispatches, End(d)
      PROVE  /\ (stage[e] = "ended" /\ IsTest(e) /\ ~Nests(e) =>
                            report[e].lines = log[e].records)'
             /\ (Nests(e) \/ FailsClosed(e))'
  <2>1. /\ stage' = [stage EXCEPT ![d] = "ended"]
        /\ UNCHANGED <<parent, log, door>>
        /\ d \in Running
    BY <1>4 DEF End
  <2>2. CASE e # d
    <3>1. report'[e] = report[e]
      BY <1>4, <2>2 DEF End, SharedTypeOK
    <3>2. EndedStays(e)
      BY <2>1, <2>2, <3>1 DEF EndedStays, Nests, SharedTypeOK
    <3> QED
      BY <3>2, ReportsStand
  <2>3. CASE e = d /\ Nests(d)
    BY <2>1, <2>3 DEF Nests
  <2>4. CASE e = d /\ ~Nests(d)
    <3>1. LogAtExit(d) = log[d]
      BY <2>1, <2>4, ProcessAssumption DEF OwnLog, LogAtExit
    <3>2. IsTest(d) => /\ report'[d].lines = log[d].records
                       /\ report'[d].failed = (counted[d] \/ log[d].truncated # NotTruncated)
      BY <1>4, <3>1 DEF End, SharedTypeOK
    <3>3. log[d].truncated # NotTruncated => IsTest(d)
      BY DEF Begun
    <3>4. log'[d] = log[d] /\ IsTest(d)' = IsTest(d)
      BY <2>1 DEF IsTest
    <3> QED
      BY <2>4, <3>2, <3>3, <3>4 DEF FailsClosed
  <2> QED
    BY <2>2, <2>3, <2>4
<1> QED
  BY <1>1, <1>2, <1>3, <1>4, SharedSteps

\* A dispatch whose bytes a guard should count never lets one out.
LEMMA CountedHolds ==
    ASSUME SharedTypeOK, Nested, Begun, GuardedBytesCounted,
           Discipline = "nested", [SharedNext]_vars
    PROVE  GuardedBytesCounted'
<1>1. CASE UNCHANGED vars
  BY <1>1 DEF vars, GuardedBytesCounted
<1>2. ASSUME NEW d \in Dispatches, NEW starter \in Holders \ {d}, NEW how \in Doors,
             Begin(d, starter, how)
      PROVE  GuardedBytesCounted'
  <2>1. stage[d] = "idle" /\ leaked' = leaked /\ \A e \in Dispatches : e # d => context'[e] = context[e]
    BY <1>2 DEF Begin, SharedTypeOK
  <2>2. d \notin leaked
    BY <2>1 DEF Begun
  <2> QED
    BY <2>1, <2>2 DEF GuardedBytesCounted, SharedTypeOK
<1>3. ASSUME NEW d \in Dispatches, Acts(d)
      PROVE  GuardedBytesCounted'
  <2>1. stage[d] = "running" /\ context' = context
    BY <1>3, ActsMay DEF Frame
  <2>2. \/ leaked' = leaked
        \/ /\ leaked' = leaked \cup {d}
           /\ console = Process \/ \A i \in DOMAIN write : ~Counts(write[i], d)
    BY <1>3, ActsMay
  <2>3. CASE console = Process \/ \A i \in DOMAIN write : ~Counts(write[i], d)
    <3>1. PICK n \in Nat : \E s \in [1..n -> Dispatches], con \in [0..n -> Holders],
                          wr \in [0..n -> Seq(Dispatches)] : Stack(n, s, con, wr)
      BY DEF Nested
    <3>2. PICK s \in [1..n -> Dispatches], con \in [0..n -> Holders],
               wr \in [0..n -> Seq(Dispatches)] : Stack(n, s, con, wr)
      BY <3>1
    <3>3. PICK i \in 1..n : s[i] = d
      BY <2>1, <3>2 DEF Stack
    <3> SUFFICES ASSUME context[d] # Process PROVE FALSE
      BY <2>1, <2>2 DEF GuardedBytesCounted
    <3>4. PICK j \in 1..i : context[d] = s[j] /\ Guarded(s[j])
      BY <3>2, <3>3 DEF Stack
    <3>5. j \in 1..n /\ n \in 0..n
      OBVIOUS
    <3>6. stage[s[j]] = "running"
      BY <3>2, <3>5 DEF Stack
    <3>7. /\ con[n] = Process => ~IsTest(s[j])
          /\ \E k \in DOMAIN wr[n] : wr[n][k] = s[j]
      <4>1. \A m \in 0..n : \A l \in 1..m :
                /\ con[m] = Process => ~IsTest(s[l])
                /\ Guarded(s[l]) => \E k \in DOMAIN wr[m] : wr[m][k] = s[l]
        BY <3>2 DEF Stack
      <4> QED
        BY <4>1, <3>4, <3>5
    <3>8. con[n] = console /\ wr[n] = write
      BY <3>2 DEF Stack
    <3> QED
      BY <2>3, <3>4, <3>6, <3>7, <3>8 DEF Counts, Guarded
  <2> QED
    BY <2>1, <2>2, <2>3 DEF GuardedBytesCounted
<1>4. ASSUME NEW d \in Dispatches, End(d)
      PROVE  GuardedBytesCounted'
  BY <1>4 DEF End, GuardedBytesCounted
<1> QED
  BY <1>1, <1>2, <1>3, <1>4, SharedSteps

-----------------------------------------------------------------------------
SharedInv ==
    /\ SharedTypeOK /\ Nested /\ Begun /\ OwnLog /\ Reports /\ GuardedBytesCounted

LEMMA SharedInvStarts == SharedInit => SharedInv
<1> SUFFICES ASSUME SharedInit PROVE SharedInv
  OBVIOUS
<1>1. SharedTypeOK /\ Nested
  BY SharedStarts, StackStarts
<1>2. Begun /\ OwnLog /\ Reports /\ GuardedBytesCounted
  BY FreshLog, ProcessAssumption
     DEF SharedInit, Begun, OwnLog, Reports, PreviewIsOwn, SwallowFailsClosed, FailsClosed,
         GuardedBytesCounted, Nests, Running
<1> QED
  BY <1>1, <1>2 DEF SharedInv

\* Dispatches of one app that are nested keep a stack, each with its own log.
THEOREM SharedInvHolds ==
    ASSUME Discipline = "nested"
    PROVE  SharedSpec => []SharedInv
<1>1. SharedInv /\ [SharedNext]_vars => SharedInv'
  BY SharedTypes, StackHolds, BegunHolds, OwnLogHolds, ReportsHold, CountedHolds DEF SharedInv
<1> QED
  BY <1>1, SharedInvStarts, PTL DEF SharedSpec

\* The envelope of a dispatch that awaited no other lists its own effects
\* (app.ts, the effect log state that beginDispatch() replaces).
THEOREM PreviewsAreOwn ==
    ASSUME Discipline = "nested"
    PROVE  SharedSpec => []PreviewIsOwn
<1>1. SharedInv => PreviewIsOwn
  BY DEF SharedInv, Reports
<1> QED
  BY <1>1, SharedInvHolds, PTL

\* A dry run that swallowed its truncation fails, unless its handler has
\* awaited another dispatch of its app.
THEOREM SwallowsFail ==
    ASSUME Discipline = "nested"
    PROVE  SharedSpec => []SwallowFailsClosed
<1>1. SharedInv => SwallowFailsClosed
  BY DEF SharedInv, Reports
<1> QED
  BY <1>1, SharedInvHolds, PTL

\* With no dispatch in flight the console and process.stdout.write are the
\* process's own.
THEOREM WindowsAreRestored ==
    ASSUME Discipline = "nested"
    PROVE  SharedSpec => []WindowsRestored
<1>1. SharedInv => WindowsRestored
  <2> SUFFICES ASSUME Nested, Running = {} PROVE console = Process /\ write = << >>
    BY DEF SharedInv, WindowsRestored
  <2>1. PICK n \in Nat : \E s \in [1..n -> Dispatches], con \in [0..n -> Holders],
                          wr \in [0..n -> Seq(Dispatches)] : Stack(n, s, con, wr)
    BY DEF Nested
  <2>2. PICK s \in [1..n -> Dispatches], con \in [0..n -> Holders],
             wr \in [0..n -> Seq(Dispatches)] : Stack(n, s, con, wr)
    BY <2>1
  <2>3. n = 0
    BY <2>2, Innermost
  <2> QED
    BY <2>2, <2>3 DEF Stack
<1> QED
  BY <1>1, SharedInvHolds, PTL

\* No byte a machine-mode handler writes past the framework reaches the real
\* stdout, however deep the dispatches are nested.
THEOREM GuardsCountAll ==
    ASSUME Discipline = "nested"
    PROVE  SharedSpec => []GuardedBytesCounted
<1>1. SharedInv => GuardedBytesCounted
  BY DEF SharedInv
<1> QED
  BY <1>1, SharedInvHolds, PTL
=============================================================================
