----------------------------- MODULE McpProofs -----------------------------
(***************************************************************************)
(* Theorems about the MCP server's confirmations, for every set of lines,  *)
(* commands, principals and every time to live.                            *)
(*                                                                         *)
(* The argument is about what a step may do to the continuation store:     *)
(* nothing, let time pass, mint, or present a blob the store has issued.   *)
(* A presented blob is afterwards remembered or expired, and stays so.     *)
(***************************************************************************)
EXTENDS Mcp, SequenceTheorems, TLAPS

-----------------------------------------------------------------------------
(* The continuation store.                                                 *)

\* What a step may do to the store.
StoreStep ==
    \/ UNCHANGED <<minted, consumed, accepted>> /\ now' \in {now, now + 1}
    \/ /\ \E p \in Principals, c \in Call : Mint(p, c)
       /\ UNCHANGED <<consumed, accepted, now>>
    \/ \E b \in DOMAIN minted, p \in Principals, c \in Call :
          /\ Present(b, p, c)
          /\ UNCHANGED minted \/ Mint(p, c)
          /\ UNCHANGED now

\* The payloads issued stay as they are, and time does not run back.
Grows ==
    /\ minted' \in Seq(Payload)
    /\ DOMAIN minted \subseteq DOMAIN minted'
    /\ \A b \in DOMAIN minted : minted'[b] = minted[b]
    /\ now' \in Nat /\ now <= now'

LEMMA MintedPayload ==
    ASSUME ContinuationTypeOK, NEW p \in Principals, NEW c \in Call, Mint(p, c)
    PROVE  /\ minted' \in Seq(Payload)
           /\ DOMAIN minted' = DOMAIN minted \cup {Len(minted) + 1}
           /\ Len(minted) + 1 \notin DOMAIN minted
           /\ \A b \in DOMAIN minted : minted'[b] = minted[b]
           /\ minted'[Len(minted) + 1].principal = p
           /\ minted'[Len(minted) + 1].call = c
<1> DEFINE new == [principal |-> p, call |-> c, expiry |-> now + TTL]
<1>1. new \in Payload
  BY TTLAssumption DEF Payload, ContinuationTypeOK
<1>2. minted' = Append(minted, new) /\ minted \in Seq(Payload)
  BY DEF Mint, ContinuationTypeOK
<1>3. new.principal = p /\ new.call = c
  OBVIOUS
<1> HIDE DEF new
<1> QED
  BY <1>1, <1>2, <1>3

LEMMA StoreGrows ==
    ASSUME ContinuationTypeOK, StoreStep
    PROVE  Grows
<1>1. CASE UNCHANGED minted
  <2>1. now' \in Nat /\ now <= now'
    BY DEF StoreStep, ContinuationTypeOK
  <2> QED
    BY <1>1, <2>1 DEF Grows, ContinuationTypeOK
<1>2. CASE \E p \in Principals, c \in Call : Mint(p, c)
  <2>1. now' \in Nat /\ now <= now'
    BY DEF StoreStep, ContinuationTypeOK
  <2> QED
    BY <1>2, <2>1, MintedPayload DEF Grows
<1> QED
  BY <1>1, <1>2 DEF StoreStep

\* An expired blob stays expired.
LEMMA ExpiryStands ==
    ASSUME ContinuationTypeOK, Grows, NEW b \in DOMAIN minted, Expired(b)
    PROVE  Expired(b)'
<1>1. minted[b] \in Payload /\ minted'[b] = minted[b]
  BY DEF Grows, ContinuationTypeOK
<1> QED
  BY <1>1 DEF Expired, Grows, ContinuationTypeOK, Payload

\* A blob that is spent, or past its time, cannot pass.
Dead(b) == b \in consumed \/ Expired(b)

LEMMA DeadFails ==
    ASSUME NEW b, NEW p, NEW c, Dead(b)
    PROVE  ~Verifies(b, p, c)
BY DEF Dead, Verifies, Remembered

LEMMA DeadStaysDead ==
    ASSUME ContinuationTypeOK, StoreStep, NEW b \in DOMAIN minted, Dead(b)
    PROVE  Dead(b)'
<1>1. Grows
  BY StoreGrows
<1>2. CASE Expired(b)
  BY <1>1, <1>2, ExpiryStands DEF Dead
<1>3. CASE b \in consumed /\ ~Expired(b)
  <2>1. b \in Remembered
    BY <1>3 DEF Remembered
  <2>2. consumed' = consumed \/ Remembered \subseteq consumed'
    BY DEF StoreStep, Present
  <2> QED
    BY <1>3, <2>1, <2>2 DEF Dead
<1> QED
  BY <1>2, <1>3 DEF Dead

\* After its presentation a matching blob is dead, whether it passed or not.
LEMMA PresentedIsDead ==
    ASSUME ContinuationTypeOK, StoreStep, NEW b \in DOMAIN minted,
           NEW p, NEW c, Matches(b, p, c), Present(b, p, c)
    PROVE  Dead(b)'
<1>1. CASE Verifies(b, p, c)
  BY <1>1 DEF Present, Dead
<1>2. CASE ~Verifies(b, p, c)
  BY <1>2, DeadStaysDead DEF Verifies, Dead, Remembered
<1> QED
  BY <1>1, <1>2

LEMMA StoreTyped ==
    ASSUME ContinuationTypeOK, StoreStep
    PROVE  ContinuationTypeOK'
<1>1. Grows
  BY StoreGrows
<1>2. CASE UNCHANGED <<consumed, accepted>>
  BY <1>1, <1>2 DEF Grows, ContinuationTypeOK
<1>3. ASSUME NEW b \in DOMAIN minted, NEW p \in Principals, NEW c \in Call, Present(b, p, c)
      PROVE  ContinuationTypeOK'
  <2> DEFINE new == [blob |-> b, principal |-> p, call |-> c, moment |-> now]
  <2>1. new \in Acceptance
    BY DEF Acceptance, ContinuationTypeOK
  <2>2. accepted' \in {accepted, Append(accepted, new)}
    BY <1>3 DEF Present
  <2>3. accepted' \in Seq(Acceptance)
    <3> HIDE DEF new
    <3> QED
      BY <2>1, <2>2 DEF ContinuationTypeOK
  <2>4. consumed' \subseteq consumed \cup {b}
    BY <1>3 DEF Present, Remembered
  <2> QED
    BY <1>1, <2>3, <2>4 DEF Grows, ContinuationTypeOK
<1> QED
  BY <1>2, <1>3 DEF StoreStep

\* What makes single use inductive although the store forgets: a blob that has
\* passed is remembered until it has expired.
Spent ==
    \A i \in DOMAIN accepted : accepted[i].blob \in DOMAIN minted /\ Dead(accepted[i].blob)

LEMMA SpentOnce ==
    ASSUME ContinuationTypeOK, StoreStep, Spent, SingleUse
    PROVE  Spent' /\ SingleUse'
<1>1. Grows
  BY StoreGrows
<1>2. ASSUME NEW b, NEW i \in DOMAIN accepted, accepted[i].blob = b
      PROVE  b \in DOMAIN minted' /\ Dead(b)'
  <2>1. b \in DOMAIN minted /\ Dead(b)
    BY <1>2 DEF Spent
  <2> QED
    BY <1>1, <2>1, DeadStaysDead DEF Grows
<1>3. CASE UNCHANGED accepted
  <2>1. ASSUME NEW i \in DOMAIN accepted'
        PROVE  (accepted[i].blob \in DOMAIN minted /\ Dead(accepted[i].blob))'
    <3>1. PICK b : b = accepted[i].blob /\ b = accepted'[i].blob /\ i \in DOMAIN accepted
      BY <1>3
    <3>2. b \in DOMAIN minted' /\ Dead(b)'
      BY <1>2, <3>1
    <3> QED
      BY <3>1, <3>2 DEF Dead, Expired
  <2> QED
    BY <1>3, <2>1 DEF Spent, SingleUse
<1>4. ASSUME NEW b \in DOMAIN minted, NEW p \in Principals, NEW c \in Call,
             Present(b, p, c), Verifies(b, p, c)
      PROVE  Spent' /\ SingleUse'
  <2> DEFINE new == [blob |-> b, principal |-> p, call |-> c, moment |-> now]
  <2>1. accepted' = Append(accepted, new) /\ new.blob = b /\ new \in Acceptance
    BY <1>4 DEF Present, Acceptance, ContinuationTypeOK
  <2>2. b \in DOMAIN minted' /\ Dead(b)'
    BY <1>1, <1>4, PresentedIsDead DEF Grows, Verifies
  <2>3. \A i \in DOMAIN accepted : accepted[i].blob # b
    BY <1>4, DeadFails DEF Spent
  <2> HIDE DEF new
  <2>4. /\ DOMAIN accepted' = DOMAIN accepted \cup {Len(accepted) + 1}
        /\ Len(accepted) + 1 \notin DOMAIN accepted
        /\ accepted'[Len(accepted) + 1] = new
        /\ \A i \in DOMAIN accepted : accepted'[i] = accepted[i]
    BY <2>1 DEF ContinuationTypeOK
  <2>5. ASSUME NEW i \in DOMAIN accepted'
        PROVE  (accepted[i].blob \in DOMAIN minted /\ Dead(accepted[i].blob))'
    <3>1. PICK k : k = accepted'[i].blob
      OBVIOUS
    <3>2. k \in DOMAIN minted' /\ Dead(k)'
      BY <1>2, <2>1, <2>2, <2>4, <3>1
    <3> QED
      BY <3>1, <3>2 DEF Dead, Expired
  <2>6. SingleUse'
    BY <2>1, <2>3, <2>4 DEF SingleUse
  <2> QED
    BY <2>5, <2>6 DEF Spent
<1>5. ASSUME NEW b \in DOMAIN minted, NEW p \in Principals, NEW c \in Call,
             Present(b, p, c), ~Verifies(b, p, c)
      PROVE  UNCHANGED accepted
  BY <1>5 DEF Present
<1>6. \/ UNCHANGED accepted
      \/ \E b \in DOMAIN minted, p \in Principals, c \in Call : Present(b, p, c)
  BY DEF StoreStep
<1>7. CASE \E b \in DOMAIN minted, p \in Principals, c \in Call : Present(b, p, c)
  <2>1. PICK b \in DOMAIN minted, p \in Principals, c \in Call : Present(b, p, c)
    BY <1>7
  <2>2. CASE Verifies(b, p, c)
    BY <1>4, <2>1, <2>2
  <2>3. CASE ~Verifies(b, p, c)
    BY <1>3, <1>5, <2>1, <2>3
  <2> QED
    BY <2>2, <2>3
<1> QED
  BY <1>3, <1>6, <1>7

-----------------------------------------------------------------------------
(* The loop.                                                               *)

\* A client sends back only blobs it was given, and the exchange that is open
\* is about the call its blob was issued for.
KnownLine == {l \in Line : l.state = "issued" => l.blob \in DOMAIN minted}
Known ==
    /\ stream \in Seq(KnownLine) /\ held \in Seq(KnownLine)
    /\ exchange.open =>
          /\ exchange.blob \in DOMAIN minted
          /\ Matches(exchange.blob, exchange.principal, exchange.line.call)

Typed == McpTypeOK /\ Known

LEMMA TakenLine ==
    ASSUME Typed, NEW l, Taken(l)
    PROVE  /\ l \in KnownLine /\ l \in Line
           /\ stream' \in Seq(KnownLine) /\ held' \in Seq(KnownLine)
<1>1. /\ Source \in Seq(KnownLine) /\ Source # << >> /\ l = Head(Source)
      /\ \/ held' = Tail(Source) /\ stream' = stream
         \/ stream' = Tail(Source) /\ held' = held
  BY DEF Taken, Source, Typed, Known
<1>2. l \in KnownLine /\ Tail(Source) \in Seq(KnownLine)
  BY <1>1, HeadTailProperties
<1> QED
  BY <1>1, <1>2 DEF Typed, Known, KnownLine

LEMMA LineFields ==
    ASSUME NEW l \in Line
    PROVE  /\ l.call \in Call /\ l.client \in Principals /\ l.number \in Nat
           /\ l.capable \in BOOLEAN /\ l.consent \in BOOLEAN /\ l.blob \in Nat
BY DEF Line

LEMMA OpenExchange ==
    ASSUME Typed, exchange.open
    PROVE  /\ exchange.principal \in Principals /\ exchange.line \in Line
           /\ exchange.blob \in DOMAIN minted /\ exchange.blob \in Nat
           /\ Matches(exchange.blob, exchange.principal, exchange.line.call)
<1>1. exchange # NoExchange
  BY DEF NoExchange
<1>2. exchange \in [open : {TRUE}, line : Line, principal : Principals, blob : Nat]
  BY <1>1 DEF Typed, McpTypeOK
<1>3. /\ exchange.blob \in DOMAIN minted
      /\ Matches(exchange.blob, exchange.principal, exchange.line.call)
  BY DEF Typed, Known
<1> QED
  BY <1>2, <1>3

\* The handlers of the loop, as steps of the store.
LEMMA StoreSteps ==
    ASSUME Typed, [McpNext]_vars
    PROVE  StoreStep
<1>1. ContinuationTypeOK
  BY DEF Typed, McpTypeOK
<1>2. CASE UNCHANGED continuationVars
  BY <1>2 DEF continuationVars, StoreStep
<1>3. ASSUME NEW l, Serve(l)
      PROVE  StoreStep
  <2>1. l \in KnownLine /\ l \in Line /\ l.call \in Call /\ l.client \in Principals
    <3>1. Taken(l)
      BY <1>3 DEF Serve, Skip, Initialize, AnswerDirectly, ReturnState, CallAfresh,
                  LegacyCall, LegacyAsk
    <3> QED
      BY <3>1, TakenLine, LineFields
  <2>2. CASE Skip(l) \/ Initialize(l) \/ AnswerDirectly(l) \/ LegacyCall(l)
    BY <1>2, <2>2 DEF Skip, Initialize, AnswerDirectly, LegacyCall
  <2>3. CASE ReturnState(l)
    <3>1. CASE l.state = "forged"
      BY <1>2, <2>3, <3>1 DEF ReturnState
    <3>2. CASE l.state # "forged"
      <4>1. l.blob \in DOMAIN minted
        BY <2>1, <2>3, <3>2 DEF KnownLine, Line, ReturnState
      <4>2. /\ Present(l.blob, l.client, l.call) /\ UNCHANGED now
            /\ UNCHANGED minted \/ Mint(l.client, l.call)
        BY <2>3, <3>2 DEF ReturnState
      <4> QED
        BY <2>1, <4>1, <4>2 DEF StoreStep
    <3> QED
      BY <3>1, <3>2
  <2>4. CASE CallAfresh(l)
    <3>1. /\ UNCHANGED <<consumed, accepted, now>>
          /\ UNCHANGED minted \/ Mint(l.client, l.call)
      BY <2>4 DEF CallAfresh
    <3> QED
      BY <2>1, <3>1 DEF StoreStep
  <2>5. CASE LegacyAsk(l)
    <3>1. session.client \in Principals
      BY DEF Typed, McpTypeOK
    <3>2. UNCHANGED <<consumed, accepted, now>> /\ Mint(session.client, l.call)
      BY <2>5 DEF LegacyAsk
    <3> QED
      BY <2>1, <3>1, <3>2 DEF StoreStep
  <2> QED
    BY <1>3, <2>2, <2>3, <2>4, <2>5 DEF Serve
<1>4. ASSUME NEW a, exchange.open, Conclude(a)
      PROVE  StoreStep
  <2>1. /\ exchange.blob \in DOMAIN minted
        /\ exchange.principal \in Principals /\ exchange.line \in Line
    BY <1>4, OpenExchange
  <2>2. exchange.line.call \in Call
    BY <2>1, LineFields
  <2>3. /\ Present(exchange.blob, exchange.principal, exchange.line.call)
        /\ UNCHANGED minted /\ UNCHANGED now
    BY <1>4 DEF Conclude, PresentAnswered
  <2> QED
    BY <2>1, <2>2, <2>3 DEF StoreStep
<1>5. CASE Respond \/ Abandon
  BY <1>4, <1>5 DEF Respond, Abandon
<1>6. CASE ReadPast \/ Stop \/ CloseStream
  BY <1>2, <1>6 DEF ReadPast, Stop, CloseStream
<1>7. CASE \E l \in Lines : Send(l)
  BY <1>2, <1>7 DEF Send
<1>8. CASE Tick
  BY <1>8 DEF Tick, Elapse, StoreStep
<1>9. CASE UNCHANGED vars
  BY <1>2, <1>9 DEF vars
<1>10. CASE ServerActs
  <2>1. CASE Source # << >> /\ Serve(Head(Source))
    <3>1. PICK l : l = Head(Source)
      OBVIOUS
    <3>2. Serve(l)
      BY <2>1, <3>1
    <3> QED
      BY <1>3, <3>2
  <2> QED
    BY <1>5, <1>6, <1>10, <2>1 DEF ServerActs
<1> QED
  BY <1>6, <1>7, <1>8, <1>9, <1>10 DEF McpNext

Session == [active : BOOLEAN, capable : BOOLEAN, client : Principals]

LEMMA Answered ==
    ASSUME Typed, NEW l \in Line, Answer(l)
    PROVE  answers' \in Seq(Nat)
<1>1. l.number \in Nat /\ answers \in Seq(Nat)
  BY LineFields DEF Typed, McpTypeOK
<1> QED
  BY <1>1 DEF Answer

LEMMA RunTyped ==
    ASSUME Typed, NEW l \in Line, NEW by \in {"none", "flag", "answer"}, NEW blob \in Nat,
           Run(l, by, blob)
    PROVE  answers' \in Seq(Nat) /\ ran' \in SUBSET Execution
<1>1. answers' \in Seq(Nat)
  BY Answered DEF Run
<1>2. [line |-> l, by |-> by, blob |-> blob] \in Execution /\ ran \in SUBSET Execution
  BY DEF Execution, Typed, McpTypeOK
<1>3. ran' = ran \/ ran' = ran \cup {[line |-> l, by |-> by, blob |-> blob]}
  BY DEF Run
<1> QED
  BY <1>1, <1>2, <1>3

LEMMA DeclineTyped ==
    ASSUME Typed, NEW l \in Line, Decline(l)
    PROVE  answers' \in Seq(Nat) /\ ran' \in SUBSET Execution
BY Answered DEF Decline, Typed, McpTypeOK

\* A handler takes its line, answers it or opens an exchange, and leaves the
\* rest alone.
LEMMA ServeTyped ==
    ASSUME Typed, NEW l, Serve(l)
    PROVE  /\ Taken(l)
           /\ answers' \in Seq(Nat) /\ ran' \in SUBSET Execution
           /\ session' \in Session
           /\ UNCHANGED <<exchange, asked>> \/ LegacyAsk(l)
<1>1. Taken(l)
  BY DEF Serve, Skip, Initialize, AnswerDirectly, ReturnState, CallAfresh, LegacyCall, LegacyAsk
<1>2. l \in Line /\ l.client \in Principals /\ l.capable \in BOOLEAN /\ l.blob \in Nat
  BY <1>1, TakenLine, LineFields
<1>3. answers \in Seq(Nat) /\ ran \in SUBSET Execution /\ session \in Session
  BY DEF Typed, McpTypeOK, Session
<1>4. CASE Skip(l) \/ AnswerDirectly(l)
  BY <1>1, <1>2, <1>3, <1>4, Answered DEF Skip, AnswerDirectly
<1>5. CASE Initialize(l)
  <2>1. session' \in Session
    BY <1>2, <1>5 DEF Initialize, Session
  <2> QED
    BY <1>1, <1>2, <1>3, <1>5, <2>1, Answered DEF Initialize
<1>6. CASE ReturnState(l)
  <2>1. Decline(l) \/ Run(l, "answer", l.blob)
    BY <1>6 DEF ReturnState
  <2>2. UNCHANGED <<session, exchange, asked>>
    BY <1>6 DEF ReturnState
  <2> QED
    BY <1>1, <1>2, <1>3, <2>1, <2>2, DeclineTyped, RunTyped
<1>7. CASE CallAfresh(l)
  <2>1. Decline(l) \/ Run(l, "flag", 0) \/ Run(l, "none", 0)
    BY <1>7 DEF CallAfresh
  <2>2. UNCHANGED <<session, exchange, asked>>
    BY <1>7 DEF CallAfresh
  <2> QED
    BY <1>1, <1>2, <1>3, <2>1, <2>2, DeclineTyped, RunTyped
<1>8. CASE LegacyCall(l)
  <2>1. Run(l, "flag", 0) \/ Run(l, "none", 0)
    BY <1>8 DEF LegacyCall
  <2>2. UNCHANGED <<session, exchange, asked>>
    BY <1>8 DEF LegacyCall
  <2> QED
    BY <1>1, <1>2, <1>3, <2>1, <2>2, RunTyped
<1>9. CASE LegacyAsk(l)
  BY <1>1, <1>3, <1>9 DEF LegacyAsk
<1> QED
  BY <1>4, <1>5, <1>6, <1>7, <1>8, <1>9 DEF Serve

\* Time and new blobs leave what was known known.
LEMMA StillKnown ==
    ASSUME Typed, Grows
    PROVE  /\ Seq(KnownLine) \subseteq Seq(KnownLine')
           /\ exchange.open =>
                 /\ exchange.blob \in DOMAIN minted'
                 /\ minted'[exchange.blob].principal = exchange.principal
                 /\ minted'[exchange.blob].call = exchange.line.call
<1>1. KnownLine \subseteq KnownLine'
  BY DEF KnownLine, Grows
<1>2. Seq(KnownLine) \subseteq Seq(KnownLine')
  BY <1>1, SeqMonotonic
<1>3. ASSUME exchange.open
      PROVE  /\ exchange.blob \in DOMAIN minted'
             /\ minted'[exchange.blob].principal = exchange.principal
             /\ minted'[exchange.blob].call = exchange.line.call
  BY <1>3, OpenExchange DEF Grows, Matches
<1> QED
  BY <1>2, <1>3

\* The type of the state from the types of what a step writes.
LEMMA TypedFrom ==
    ASSUME Typed, StoreStep,
           stream' \in Seq(KnownLine') /\ held' \in Seq(KnownLine'),
           sent' \in Nat /\ closed' \in BOOLEAN /\ stopped' \in BOOLEAN,
           session' \in Session,
           owed' \subseteq Nat,
           answers' \in Seq(Nat) /\ ran' \in SUBSET Execution,
           \/ UNCHANGED <<exchange, asked>>
           \/ exchange' = NoExchange /\ UNCHANGED asked
           \/ \E l : LegacyAsk(l)
    PROVE  Typed'
<1>1. ContinuationTypeOK /\ Grows /\ ContinuationTypeOK'
  BY StoreGrows, StoreTyped DEF Typed, McpTypeOK
<1>2. KnownLine' \subseteq Line
  BY DEF KnownLine
<1>3. stream' \in Seq(Line) /\ held' \in Seq(Line)
  BY <1>2, SeqMonotonic
<1> DEFINE ExchangeType == {NoExchange} \cup
             [open : {TRUE}, line : Line, principal : Principals, blob : Nat]
<1>4. /\ asked' \subseteq DOMAIN minted' /\ exchange' \in ExchangeType
      /\ exchange'.open =>
            /\ exchange'.blob \in DOMAIN minted'
            /\ minted'[exchange'.blob].principal = exchange'.principal
            /\ minted'[exchange'.blob].call = exchange'.line.call
  <2>1. asked \subseteq DOMAIN minted' /\ exchange \in ExchangeType
    BY <1>1 DEF Typed, McpTypeOK, Grows
  <2>2. CASE UNCHANGED <<exchange, asked>>
    BY <1>1, <2>1, <2>2, StillKnown
  <2>3. CASE exchange' = NoExchange /\ UNCHANGED asked
    BY <2>1, <2>3 DEF NoExchange
  <2>4. ASSUME NEW l, LegacyAsk(l)
        PROVE  /\ asked' \subseteq DOMAIN minted' /\ exchange' \in ExchangeType
               /\ exchange'.open =>
                     /\ exchange'.blob \in DOMAIN minted'
                     /\ minted'[exchange'.blob].principal = exchange'.principal
                     /\ minted'[exchange'.blob].call = exchange'.line.call
    <3>1. l \in Line /\ l.call \in Call /\ session.client \in Principals
      BY <2>4, TakenLine, LineFields DEF LegacyAsk, Typed, McpTypeOK
    <3>2. /\ exchange' = [open |-> TRUE, line |-> l, principal |-> session.client,
                           blob |-> Len(minted) + 1]
          /\ asked' = asked \cup {Len(minted) + 1}
          /\ Mint(session.client, l.call)
      BY <2>4 DEF LegacyAsk
    <3>3. /\ Len(minted) + 1 \in DOMAIN minted'
          /\ minted'[Len(minted) + 1].principal = session.client
          /\ minted'[Len(minted) + 1].call = l.call
          /\ Len(minted) + 1 \in Nat
      BY <1>1, <3>1, <3>2, MintedPayload DEF ContinuationTypeOK
    <3> QED
      BY <2>1, <3>1, <3>2, <3>3
  <2> QED
    BY <2>2, <2>3, <2>4
<1> QED
  BY <1>1, <1>3, <1>4 DEF Typed, Known, McpTypeOK, Matches, Session

LEMMA SentTyped ==
    ASSUME Typed, NEW l \in Lines, Send(l)
    PROVE  stream' \in Seq(KnownLine) /\ sent' \in Nat /\ owed' \subseteq Nat
<1>1. l \in Line /\ sent \in Nat /\ owed \subseteq Nat /\ minted \in Seq(Payload)
  BY LinesAssumption DEF Typed, McpTypeOK, ContinuationTypeOK
<1>2. PICK b \in IF l.state = "issued" THEN DOMAIN minted ELSE {0} :
          stream' = Append(stream, [l EXCEPT !.blob = b, !.number = sent + 1])
  BY DEF Send
<1> DEFINE m == [l EXCEPT !.blob = b, !.number = sent + 1]
<1>3. b \in Nat /\ (l.state = "issued" => b \in DOMAIN minted)
  BY <1>1, <1>2
<1>4. m \in Line /\ m.state = l.state /\ m.blob = b
  <2>1. sent + 1 \in Nat
    BY <1>1
  <2>2. PICK n : n = sent + 1
    OBVIOUS
  <2>3. n \in Nat /\ m = [l EXCEPT !.blob = b, !.number = n]
    BY <2>1, <2>2
  <2> HIDE DEF m
  <2>4. m \in Line
    BY <1>1, <1>3, <2>3 DEF Line
  <2>5. m.state = l.state /\ m.blob = b
    BY <1>1, <2>3 DEF Line
  <2> QED
    BY <2>4, <2>5
<1>5. m \in KnownLine
  BY <1>3, <1>4 DEF KnownLine
<1>6. stream' \in Seq(KnownLine)
  <2> HIDE DEF m
  <2>1. stream \in Seq(KnownLine)
    BY DEF Typed, Known
  <2>2. stream' = Append(stream, m)
    BY <1>2 DEF m
  <2> QED
    BY <1>5, <2>1, <2>2
<1>7. sent' \in Nat /\ owed' \subseteq Nat
  BY <1>1 DEF Send
<1> QED
  BY <1>6, <1>7

\* awaitResponse() moves lines from the stream to what is held, or drops them.
LEMMA ReadPastTyped ==
    ASSUME Typed, ReadPast
    PROVE  stream' \in Seq(KnownLine) /\ held' \in Seq(KnownLine)
<1>1. stream \in Seq(KnownLine) /\ held \in Seq(KnownLine) /\ stream # << >>
  BY DEF Typed, Known, ReadPast
<1>2. PICK l : l = Head(stream)
  OBVIOUS
<1>3. l \in KnownLine /\ Tail(stream) \in Seq(KnownLine)
  BY <1>1, <1>2, HeadTailProperties
<1>4. HoldOthers(l) \in Seq(KnownLine)
  BY <1>3 DEF HoldOthers
<1>5. stream' = Tail(stream) /\ held' = held \o HoldOthers(l)
  BY <1>2 DEF ReadPast
<1> QED
  BY <1>1, <1>3, <1>4, <1>5

\* Both ways out of an exchange answer the call it held open.
LEMMA ConcludeTyped ==
    ASSUME Typed, NEW a, exchange.open, Conclude(a)
    PROVE  answers' \in Seq(Nat) /\ ran' \in SUBSET Execution
<1>1. PICK l : l = exchange.line
  OBVIOUS
<1>2. PICK b : b = exchange.blob
  OBVIOUS
<1>3. l \in Line /\ b \in Nat
  BY <1>1, <1>2, OpenExchange
<1>4. Run(l, "answer", b) \/ Decline(l)
  BY <1>1, <1>2 DEF Conclude
<1> QED
  BY <1>3, <1>4, RunTyped, DeclineTyped

LEMMA TypedStep ==
    ASSUME Typed, [McpNext]_vars
    PROVE  Typed'
<1>1. StoreStep
  BY StoreSteps
<1>2. Seq(KnownLine) \subseteq Seq(KnownLine')
  BY <1>1, StoreGrows, StillKnown DEF Typed, McpTypeOK
<1>3. /\ stream \in Seq(KnownLine) /\ held \in Seq(KnownLine)
      /\ sent \in Nat /\ closed \in BOOLEAN /\ stopped \in BOOLEAN
      /\ session \in Session /\ owed \subseteq Nat
      /\ answers \in Seq(Nat) /\ ran \in SUBSET Execution
  BY DEF Typed, McpTypeOK, Known, Session
<1>4. ASSUME NEW l, Serve(l)
      PROVE  Typed'
  <2>1. /\ Taken(l)
        /\ answers' \in Seq(Nat) /\ ran' \in SUBSET Execution /\ session' \in Session
        /\ UNCHANGED <<exchange, asked>> \/ LegacyAsk(l)
    BY <1>4, ServeTyped
  <2>2. stream' \in Seq(KnownLine') /\ held' \in Seq(KnownLine')
    BY <1>2, <2>1, TakenLine
  <2>3. UNCHANGED <<sent, closed, stopped, owed>>
    BY <2>1 DEF Taken
  <2> QED
    BY <1>1, <1>3, <2>1, <2>2, <2>3, TypedFrom
<1>5. ASSUME NEW a, exchange.open, Conclude(a), stream' \in Seq(KnownLine)
      PROVE  Typed'
  <2>1. answers' \in Seq(Nat) /\ ran' \in SUBSET Execution
    BY <1>5, ConcludeTyped
  <2>2. /\ UNCHANGED <<sent, closed, held, session, stopped, owed, asked>>
        /\ exchange' = NoExchange
    BY <1>5 DEF Conclude
  <2> QED
    BY <1>1, <1>2, <1>3, <1>5, <2>1, <2>2, TypedFrom
<1>6. CASE Respond
  <2>1. Tail(stream) \in Seq(KnownLine) /\ stream' = Tail(stream)
    BY <1>3, <1>6, HeadTailProperties DEF Respond
  <2>2. PICK a : a = Head(stream).answer
    OBVIOUS
  <2>3. exchange.open /\ Conclude(a)
    BY <1>6, <2>2 DEF Respond
  <2> QED
    BY <1>5, <2>1, <2>3
<1>7. CASE Abandon
  BY <1>3, <1>5, <1>7 DEF Abandon
<1>8. CASE ReadPast
  <2>1. stream' \in Seq(KnownLine') /\ held' \in Seq(KnownLine')
    BY <1>2, <1>8, ReadPastTyped
  <2>2. UNCHANGED <<sent, closed, session, exchange, stopped, historyVars>>
    BY <1>8 DEF ReadPast
  <2> QED
    BY <1>1, <1>3, <2>1, <2>2, TypedFrom DEF historyVars
<1>9. ASSUME NEW l \in Lines, Send(l)
      PROVE  Typed'
  <2>1. stream' \in Seq(KnownLine') /\ sent' \in Nat /\ owed' \subseteq Nat
    BY <1>2, <1>9, SentTyped
  <2>2. UNCHANGED <<closed, held, session, exchange, stopped, answers, asked, ran>>
    BY <1>9 DEF Send
  <2> QED
    BY <1>1, <1>2, <1>3, <2>1, <2>2, TypedFrom
<1>10. CASE Stop \/ CloseStream \/ Tick \/ UNCHANGED vars
  <2>1. /\ UNCHANGED <<stream, sent, held, session, exchange, historyVars>>
        /\ closed' \in BOOLEAN /\ stopped' \in BOOLEAN
    BY <1>3, <1>10 DEF Stop, CloseStream, Tick, vars, loopVars
  <2> QED
    BY <1>1, <1>2, <1>3, <2>1, TypedFrom DEF historyVars
<1>11. CASE ServerActs
  <2>1. CASE Source # << >> /\ Serve(Head(Source))
    <3>1. PICK l : l = Head(Source)
      OBVIOUS
    <3>2. Serve(l)
      BY <2>1, <3>1
    <3> QED
      BY <1>4, <3>2
  <2> QED
    BY <1>6, <1>7, <1>8, <1>10, <1>11, <2>1 DEF ServerActs
<1> QED
  BY <1>9, <1>10, <1>11 DEF McpNext

LEMMA InitTyped ==
    ASSUME McpInit
    PROVE  Typed
<1>1. ContinuationTypeOK
  BY DEF McpInit, ContinuationInit, ContinuationTypeOK
<1>2. /\ stream = << >> /\ held = << >> /\ sent = 0 /\ closed = FALSE /\ stopped = FALSE
      /\ exchange = NoExchange /\ owed = {} /\ asked = {} /\ answers = << >> /\ ran = {}
  BY DEF McpInit
<1>3. session \in [active : BOOLEAN, capable : BOOLEAN, client : Principals]
  <2>1. session \in [active : {FALSE}, capable : {FALSE}, client : Principals]
    BY DEF McpInit
  <2>2. PICK s : s = session
    OBVIOUS
  <2> QED
    BY <2>1, <2>2
<1>4. ~exchange.open
  BY <1>2 DEF NoExchange
<1>5. /\ stream \in Seq(Line) /\ held \in Seq(Line)
      /\ stream \in Seq(KnownLine) /\ held \in Seq(KnownLine) /\ answers \in Seq(Nat)
  BY <1>2
<1>6. /\ owed \subseteq Nat /\ asked \subseteq DOMAIN minted /\ ran \in SUBSET Execution
      /\ sent \in Nat /\ closed \in BOOLEAN /\ stopped \in BOOLEAN
      /\ exchange \in {NoExchange} \cup
                    [open : {TRUE}, line : Line, principal : Principals, blob : Nat]
  BY <1>2
<1> QED
  BY <1>1, <1>3, <1>4, <1>5, <1>6, Zenon DEF Typed, McpTypeOK, Known

\* The server's state keeps its type: the lines it has read or holds are lines,
\* every blob in them was issued, and the open exchange is about the call its
\* blob binds (the loop of serveMcp and the store of McpContinuation).
THEOREM McpTypeCorrect == McpSpec => []McpTypeOK
<1>1. McpInit => Typed
  BY InitTyped
<1>2. Typed /\ [McpNext]_vars => Typed'
  BY TypedStep
<1>3. Typed => McpTypeOK
  BY DEF Typed
<1> QED
  BY <1>1, <1>2, <1>3, PTL DEF McpSpec

\* No continuation passes its verification twice, however often the client
\* sends it back and although the server forgets it when it prunes (verify()
\* and #prune() of McpContinuation).
THEOREM ContinuationsAreSingleUse == McpSpec => []SingleUse
<1> DEFINE Inv == Typed /\ Spent /\ SingleUse
<1>1. McpInit => Inv
  <2> SUFFICES ASSUME McpInit PROVE Inv
    OBVIOUS
  <2>1. accepted = << >>
    BY DEF McpInit, ContinuationInit
  <2> QED
    BY <2>1, InitTyped DEF Spent, SingleUse
<1>2. Inv /\ [McpNext]_vars => Inv'
  BY TypedStep, StoreSteps, SpentOnce DEF Typed, McpTypeOK
<1>3. Inv => SingleUse
  OBVIOUS
<1> QED
  BY <1>1, <1>2, <1>3, PTL DEF McpSpec

-----------------------------------------------------------------------------
(* What a confirmation approves.                                           *)

\* A blob of the legacy era is dead, unless its exchange is still open; that
\* exchange holds a call of the legacy era.
Settled ==
    /\ \A b \in asked : Dead(b) \/ (exchange.open /\ exchange.blob = b)
    /\ exchange.open => exchange.line.meta # "valid"

LEMMA ExchangeSteps ==
    ASSUME [McpNext]_vars
    PROVE  \/ UNCHANGED <<exchange, asked>>
           \/ \E l : LegacyAsk(l)
           \/ exchange.open /\ \E a : Conclude(a)
<1>1. ASSUME NEW l, Serve(l)
      PROVE  UNCHANGED <<exchange, asked>> \/ LegacyAsk(l)
  BY <1>1 DEF Serve, Skip, Initialize, AnswerDirectly, ReturnState, CallAfresh, LegacyCall
<1>2. CASE Source # << >> /\ Serve(Head(Source))
  BY <1>1, <1>2
<1>3. CASE Respond
  <2>1. PICK a : a = Head(stream).answer
    OBVIOUS
  <2> QED
    BY <1>3, <2>1 DEF Respond
<1>4. CASE Abandon
  BY <1>4 DEF Abandon
<1>5. CASE ReadPast \/ Stop
  BY <1>5 DEF ReadPast, Stop, historyVars
<1>6. CASE CloseStream \/ Tick \/ UNCHANGED vars
  BY <1>6 DEF CloseStream, Tick, vars, loopVars, historyVars
<1>7. CASE \E l \in Lines : Send(l)
  BY <1>7 DEF Send
<1> QED
  BY <1>2, <1>3, <1>4, <1>5, <1>6, <1>7 DEF McpNext, ServerActs

\* However an exchange ends, its blob is presented, and dead afterwards.
LEMMA ConcludedIsDead ==
    ASSUME Typed, StoreStep, NEW a, exchange.open, Conclude(a),
           NEW b, b = exchange.blob
    PROVE  Dead(b)'
<1>1. PICK p : p = exchange.principal
  OBVIOUS
<1>2. PICK c : c = exchange.line.call
  OBVIOUS
<1>3. b \in DOMAIN minted /\ Matches(b, p, c)
  BY <1>1, <1>2, OpenExchange
<1>4. Present(b, p, c)
  BY <1>1, <1>2 DEF Conclude, PresentAnswered
<1> QED
  BY <1>3, <1>4, PresentedIsDead DEF Typed, McpTypeOK

LEMMA SettledStep ==
    ASSUME Typed, Settled, [McpNext]_vars
    PROVE  Settled'
<1>1. StoreStep /\ ContinuationTypeOK /\ asked \subseteq DOMAIN minted
  BY StoreSteps DEF Typed, McpTypeOK
<1>2. ASSUME NEW b \in asked, Dead(b)
      PROVE  Dead(b)'
  BY <1>1, <1>2, DeadStaysDead
<1>3. CASE UNCHANGED <<exchange, asked>>
  BY <1>2, <1>3 DEF Settled
<1>4. ASSUME NEW l, LegacyAsk(l)
      PROVE  Settled'
  <2>1. /\ ~exchange.open
        /\ exchange'.open /\ exchange'.blob = Len(minted) + 1
        /\ exchange'.line = l /\ l.meta # "valid"
        /\ asked' = asked \cup {Len(minted) + 1}
    BY <1>4 DEF LegacyAsk, Taken, Era
  <2> QED
    BY <1>2, <2>1 DEF Settled
<1>5. ASSUME NEW a, exchange.open, Conclude(a)
      PROVE  Settled'
  <2>1. UNCHANGED asked /\ ~exchange'.open
    BY <1>5 DEF Conclude, NoExchange
  <2>2. ASSUME NEW b \in asked
        PROVE  Dead(b)'
    BY <1>1, <1>2, <1>5, ConcludedIsDead DEF Settled
  <2> QED
    BY <2>1, <2>2 DEF Settled
<1> QED
  BY <1>3, <1>4, <1>5, ExchangeSteps

\* The consent a call ran with.
Entitled(e) ==
    /\ e.line.call.tool \in Consequential => e.by # "none"
    /\ e.by = "flag" => e.line.consent
    /\ e.by = "answer" =>
          /\ e.blob \in DOMAIN minted
          /\ minted[e.blob].call = e.line.call
          /\ e.line.meta = "valid" =>
                minted[e.blob].principal = e.line.client /\ e.blob \notin asked

LEMMA EntitledStands ==
    ASSUME Typed, [McpNext]_vars, NEW e, Entitled(e)
    PROVE  Entitled(e)'
<1>1. Grows /\ asked \subseteq DOMAIN minted /\ minted \in Seq(Payload)
  BY StoreSteps, StoreGrows DEF Typed, McpTypeOK, ContinuationTypeOK
<1>2. asked' = asked \/ asked' = asked \cup {Len(minted) + 1}
  BY ExchangeSteps DEF LegacyAsk, Conclude
<1>3. Len(minted) + 1 \notin DOMAIN minted
  BY <1>1
<1> QED
  BY <1>1, <1>2, <1>3 DEF Entitled, Grows

\* Run() adds at most its own call, which the consent check let pass.
LEMMA RunAdds ==
    ASSUME NEW l, NEW by, NEW blob, Run(l, by, blob), NEW e \in ran', e \notin ran
    PROVE  e = [line |-> l, by |-> by, blob |-> blob] /\ MayRun(l, by)
BY DEF Run

LEMMA NewRuns ==
    ASSUME Typed, Settled, [McpNext]_vars, NEW e \in ran', e \notin ran
    PROVE  Entitled(e)
<1>1. ASSUME NEW l, Run(l, "none", 0) \/ (Run(l, "flag", 0) /\ l.consent)
      PROVE  Entitled(e)
  BY <1>1, RunAdds DEF Entitled, MayRun
<1>2. ASSUME NEW l, Serve(l)
      PROVE  Entitled(e)
  <2>1. CASE ReturnState(l)
    <3>1. /\ Verifies(l.blob, l.client, l.call) /\ Run(l, "answer", l.blob)
          /\ l.state # "forged" /\ l.state # "none" /\ Taken(l)
      BY <2>1 DEF ReturnState, Decline
    <3>2. l \in KnownLine /\ l \in Line /\ ~exchange.open
      BY <3>1, TakenLine DEF Taken
    <3>3. l.blob \in DOMAIN minted
      BY <3>1, <3>2 DEF KnownLine, Line
    <3>4. l.blob \notin asked
      BY <3>1, <3>2, DeadFails DEF Settled
    <3>5. e = [line |-> l, by |-> "answer", blob |-> l.blob]
      BY <3>1, RunAdds
    <3> QED
      BY <3>1, <3>3, <3>4, <3>5 DEF Entitled, Verifies, Matches
  <2>2. CASE CallAfresh(l)
    BY <1>1, <2>2 DEF CallAfresh, Decline
  <2>3. CASE LegacyCall(l)
    BY <1>1, <2>3 DEF LegacyCall
  <2> QED
    BY <1>2, <2>1, <2>2, <2>3 DEF Serve, Skip, Initialize, AnswerDirectly, LegacyAsk
<1>3. ASSUME NEW a, exchange.open, Conclude(a)
      PROVE  Entitled(e)
  <2>1. PICK l : l = exchange.line
    OBVIOUS
  <2>2. PICK b : b = exchange.blob
    OBVIOUS
  <2>3. Run(l, "answer", b)
    BY <1>3, <2>1, <2>2 DEF Conclude, Decline
  <2>4. e = [line |-> l, by |-> "answer", blob |-> b]
    BY <2>3, RunAdds
  <2>5. b \in DOMAIN minted /\ minted[b].call = l.call /\ l.meta # "valid"
    BY <1>3, <2>1, <2>2, OpenExchange DEF Matches, Settled
  <2> QED
    BY <2>4, <2>5 DEF Entitled
<1>4. CASE Source # << >> /\ Serve(Head(Source))
  <2>1. PICK l : l = Head(Source)
    OBVIOUS
  <2> QED
    BY <1>2, <1>4, <2>1
<1>5. CASE Respond
  <2>1. PICK a : a = Head(stream).answer
    OBVIOUS
  <2> QED
    BY <1>3, <1>5, <2>1 DEF Respond
<1>6. CASE Abandon
  BY <1>3, <1>6 DEF Abandon
<1>7. CASE ReadPast \/ Stop \/ CloseStream \/ Tick \/ UNCHANGED vars
  BY <1>7 DEF ReadPast, Stop, CloseStream, Tick, vars, loopVars, historyVars
<1>8. CASE \E l \in Lines : Send(l)
  BY <1>8 DEF Send
<1> QED
  BY <1>4, <1>5, <1>6, <1>7, <1>8 DEF McpNext, ServerActs

ConfirmedInv == Typed /\ Settled /\ \A e \in ran : Entitled(e)

LEMMA ConfirmedAlways == McpSpec => []ConfirmedInv
<1>1. McpInit => ConfirmedInv
  <2> SUFFICES ASSUME McpInit PROVE ConfirmedInv
    OBVIOUS
  <2>1. asked = {} /\ ran = {} /\ ~exchange.open
    BY DEF McpInit, NoExchange
  <2> QED
    BY <2>1, InitTyped DEF ConfirmedInv, Settled
<1>2. ConfirmedInv /\ [McpNext]_vars => ConfirmedInv'
  <2> SUFFICES ASSUME ConfirmedInv, [McpNext]_vars PROVE ConfirmedInv'
    OBVIOUS
  <2>1. Typed /\ Settled /\ \A e \in ran : Entitled(e)
    BY DEF ConfirmedInv
  <2>2. ASSUME NEW e \in ran' PROVE Entitled(e)'
    BY <2>1, NewRuns, EntitledStands
  <2> QED
    BY <2>1, <2>2, TypedStep, SettledStep DEF ConfirmedInv
<1> QED
  BY <1>1, <1>2, PTL DEF McpSpec

\* However the question of a legacy session ends, no later request runs on its
\* blob (legacyConfirmation()).
THEOREM RefusalsStand == McpSpec => []RefusalStands
<1>1. ConfirmedInv => RefusalStands
  BY DEF ConfirmedInv, Entitled, RefusalStands
<1> QED
  BY <1>1, ConfirmedAlways, PTL

\* A consequential command runs only with a consent for exactly that call
\* (confirmationExchange(), legacyConfirmation() and the check in invokeApp()).
THEOREM ConsentMatchesTheCall == McpSpec => []ConsentIsForTheCall
<1>1. ASSUME ConfirmedInv PROVE ConsentIsForTheCall
  <2>1. ASSUME NEW e \in ran, e.line.call.tool \in Consequential
        PROVE  e.by \in {"flag", "answer"} /\ Entitled(e)
    <3>1. e.by \in {"none", "flag", "answer"}
      BY <1>1 DEF ConfirmedInv, Typed, McpTypeOK, Execution
    <3> QED
      BY <1>1, <2>1, <3>1 DEF ConfirmedInv, Entitled
  <2> QED
    BY <2>1 DEF Entitled, ConsentIsForTheCall
<1> QED
  BY <1>1, ConfirmedAlways, PTL

-----------------------------------------------------------------------------
(* One answer for each request.  The lines that wait for one, in the open   *)
(* exchange, in what is held and in the stream, stand in the order they     *)
(* were sent, and everything answered was sent before them.                 *)

Numbers(s) == {s[i].number : i \in DOMAIN s}
Rising(s) == \A i, j \in DOMAIN s : i < j => s[i].number < s[j].number
Below(A, B) == \A a \in A, b \in B : a < b

Opened == IF exchange.open THEN {exchange.line.number} ELSE {}
Given == {answers[i] : i \in DOMAIN answers}

\* The lines of a sequence that expect an answer.
Owing(s) == \A i \in DOMAIN s : s[i].number \in owed <=> s[i].kind \in {"request", "garbage"}

InLine ==
    /\ Rising(stream) /\ Rising(held)
    /\ Below(Opened, Numbers(held)) /\ Below(Opened \cup Numbers(held), Numbers(stream))
    /\ Numbers(stream) \cup Numbers(held) \cup owed \subseteq 1 .. sent
    /\ Owing(stream) /\ Owing(held) /\ Opened \subseteq owed

Answering ==
    /\ \A i, j \in DOMAIN answers : i < j => answers[i] < answers[j]
    /\ Below(Given, Pending)
    /\ Given = owed \ Pending

LEMMA PendingParts ==
    /\ Pending = Opened \cup Numbers(held) \cup Numbers(stream)
    /\ Pending' = Opened' \cup Numbers(held') \cup Numbers(stream')
  BY DEF Pending, Opened, Numbers

LEMMA NumbersAreNaturals ==
    ASSUME Typed, InLine
    PROVE  Opened \cup Numbers(held) \cup Numbers(stream) \cup owed \subseteq Nat
<1>1. sent \in Nat /\ 1 .. sent \subseteq Nat
  BY DEF Typed, McpTypeOK
<1> QED
  BY <1>1 DEF InLine

\* What the order of the lines is after a step.
LEMMA InLineNext ==
    ASSUME Rising(stream'), Rising(held'), Owing(stream)', Owing(held)',
           Below(Opened', Numbers(held')),
           Below(Opened' \cup Numbers(held'), Numbers(stream')),
           Numbers(stream') \cup Numbers(held') \cup owed' \subseteq 1 .. sent',
           Opened' \subseteq owed'
    PROVE  InLine'
<1>1. /\ Rising(stream)' /\ Rising(held)'
  BY DEF Rising
<1>2. /\ Below(Opened, Numbers(held))'
      /\ Below(Opened \cup Numbers(held), Numbers(stream))'
  BY DEF Below, Numbers
<1>3. (Numbers(stream) \cup Numbers(held) \cup owed \subseteq 1 .. sent)'
  BY DEF Numbers
<1> QED
  BY <1>1, <1>2, <1>3 DEF InLine

\* The first line of a rising sequence and the rest of it.
LEMMA FirstLine ==
    ASSUME NEW s \in Seq(Line), s # << >>, Rising(s), NEW l, l = Head(s)
    PROVE  /\ l \in Line /\ l.number \in Nat
           /\ Tail(s) \in Seq(Line) /\ Rising(Tail(s))
           /\ Numbers(s) = {l.number} \cup Numbers(Tail(s))
           /\ Below({l.number}, Numbers(Tail(s)))
           /\ Owing(s) => Owing(Tail(s)) /\ (l.number \in owed <=> l.kind \in {"request", "garbage"})
<1>1. /\ Tail(s) \in Seq(Line) /\ Len(s) \in Nat \ {0} /\ l = s[1] /\ l \in Line
      /\ 1 \in DOMAIN s
      /\ \A i \in DOMAIN Tail(s) : i + 1 \in DOMAIN s /\ Tail(s)[i] = s[i + 1] /\ 1 < i + 1
      /\ \A i \in DOMAIN s : i = 1 \/ (i - 1 \in DOMAIN Tail(s) /\ Tail(s)[i - 1] = s[i])
  OBVIOUS
<1>2. Rising(Tail(s))
  <2> SUFFICES ASSUME NEW i \in DOMAIN Tail(s), NEW j \in DOMAIN Tail(s), i < j
               PROVE  Tail(s)[i].number < Tail(s)[j].number
    BY DEF Rising
  <2>1. i + 1 < j + 1
    BY <1>1
  <2> QED
    BY <1>1, <2>1 DEF Rising
<1>3. Numbers(s) = {l.number} \cup Numbers(Tail(s))
  <2>1. ASSUME NEW n \in Numbers(s) PROVE n \in {l.number} \cup Numbers(Tail(s))
    BY <1>1, <2>1 DEF Numbers
  <2>2. ASSUME NEW n \in {l.number} \cup Numbers(Tail(s)) PROVE n \in Numbers(s)
    BY <1>1, <2>2 DEF Numbers
  <2> QED
    BY <2>1, <2>2
<1>4. Below({l.number}, Numbers(Tail(s)))
  BY <1>1 DEF Below, Numbers, Rising
<1>5. Owing(s) => Owing(Tail(s)) /\ (l.number \in owed <=> l.kind \in {"request", "garbage"})
  BY <1>1 DEF Owing
<1>6. l.number \in Nat
  BY <1>1, LineFields
<1> QED
  BY <1>1, <1>2, <1>3, <1>4, <1>5, <1>6

\* A line put behind a rising sequence.
LEMMA LastLine ==
    ASSUME NEW s \in Seq(Line), NEW l \in Line, Rising(s), Below(Numbers(s), {l.number})
    PROVE  /\ Append(s, l) \in Seq(Line) /\ Rising(Append(s, l))
           /\ Numbers(Append(s, l)) = Numbers(s) \cup {l.number}
<1>1. /\ Append(s, l) \in Seq(Line) /\ Len(s) \in Nat
      /\ DOMAIN Append(s, l) = DOMAIN s \cup {Len(s) + 1}
      /\ \A i \in DOMAIN s : Append(s, l)[i] = s[i] /\ i < Len(s) + 1 /\ i \in Nat
      /\ Append(s, l)[Len(s) + 1] = l
  OBVIOUS
<1>2. Rising(Append(s, l))
  <2> SUFFICES ASSUME NEW i \in DOMAIN Append(s, l), NEW j \in DOMAIN Append(s, l), i < j
               PROVE  Append(s, l)[i].number < Append(s, l)[j].number
    BY DEF Rising
  <2>1. i \in DOMAIN s
    BY <1>1
  <2> QED
    BY <1>1, <2>1 DEF Rising, Below, Numbers
<1>3. ASSUME NEW n
      PROVE  n \in Numbers(Append(s, l)) <=> n \in Numbers(s) \cup {l.number}
  BY <1>1 DEF Numbers
<1> QED
  BY <1>1, <1>2, <1>3

\* Answering the first pending line, or dropping one that expects no answer.
LEMMA AnswerFirst ==
    ASSUME Answering, answers \in Seq(Nat), NEW n \in Pending \cap owed, n \in Nat,
           answers' = Append(answers, n), owed' = owed,
           Pending' = Pending \ {n}, Below({n}, Pending')
    PROVE  Answering'
<1>1. /\ DOMAIN answers' = DOMAIN answers \cup {Len(answers) + 1} /\ Len(answers) \in Nat
      /\ \A i \in DOMAIN answers : answers'[i] = answers[i] /\ i < Len(answers) + 1 /\ i \in Nat
      /\ answers'[Len(answers) + 1] = n
  OBVIOUS
<1>2. \A a \in Given : a < n
  BY DEF Answering, Below
<1>3. Given' = Given \cup {n}
  <2>1. ASSUME NEW m PROVE m \in Given' <=> m \in Given \cup {n}
    BY <1>1 DEF Given
  <2> QED
    BY <2>1
<1>4. \A i, j \in DOMAIN answers' : i < j => answers'[i] < answers'[j]
  <2> SUFFICES ASSUME NEW i \in DOMAIN answers', NEW j \in DOMAIN answers', i < j
               PROVE  answers'[i] < answers'[j]
    OBVIOUS
  <2>1. i \in DOMAIN answers
    BY <1>1
  <2> QED
    BY <1>1, <1>2, <2>1 DEF Answering, Given
<1>5. Below(Given', Pending')
  BY <1>3 DEF Answering, Below
<1>6. Given' = owed' \ Pending'
  BY <1>3 DEF Answering
<1> QED
  BY <1>4, <1>5, <1>6 DEF Answering

LEMMA AnswersKept ==
    ASSUME Answering, UNCHANGED <<answers, owed>>, NEW D, D \cap owed = {},
           Pending' = Pending \ D
    PROVE  Answering'
<1>1. Given' = Given
  BY DEF Given
<1> QED
  BY <1>1 DEF Answering, Below

LEMMA TakenInLine ==
    ASSUME Typed, InLine, NEW l, Taken(l)
    PROVE  /\ Opened = {} /\ Pending = Numbers(held) \cup Numbers(stream)
           /\ Rising(stream') /\ Rising(held') /\ Below(Numbers(held'), Numbers(stream'))
           /\ Owing(stream') /\ Owing(held')
           /\ Numbers(held') \cup Numbers(stream') = Pending \ {l.number}
           /\ Below({l.number}, Numbers(held') \cup Numbers(stream'))
           /\ l.number \in Pending /\ l.number \in Nat
           /\ l.number \in owed <=> l.kind \in {"request", "garbage"}
<1>1. stream \in Seq(Line) /\ held \in Seq(Line)
  BY DEF Typed, McpTypeOK
<1>2. Opened = {} /\ Pending = Numbers(held) \cup Numbers(stream)
  BY PendingParts DEF Taken, Opened
<1>3. /\ Rising(stream) /\ Rising(held) /\ Below(Numbers(held), Numbers(stream))
      /\ Owing(stream) /\ Owing(held)
      /\ Numbers(held) \subseteq Nat /\ Numbers(stream) \subseteq Nat
  BY <1>2 DEF InLine, Below
<1>4. CASE held # << >>
  <2>1. held' = Tail(held) /\ stream' = stream /\ l = Head(held)
    BY <1>4 DEF Taken, Source
  <2>2. /\ Rising(Tail(held)) /\ Numbers(held) = {l.number} \cup Numbers(Tail(held))
        /\ Below({l.number}, Numbers(Tail(held))) /\ l.number \in Nat
        /\ Owing(Tail(held)) /\ (l.number \in owed <=> l.kind \in {"request", "garbage"})
    BY <1>1, <1>3, <1>4, <2>1, FirstLine
  <2>3. \A n \in Numbers(Tail(held)) \cup Numbers(stream) : l.number < n /\ n # l.number
    BY <1>3, <2>2 DEF Below
  <2> QED
    BY <1>2, <1>3, <2>1, <2>2, <2>3 DEF Below
<1>5. CASE held = << >>
  <2>1. stream' = Tail(stream) /\ held' = held /\ l = Head(stream) /\ stream # << >>
    BY <1>5 DEF Taken, Source
  <2>2. /\ Rising(Tail(stream)) /\ Numbers(stream) = {l.number} \cup Numbers(Tail(stream))
        /\ Below({l.number}, Numbers(Tail(stream))) /\ l.number \in Nat
        /\ Owing(Tail(stream)) /\ (l.number \in owed <=> l.kind \in {"request", "garbage"})
    BY <1>1, <1>3, <2>1, FirstLine
  <2>3. Numbers(held) = {}
    BY <1>5 DEF Numbers
  <2>4. \A n \in Numbers(Tail(stream)) : l.number < n /\ n # l.number
    BY <1>3, <2>2 DEF Below
  <2> QED
    BY <1>2, <1>3, <2>1, <2>2, <2>3, <2>4 DEF Below
<1> QED
  BY <1>4, <1>5

\* A handler answers its line, drops one that expects no answer, or holds it
\* open.
LEMMA ServeAnswers ==
    ASSUME Typed, InLine, Answering, NEW l, Serve(l)
    PROVE  InLine' /\ Answering'
<1>1. Taken(l) /\ answers \in Seq(Nat)
  BY ServeTyped DEF Typed, McpTypeOK
<1>2. UNCHANGED <<sent, owed>> /\ ~exchange.open
  BY <1>1 DEF Taken
<1> DEFINE rest == Numbers(held') \cup Numbers(stream')
<1>3. /\ Opened = {} /\ Pending = Numbers(held) \cup Numbers(stream)
      /\ Rising(stream') /\ Rising(held') /\ Below(Numbers(held'), Numbers(stream'))
      /\ Owing(stream') /\ Owing(held')
      /\ rest = Pending \ {l.number} /\ Below({l.number}, rest)
      /\ l.number \in Pending /\ l.number \in Nat
      /\ l.number \in owed <=> l.kind \in {"request", "garbage"}
  BY <1>1, TakenInLine
<1>4. Owing(stream)' /\ Owing(held)' /\ Rising(stream)' /\ Rising(held)'
  BY <1>2, <1>3 DEF Owing, Rising
<1>5. (Numbers(stream) \cup Numbers(held) \cup owed \subseteq 1 .. sent)'
  BY <1>2, <1>3 DEF InLine, Numbers
<1>6. Pending' = Opened' \cup rest
  BY PendingParts DEF Pending, Opened, Numbers
<1>7. CASE UNCHANGED exchange
  <2>1. Opened' = {}
    BY <1>2, <1>7 DEF Opened
  <2>2. InLine'
    BY <1>3, <1>4, <1>5, <2>1 DEF InLine, Below, Numbers
  <2>3. Pending' = Pending \ {l.number}
    BY <1>3, <1>6, <2>1
  <2>4. CASE l.kind \in {"request", "garbage"} /\ Answer(l)
    <3>1. Answering'
      BY <1>1, <1>2, <1>3, <1>6, <2>1, <2>3, <2>4, AnswerFirst DEF Answer
    <3> QED
      BY <2>2, <3>1
  <2>5. CASE l.kind \notin {"request", "garbage"} /\ UNCHANGED answers
    <3>1. {l.number} \cap owed = {}
      BY <1>3, <2>5
    <3>2. Answering'
      BY <1>2, <2>3, <2>5, <3>1, AnswersKept
    <3> QED
      BY <2>2, <3>2
  <2>6. CASE Skip(l)
    BY <2>5, <2>6 DEF Skip
  <2>7. CASE Initialize(l) \/ AnswerDirectly(l)
    BY <2>4, <2>7 DEF Initialize, AnswerDirectly
  <2>8. CASE ReturnState(l) \/ CallAfresh(l) \/ LegacyCall(l)
    BY <2>4, <2>8 DEF ReturnState, CallAfresh, LegacyCall, IsCall, Run, Decline
  <2>9. ~LegacyAsk(l)
    BY <1>2, <1>7 DEF LegacyAsk
  <2> QED
    BY <2>6, <2>7, <2>8, <2>9 DEF Serve
<1>8. CASE LegacyAsk(l)
  <2>1. /\ exchange'.open /\ exchange'.line = l /\ UNCHANGED answers
        /\ l.kind = "request"
    BY <1>8 DEF LegacyAsk, IsCall
  <2>2. Opened' = {l.number}
    BY <2>1 DEF Opened
  <2>3. Pending' = Pending \ {}
    BY <1>3, <1>6, <2>2
  <2>4. Answering'
    BY <1>2, <2>1, <2>3, AnswersKept
  <2>5. InLine'
    BY <1>2, <1>3, <1>4, <1>5, <2>1, <2>2 DEF InLine, Below, Numbers
  <2> QED
    BY <2>4, <2>5
<1> QED
  BY <1>1, <1>7, <1>8, ServeTyped

\* Both ways out of an exchange answer the call it held open, which is the
\* first line of all.
LEMMA ConcludeAnswers ==
    ASSUME Typed, InLine, Answering, exchange.open, NEW a, Conclude(a),
           stream' \in Seq(Line), Rising(stream'), Owing(stream'),
           NEW D, D \cap owed = {}, Numbers(stream') = Numbers(stream) \ D
    PROVE  InLine' /\ Answering'
<1>1. PICK l : l = exchange.line
  OBVIOUS
<1>2. /\ Answer(l) /\ answers \in Seq(Nat) /\ exchange' = NoExchange
      /\ UNCHANGED <<sent, held, owed>> /\ l.number \in Nat
  BY <1>1, OpenExchange, LineFields DEF Conclude, Run, Decline, Typed, McpTypeOK
<1>3. Opened = {l.number} /\ Opened' = {}
  BY <1>1, <1>2 DEF Opened, NoExchange
<1> DEFINE rest == Numbers(held) \cup Numbers(stream')
<1>4. /\ Pending = {l.number} \cup Numbers(held) \cup Numbers(stream)
      /\ Pending' = rest
  BY <1>2, <1>3, PendingParts
<1>5. /\ Below({l.number}, Numbers(held) \cup Numbers(stream))
      /\ \A n \in Numbers(held) \cup Numbers(stream) : n # l.number
  <2>1. Below({l.number}, Numbers(held) \cup Numbers(stream))
    BY <1>3 DEF InLine, Below
  <2> QED
    BY <1>2, <2>1, NumbersAreNaturals DEF Below
<1>6. InLine'
  <2>1. Owing(stream)' /\ Owing(held)'
    BY <1>2 DEF InLine, Owing
  <2>2. Below({}, Numbers(held)) /\ Below({} \cup Numbers(held), Numbers(stream'))
    BY DEF InLine, Below
  <2> QED
    BY <1>2, <1>3, <2>1, <2>2, InLineNext DEF InLine
<1>7. Answering'
  <2>1. l.number \in Pending \cap owed
    BY <1>3, <1>4 DEF InLine
  <2>2. Given' = Given \cup {l.number}
    <3>1. answers' = Append(answers, l.number)
      BY <1>2 DEF Answer
    <3>2. /\ DOMAIN answers' = DOMAIN answers \cup {Len(answers) + 1}
          /\ \A i \in DOMAIN answers : answers'[i] = answers[i]
          /\ answers'[Len(answers) + 1] = l.number /\ Len(answers) + 1 \notin DOMAIN answers
      BY <1>2, <3>1
    <3>3. ASSUME NEW m PROVE m \in Given' <=> m \in Given \cup {l.number}
      BY <3>2 DEF Given
    <3> QED
      BY <3>3
  <2>3. \A i, j \in DOMAIN answers' : i < j => answers'[i] < answers'[j]
    <3>1. /\ DOMAIN answers' = DOMAIN answers \cup {Len(answers) + 1} /\ Len(answers) \in Nat
          /\ \A i \in DOMAIN answers :
                answers'[i] = answers[i] /\ i < Len(answers) + 1 /\ i \in Nat
          /\ answers'[Len(answers) + 1] = l.number
      BY <1>2 DEF Answer
    <3>2. \A i \in DOMAIN answers : answers[i] < l.number
      BY <2>1 DEF Answering, Below, Given
    <3> SUFFICES ASSUME NEW i \in DOMAIN answers', NEW j \in DOMAIN answers', i < j
                 PROVE  answers'[i] < answers'[j]
      OBVIOUS
    <3>3. i \in DOMAIN answers
      BY <3>1
    <3> QED
      BY <3>1, <3>2, <3>3 DEF Answering
  <2>4. Below(Given', Pending')
    BY <1>4, <1>5, <2>2 DEF Answering, Below
  <2>5. Given' = owed' \ Pending'
    BY <1>2, <1>4, <1>5, <2>1, <2>2 DEF Answering
  <2> QED
    BY <2>3, <2>4, <2>5 DEF Answering
<1> QED
  BY <1>6, <1>7

LEMMA RespondAnswers ==
    ASSUME Typed, InLine, Answering, Respond \/ Abandon
    PROVE  InLine' /\ Answering'
<1>1. /\ stream \in Seq(Line) /\ Rising(stream) /\ Owing(stream)
      /\ exchange.open
  BY DEF Typed, McpTypeOK, InLine, Respond, Abandon
<1>2. CASE Respond
  <2>1. PICK l : l = Head(stream)
    OBVIOUS
  <2>2. stream # << >> /\ stream' = Tail(stream) /\ l.kind = "response"
    BY <1>2, <2>1 DEF Respond, IsResponse
  <2>3. PICK a : Conclude(a)
    BY <1>2 DEF Respond
  <2>4. /\ Tail(stream) \in Seq(Line) /\ Rising(Tail(stream)) /\ Owing(Tail(stream))
        /\ Numbers(stream) = {l.number} \cup Numbers(Tail(stream))
        /\ Below({l.number}, Numbers(Tail(stream))) /\ l.number \in Nat
        /\ l.number \notin owed
    BY <1>1, <2>1, <2>2, FirstLine
  <2>5. l.number \notin Numbers(Tail(stream))
    BY <2>4 DEF Below
  <2>6. {l.number} \cap owed = {} /\ Numbers(stream') = Numbers(stream) \ {l.number}
    BY <2>2, <2>4, <2>5
  <2> QED
    BY <1>1, <2>2, <2>3, <2>4, <2>6, ConcludeAnswers
<1>3. CASE Abandon
  <2>1. Conclude("none") /\ stream' = stream
    BY <1>3 DEF Abandon
  <2>2. {} \cap owed = {} /\ Numbers(stream') = Numbers(stream) \ {}
    BY <2>1
  <2> QED
    BY <1>1, <2>1, <2>2, ConcludeAnswers
<1> QED
  BY <1>2, <1>3

\* A line that is read past the exchange keeps its place, or expects no answer.
LEMMA ReadPastAnswers ==
    ASSUME Typed, InLine, Answering, ReadPast
    PROVE  InLine' /\ Answering'
<1>1. PICK l : l = Head(stream)
  OBVIOUS
<1>2. /\ stream \in Seq(Line) /\ held \in Seq(Line) /\ stream # << >>
      /\ stream' = Tail(stream) /\ held' = held \o HoldOthers(l)
      /\ UNCHANGED <<sent, exchange, answers, owed>>
  BY <1>1 DEF Typed, McpTypeOK, ReadPast, historyVars
<1>3. /\ l \in Line /\ l.number \in Nat
      /\ Tail(stream) \in Seq(Line) /\ Rising(Tail(stream)) /\ Owing(Tail(stream))
      /\ Numbers(stream) = {l.number} \cup Numbers(Tail(stream))
      /\ Below({l.number}, Numbers(Tail(stream)))
      /\ l.number \in owed <=> l.kind \in {"request", "garbage"}
  BY <1>1, <1>2, FirstLine DEF InLine
<1>4. /\ Opened' = Opened
      /\ Pending = Opened \cup Numbers(held) \cup Numbers(stream)
      /\ Pending' = Opened \cup Numbers(held') \cup Numbers(stream')
  BY <1>2, PendingParts DEF Pending, Opened, Numbers
<1>5. /\ Below(Opened \cup Numbers(held), {l.number})
      /\ \A n \in Opened \cup Numbers(held) \cup Numbers(Tail(stream)) : n # l.number
  <2>1. Below(Opened \cup Numbers(held), {l.number})
    BY <1>3 DEF InLine, Below
  <2> QED
    BY <1>3, <2>1, NumbersAreNaturals DEF Below
<1>6. CASE l.kind \in {"blank", "response"}
  <2>1. held' = held
    BY <1>2, <1>6 DEF HoldOthers
  <2>2. InLine'
    <3>1. Owing(stream)' /\ Owing(held)'
      BY <1>2, <1>3, <2>1 DEF InLine, Owing
    <3>2. Below(Opened \cup Numbers(held), Numbers(stream'))
      BY <1>2, <1>3 DEF InLine, Below
    <3> QED
      BY <1>2, <1>3, <1>4, <2>1, <3>1, <3>2, InLineNext DEF InLine
  <2>3. {l.number} \cap owed = {} /\ Pending' = Pending \ {l.number}
    BY <1>2, <1>3, <1>4, <1>5, <1>6, <2>1
  <2> QED
    BY <1>2, <2>2, <2>3, AnswersKept
<1>7. CASE l.kind \notin {"blank", "response"}
  <2>1. held' = Append(held, l)
    BY <1>2, <1>3, <1>7 DEF HoldOthers
  <2>2. Rising(held') /\ Numbers(held') = Numbers(held) \cup {l.number}
    BY <1>2, <1>3, <1>5, <2>1, LastLine DEF InLine, Below
  <2>3. Owing(held')
    BY <1>2, <1>3, <2>1 DEF InLine, Owing
  <2>4. InLine'
    <3>1. Owing(stream)' /\ Owing(held)'
      BY <1>2, <1>3, <2>3 DEF Owing
    <3>2. Numbers(stream') \cup Numbers(held') \cup owed' \subseteq 1 .. sent'
      BY <1>2, <1>3, <2>2 DEF InLine
    <3>3. /\ Below(Opened', Numbers(held'))
          /\ Below(Opened' \cup Numbers(held'), Numbers(stream'))
      BY <1>2, <1>3, <1>4, <1>5, <2>2 DEF InLine, Below
    <3> QED
      BY <1>2, <1>3, <1>4, <2>2, <3>1, <3>2, <3>3, InLineNext DEF InLine
  <2>5. {} \cap owed = {} /\ Pending' = Pending \ {}
    BY <1>2, <1>3, <1>4, <2>2
  <2> QED
    BY <1>2, <2>4, <2>5, AnswersKept
<1> QED
  BY <1>6, <1>7

\* A line that is sent stands behind every other.
LEMMA SendAnswers ==
    ASSUME Typed, InLine, Answering, NEW k \in Lines, Send(k)
    PROVE  InLine' /\ Answering'
<1>1. /\ stream \in Seq(Line) /\ held \in Seq(Line) /\ sent \in Nat /\ k \in Line
      /\ sent' = sent + 1 /\ UNCHANGED <<held, exchange, answers>>
  BY LinesAssumption DEF Typed, McpTypeOK, Send
<1>2. PICK l \in Line : stream' = Append(stream, l) /\ l.number = sent + 1 /\ l.kind = k.kind
  <2>1. PICK b \in IF k.state = "issued" THEN DOMAIN minted ELSE {0} :
           stream' = Append(stream, [k EXCEPT !.blob = b, !.number = sent + 1])
    BY DEF Send
  <2>2. b \in Nat
    BY <2>1 DEF Typed, McpTypeOK, ContinuationTypeOK
  <2>3. PICK n : n = sent + 1
    OBVIOUS
  <2> DEFINE m == [k EXCEPT !.blob = b, !.number = n]
  <2>4. m \in Line /\ m.number = n /\ m.kind = k.kind
    <3>1. n \in Nat
      BY <1>1, <2>3
    <3> QED
      BY <1>1, <2>2, <3>1 DEF Line
  <2> HIDE DEF m
  <2>5. stream' = Append(stream, m)
    BY <2>1, <2>3 DEF m
  <2> QED
    BY <2>3, <2>4, <2>5
<1>3. owed' = IF l.kind \in {"request", "garbage"} THEN owed \cup {sent + 1} ELSE owed
  BY <1>2 DEF Send
<1>4. \A n \in Opened \cup Numbers(held) \cup Numbers(stream) \cup owed \cup Given :
         n \in 1 .. sent /\ n < sent + 1 /\ n # sent + 1
  BY <1>1 DEF InLine, Answering
<1>5. /\ Rising(stream') /\ Numbers(stream') = Numbers(stream) \cup {sent + 1}
  BY <1>1, <1>2, <1>4, LastLine DEF InLine, Below
<1>6. /\ Opened' = Opened
      /\ Pending = Opened \cup Numbers(held) \cup Numbers(stream)
      /\ Pending' = Opened \cup Numbers(held) \cup Numbers(stream')
  BY <1>1, PendingParts DEF Pending, Opened, Numbers
<1>7. Owing(stream)' /\ Owing(held)'
  <2>1. /\ DOMAIN stream' = DOMAIN stream \cup {Len(stream) + 1}
        /\ \A i \in DOMAIN stream : stream'[i] = stream[i]
        /\ stream'[Len(stream) + 1] = l
    BY <1>1, <1>2
  <2>2. sent + 1 \notin owed /\ (sent + 1 \in owed' <=> l.kind \in {"request", "garbage"})
    BY <1>3, <1>4
  <2>3. \A n \in Numbers(stream) \cup Numbers(held) : n \in owed' <=> n \in owed
    BY <1>3, <1>4
  <2>4. ASSUME NEW i \in DOMAIN stream
        PROVE  stream[i].number \in owed' <=> stream[i].kind \in {"request", "garbage"}
    BY <2>3 DEF InLine, Owing, Numbers
  <2>5. ASSUME NEW i \in DOMAIN held
        PROVE  held[i].number \in owed' <=> held[i].kind \in {"request", "garbage"}
    BY <2>3 DEF InLine, Owing, Numbers
  <2> QED
    BY <1>1, <1>2, <2>1, <2>2, <2>4, <2>5 DEF Owing
<1>8. InLine'
  <2>1. Rising(stream') /\ Rising(held')
    BY <1>1, <1>5 DEF InLine
  <2>2. Numbers(stream') \cup Numbers(held') \cup owed' \subseteq 1 .. sent'
    <3>1. \A n \in 1 .. sent : n \in 1 .. (sent + 1)
      BY <1>1
    <3> QED
      BY <1>1, <1>3, <1>5, <3>1 DEF InLine
  <2>3. /\ Below(Opened', Numbers(held'))
        /\ Below(Opened' \cup Numbers(held'), Numbers(stream'))
    BY <1>1, <1>4, <1>5, <1>6 DEF InLine, Below
  <2>4. Opened' \subseteq owed'
    BY <1>3, <1>6 DEF InLine
  <2> QED
    BY <1>7, <2>1, <2>2, <2>3, <2>4, InLineNext
<1>9. Answering'
  <2>1. Given' = Given
    BY <1>1 DEF Given
  <2>2. Below(Given', Pending')
    BY <1>4, <1>5, <1>6, <2>1 DEF Answering, Below
  <2>3. Given' = owed' \ Pending'
    BY <1>3, <1>4, <1>5, <1>6, <2>1 DEF Answering
  <2> QED
    BY <1>1, <2>2, <2>3 DEF Answering
<1> QED
  BY <1>8, <1>9

LEMMA AnswersStep ==
    ASSUME Typed, InLine, Answering, [McpNext]_vars
    PROVE  InLine' /\ Answering'
<1>1. CASE UNCHANGED <<stream, sent, held, exchange, owed, answers>>
  <2>1. InLine'
    BY <1>1 DEF InLine, Rising, Below, Opened, Numbers, Owing
  <2>2. Pending' = Pending \ {} /\ {} \cap owed = {}
    BY <1>1 DEF Pending
  <2> QED
    BY <1>1, <2>1, <2>2, AnswersKept
<1>2. CASE Stop \/ CloseStream \/ Tick \/ UNCHANGED vars
  BY <1>1, <1>2 DEF Stop, CloseStream, Tick, vars, loopVars, historyVars
<1>3. CASE Source # << >> /\ Serve(Head(Source))
  <2>1. PICK l : l = Head(Source)
    OBVIOUS
  <2> QED
    BY <1>3, <2>1, ServeAnswers
<1>4. CASE \E l \in Lines : Send(l)
  BY <1>4, SendAnswers
<1> QED
  BY <1>2, <1>3, <1>4, RespondAnswers, ReadPastAnswers DEF McpNext, ServerActs

\* Every request, and every line that is no message, is answered once and in
\* the order it was sent, also across a confirmation that reads past the lines
\* behind it; what has no answer yet is still waiting (serveMcp(), awaitResponse()).
THEOREM EachIsAnsweredOnce == McpSpec => []OneAnswerEach
<1> DEFINE Inv == Typed /\ InLine /\ Answering
<1>1. McpInit => Inv
  <2> SUFFICES ASSUME McpInit PROVE Inv
    OBVIOUS
  <2>1. /\ stream = << >> /\ held = << >> /\ owed = {} /\ answers = << >> /\ sent = 0
        /\ ~exchange.open
    BY DEF McpInit, NoExchange
  <2>2. Numbers(stream) = {} /\ Numbers(held) = {} /\ Opened = {} /\ Given = {}
    BY <2>1 DEF Numbers, Opened, Given
  <2>3. InLine
    BY <2>1, <2>2 DEF InLine, Rising, Below, Owing
  <2>4. Answering
    BY <2>1, <2>2 DEF Answering, Below
  <2> QED
    BY <2>3, <2>4, InitTyped
<1>2. Inv /\ [McpNext]_vars => Inv'
  BY TypedStep, AnswersStep
<1>3. Inv => OneAnswerEach
  BY DEF Answering, Given, OneAnswerEach
<1> QED
  BY <1>1, <1>2, <1>3, PTL DEF McpSpec
=============================================================================
