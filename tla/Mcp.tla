-------------------------------- MODULE Mcp --------------------------------
(***************************************************************************)
(* The MCP server of one process (serveMcp in mcp.ts): a loop that reads a *)
(* line, serves it and answers, in two eras.  A modern request carries its *)
(* own declaration, and a consequential call that needs a confirmation is  *)
(* answered with a blob the client sends back with the answer.  A legacy   *)
(* session is opened by `initialize`; there the server asks by a request   *)
(* of its own, under the blob as its id, and reads the stream for the      *)
(* response while it holds every other line for later.                     *)
(*                                                                         *)
(* The client is the environment: it sends any line at any time, and any   *)
(* blob it has ever seen.  Running a command is part of the step that      *)
(* serves the call: nothing else reads the loop's state meanwhile.         *)
(***************************************************************************)
EXTENDS Continuation

CONSTANTS
    Commands,       \* the names resolveCommand() finds
    Listed,         \* those that are neither hidden nor interactive
    Consequential,  \* those that need consent
    Lines,          \* the lines a client may send, but for their blob
    MaxLines,       \* bound on the lines sent
    MaxTime         \* bound on the clock

Methods == {"initialize", "tools/call", "tools/list", "server/discover", "other"}
Line == [kind : {"blank", "garbage", "notification", "response", "request"},
         method : Methods,
         meta : {"none", "malformed", "unsupported", "valid"},
         good : BOOLEAN,         \* the members of params have their types
         call : Call,
         client : Principals,    \* of _meta, or of initialize
         capable : BOOLEAN,      \* declares a form elicitation
         consent : BOOLEAN,      \* approve_consequential
         state : {"none", "forged", "issued"},
         blob : Nat,             \* the blob of an issued state
         answer : {"none", "empty", "accept", "reject", "malformed", "error"},
         number : Nat]           \* its place in the stream

ASSUME NamesAssumption ==
    Listed \subseteq Commands /\ Consequential \subseteq Commands /\ Commands \subseteq Names
ASSUME LinesAssumption == Lines \subseteq Line
ASSUME BoundsAssumption == MaxLines \in Nat /\ MaxTime \in Nat

VARIABLES
    stream,    \* what the client has sent and the server has not read
    sent,      \* how many lines it has sent
    closed,    \* the client has closed the stream
    held,      \* McpChannel.#held
    session,   \* McpLegacySession
    exchange,  \* the confirmation the loop awaits
    stopped,   \* serveMcp() has returned
    owed,      \* the numbers of the lines that expect an answer
    answers,   \* the numbers answered, in order
    asked,     \* the blobs the legacy era issued
    ran        \* the calls that reached their handler, with their consent

historyVars == <<owed, answers, asked, ran>>
loopVars == <<stream, sent, closed, held, session, exchange, stopped, historyVars>>
vars == <<loopVars, continuationVars>>

NoExchange == [open |-> FALSE]
Execution == [line : Line, by : {"none", "flag", "answer"}, blob : Nat]

McpTypeOK ==
    /\ ContinuationTypeOK
    /\ stream \in Seq(Line) /\ held \in Seq(Line)
    /\ sent \in Nat /\ closed \in BOOLEAN /\ stopped \in BOOLEAN
    /\ session \in [active : BOOLEAN, capable : BOOLEAN, client : Principals]
    /\ exchange \in {NoExchange} \cup
                    [open : {TRUE}, line : Line, principal : Principals, blob : Nat]
    /\ owed \subseteq Nat /\ asked \subseteq DOMAIN minted
    /\ answers \in Seq(Nat)
    /\ ran \in SUBSET Execution

-----------------------------------------------------------------------------
(* The client, the clock and the channel.                                  *)

Send(l) ==
    /\ ~closed /\ sent < MaxLines
    /\ \E b \in IF l.state = "issued" THEN DOMAIN minted ELSE {0} :
           stream' = Append(stream, [l EXCEPT !.blob = b, !.number = sent + 1])
    /\ sent' = sent + 1
    /\ owed' = IF l.kind \in {"request", "garbage"} THEN owed \cup {sent + 1} ELSE owed
    /\ UNCHANGED <<closed, held, session, exchange, stopped, answers, asked, ran>>
    /\ UNCHANGED continuationVars

CloseStream ==
    /\ ~closed
    /\ closed' = TRUE
    /\ UNCHANGED <<stream, sent, held, session, exchange, stopped, historyVars>>
    /\ UNCHANGED continuationVars

Tick ==
    /\ now < MaxTime
    /\ Elapse
    /\ UNCHANGED loopVars

\* nextLine(): what was held first, then the stream.
Source == IF held # << >> THEN held ELSE stream
Taken(l) ==
    /\ ~exchange.open /\ ~stopped
    /\ Source # << >>
    /\ l = Head(Source)
    /\ IF Source = held
       THEN held' = Tail(held) /\ UNCHANGED stream
       ELSE stream' = Tail(stream) /\ UNCHANGED held
    /\ UNCHANGED <<sent, closed, stopped, owed>>

Answer(l) == answers' = Append(answers, l.number)

-----------------------------------------------------------------------------
(* Requests that change nothing beside their answer.                       *)

Skip(l) ==
    /\ Taken(l)
    /\ l.kind \in {"blank", "notification", "response"}
    /\ UNCHANGED <<session, exchange, answers, asked, ran, continuationVars>>

\* The session is the client's declaration for every later request of its era.
Initialize(l) ==
    /\ Taken(l)
    /\ l.kind = "request" /\ l.method = "initialize"
    /\ session' = [active |-> TRUE, capable |-> l.capable, client |-> l.client]
    /\ Answer(l)
    /\ UNCHANGED <<exchange, asked, ran, continuationVars>>

Era(l) == IF l.meta = "valid" THEN "modern"
          ELSE IF l.meta = "none" /\ session.active THEN "legacy"
          ELSE "refused"
IsCall(l) ==
    /\ l.kind = "request" /\ l.method = "tools/call" /\ Era(l) # "refused" /\ l.good

\* A parse error, refused metadata or parameters, a list, a discovery, a
\* method that is not there.
AnswerDirectly(l) ==
    /\ Taken(l)
    /\ l.kind \in {"garbage", "request"}
    /\ l.method # "initialize" \/ l.kind = "garbage"
    /\ ~IsCall(l)
    /\ Answer(l)
    /\ UNCHANGED <<session, exchange, asked, ran, continuationVars>>

-----------------------------------------------------------------------------
(* Calls.                                                                  *)

\* The consent check of invokeApp().
MayRun(l, by) ==
    /\ l.call.tool \in Commands
    /\ l.call.tool \in Consequential => by # "none"

\* app.call(): a refused call, or one whose arguments its declaration
\* refuses, is answered without reaching the handler.
Run(l, by, blob) ==
    /\ \/ UNCHANGED ran
       \/ MayRun(l, by) /\ ran' = ran \cup {[line |-> l, by |-> by, blob |-> blob]}
    /\ Answer(l)

Decline(l) == Answer(l) /\ UNCHANGED ran

\* confirmationRequest() asks only about commands collectToolCommands() lists.
AsksFor(l) == l.call.tool \in Listed \cap Consequential

\* confirmationExchange(), on a call that brings a state back: it is verified,
\* and spent, before the answer is read.
ReturnState(l) ==
    /\ Taken(l)
    /\ IsCall(l) /\ Era(l) = "modern" /\ l.state # "none"
    /\ IF l.state = "forged"
       THEN Decline(l) /\ UNCHANGED continuationVars
       ELSE /\ Present(l.blob, l.client, l.call)
            /\ UNCHANGED now
            /\ IF ~Verifies(l.blob, l.client, l.call) \/ l.answer \in {"reject", "malformed"}
               THEN Decline(l) /\ UNCHANGED minted
               ELSE IF l.answer = "accept"
               THEN Run(l, "answer", l.blob) /\ UNCHANGED minted
               ELSE Decline(l) /\ Mint(l.client, l.call)
    /\ UNCHANGED <<session, exchange, asked>>

\* The same on a call without a state: an answer alone is refused, and a
\* client that can render the question is asked.
CallAfresh(l) ==
    /\ Taken(l)
    /\ IsCall(l) /\ Era(l) = "modern" /\ l.state = "none"
    /\ IF l.answer # "none" THEN Decline(l) /\ UNCHANGED minted
       ELSE IF l.consent THEN Run(l, "flag", 0) /\ UNCHANGED minted
       ELSE IF ~AsksFor(l) THEN Run(l, "none", 0) /\ UNCHANGED minted
       ELSE /\ Decline(l)
            /\ IF l.capable THEN Mint(l.client, l.call) ELSE UNCHANGED minted
    /\ UNCHANGED <<session, exchange, asked, consumed, accepted, now>>

LegacyAsks(l) == ~l.consent /\ AsksFor(l) /\ session.capable

LegacyCall(l) ==
    /\ Taken(l)
    /\ IsCall(l) /\ Era(l) = "legacy" /\ ~LegacyAsks(l)
    /\ Run(l, IF l.consent THEN "flag" ELSE "none", 0)
    /\ UNCHANGED <<session, exchange, asked, continuationVars>>

\* legacyConfirmation() up to its await.
LegacyAsk(l) ==
    /\ Taken(l)
    /\ IsCall(l) /\ Era(l) = "legacy" /\ LegacyAsks(l)
    /\ Mint(session.client, l.call)
    /\ exchange' = [open |-> TRUE, line |-> l, principal |-> session.client,
                    blob |-> Len(minted) + 1]
    /\ asked' = asked \cup {Len(minted) + 1}
    /\ UNCHANGED <<session, answers, ran, consumed, accepted, now>>

\* awaitResponse() reads only the stream.
IsResponse(l) ==
    l.kind = "response" /\ l.state = "issued" /\ l.blob = exchange.blob

DropOthers(l) == << >> \* mutated: every other line is dropped
HoldOthers(l) == IF l.kind \in {"blank", "response"} THEN << >> ELSE <<l>>

ReadPast ==
    /\ exchange.open /\ stream # << >>
    /\ ~IsResponse(Head(stream))
    /\ held' = held \o HoldOthers(Head(stream))
    /\ stream' = Tail(stream)
    /\ UNCHANGED <<sent, closed, session, exchange, stopped, historyVars>>
    /\ UNCHANGED continuationVars

\* Every way out of an exchange presents its blob first.
PresentResult(answer) == \* mutated: a non-answer leaves the blob live
    IF answer \in {"error", "none"} THEN UNCHANGED <<consumed, accepted>>
    ELSE Present(exchange.blob, exchange.principal, exchange.line.call)
PresentAnswered(answer) ==
    Present(exchange.blob, exchange.principal, exchange.line.call)

Conclude(answer) ==
    /\ PresentAnswered(answer)
    /\ IF /\ answer = "accept"
          /\ Verifies(exchange.blob, exchange.principal, exchange.line.call)
       THEN Run(exchange.line, "answer", exchange.blob)
       ELSE Decline(exchange.line)
    /\ exchange' = NoExchange
    /\ UNCHANGED <<sent, closed, held, session, stopped, owed, asked, minted, now>>

Respond ==
    /\ exchange.open /\ stream # << >>
    /\ IsResponse(Head(stream))
    /\ Conclude(Head(stream).answer)
    /\ stream' = Tail(stream)

StreamEnds == closed /\ stream = << >>

AbandonNever == FALSE \* mutated: the end of the stream is not seen
\* A stream that ends before the answer is a refusal.
Abandon ==
    /\ exchange.open /\ StreamEnds
    /\ Conclude("none")
    /\ UNCHANGED stream

Stop ==
    /\ ~exchange.open /\ ~stopped
    /\ StreamEnds /\ held = << >>
    /\ stopped' = TRUE
    /\ UNCHANGED <<stream, sent, closed, held, session, exchange, historyVars>>
    /\ UNCHANGED continuationVars

-----------------------------------------------------------------------------
McpInit ==
    /\ ContinuationInit
    /\ stream = << >> /\ sent = 0 /\ closed = FALSE /\ held = << >>
    /\ session \in [active : {FALSE}, capable : {FALSE}, client : Principals]
    /\ exchange = NoExchange /\ stopped = FALSE
    /\ owed = {} /\ answers = << >> /\ asked = {} /\ ran = {}

Serve(l) ==
    \/ Skip(l) \/ Initialize(l) \/ AnswerDirectly(l)
    \/ ReturnState(l) \/ CallAfresh(l) \/ LegacyCall(l) \/ LegacyAsk(l)

ServerActs ==
    \/ Source # << >> /\ Serve(Head(Source))
    \/ ReadPast \/ Respond \/ Abandon \/ Stop

McpNext ==
    \/ ServerActs
    \/ \E l \in Lines : Send(l)
    \/ CloseStream
    \/ Tick

McpSpec == McpInit /\ [][McpNext]_vars
FairMcpSpec == McpSpec /\ WF_vars(ServerActs)

-----------------------------------------------------------------------------
(* Properties.                                                             *)

Pending == {stream[i].number : i \in DOMAIN stream} \cup {held[i].number : i \in DOMAIN held}
               \cup (IF exchange.open THEN {exchange.line.number} ELSE {})

\* Every request, and every line that is no message, is answered once, in the
\* order it was sent, and none is lost: what has no answer yet is still in the
\* stream, held, or the call that is being confirmed ("the loop stays one
\* request at a time, and no client line is dropped").
OneAnswerEach ==
    /\ \A i, j \in DOMAIN answers : i < j => answers[i] < answers[j]
    /\ {answers[i] : i \in DOMAIN answers} = owed \ Pending

\* A consequential command runs only with a consent for exactly that call: the
\* flag in its own request, or an answer to a question that was asked of this
\* client about this tool with these arguments.
ConsentIsForTheCall ==
    \A e \in ran : e.line.call.tool \in Consequential =>
        \/ e.by = "flag" /\ e.line.consent
        \/ /\ e.by = "answer" /\ e.blob \in DOMAIN minted
           /\ minted[e.blob].call = e.line.call
           /\ e.line.meta = "valid" => minted[e.blob].principal = e.line.client

\* A question of the legacy era answers only the call it held open: whichever
\* way that exchange ended, its blob approves no modern request afterwards.
RefusalStands ==
    \A e \in ran : e.by = "answer" /\ e.line.meta = "valid" => e.blob \notin asked

\* When the client closes the stream the loop ends, also in the middle of a
\* confirmation; with OneAnswerEach, everything it was asked is answered then.
EndIsReached == closed ~> stopped
=============================================================================
