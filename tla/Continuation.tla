---------------------------- MODULE Continuation ----------------------------
(***************************************************************************)
(* The continuation store of the MCP server (McpContinuation in mcp.ts):   *)
(* blobs that bind a principal, a call and an expiry, each good for one    *)
(* verification.  The state travels through the client, so what the server *)
(* keeps is only which blobs are spent, and it forgets them once they have *)
(* expired.                                                                *)
(*                                                                         *)
(* A blob is the index of its payload in `minted`: the MAC makes any other *)
(* text fail verification, and the random id makes no two alike.           *)
(***************************************************************************)
EXTENDS Integers, Sequences

CONSTANTS
    TTL,         \* MCP_CONTINUATION_TTL_SECONDS
    Principals,  \* the clients, as they declare themselves
    Names,       \* the names a client may call, known or not
    Args         \* the arguments, up to canonicalJson()

ASSUME TTLAssumption == TTL \in Nat \ {0}

VARIABLES
    minted,    \* the payloads issued so far
    consumed,  \* the spent blobs the server still remembers
    accepted,  \* each verification that passed, in order
    now        \* Date.now() in whole seconds

continuationVars == <<minted, consumed, accepted, now>>

Call == [tool : Names, args : Args]
Payload == [principal : Principals, call : Call, expiry : Nat]
Acceptance == [blob : Nat, principal : Principals, call : Call, moment : Nat]

ContinuationTypeOK ==
    /\ minted \in Seq(Payload)
    /\ consumed \in SUBSET DOMAIN minted
    /\ accepted \in Seq(Acceptance)
    /\ now \in Nat

ContinuationInit == minted = << >> /\ consumed = {} /\ accepted = << >> /\ now = 0

MintBackwards(principal, call) == \* mutated: the window lies in the past
    minted' = Append(minted, [principal |-> principal, call |-> call, expiry |-> now - TTL])
Mint(principal, call) ==
    minted' = Append(minted, [principal |-> principal, call |-> call, expiry |-> now + TTL])

Expired(b) == minted[b].expiry <= now

\* #prune(): forgets the ids that can no longer be replayed.
RememberedExpired == {b \in consumed : Expired(b)} \* mutated: forgets the others
Remembered == {b \in consumed : ~Expired(b)}

MatchesPrincipal(b, principal, call) == minted[b].principal = principal \* mutated: req is not compared
Matches(b, principal, call) ==
    minted[b].principal = principal /\ minted[b].call = call

\* verify(): the checks of a blob of this process, in their order of effect.
Verifies(b, principal, call) ==
    /\ ~Expired(b)
    /\ Matches(b, principal, call)
    /\ b \notin Remembered

\* A blob that passes is consumed; a failed presentation only prunes.
Present(b, principal, call) ==
    IF Verifies(b, principal, call)
    THEN /\ consumed' = Remembered \cup {b}
         /\ accepted' = Append(accepted, [blob |-> b, principal |-> principal,
                                          call |-> call, moment |-> now])
    ELSE consumed' = Remembered /\ UNCHANGED accepted

Elapse == now' = now + 1 /\ UNCHANGED <<minted, consumed, accepted>>

-----------------------------------------------------------------------------
\* "unusable twice inside it": no blob passes verification twice, although the
\* server forgets the blobs it has seen.
SingleUse ==
    \A i, j \in DOMAIN accepted : accepted[i].blob = accepted[j].blob => i = j
=============================================================================
