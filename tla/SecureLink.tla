------------------------------ MODULE SecureLink ------------------------------
(***************************************************************************)
(* The sender and the gateway over the network: the modules Sender and     *)
(* Gateway, with datagrams between them that may be lost or overtake each  *)
(* other, and a gateway whose address may be another one after a restart.  *)
(***************************************************************************)
EXTENDS Integers, Sequences, SequencesExt, FiniteSets

CONSTANTS
    \* of Sender
    Addresses, NoAddress, Broadcast, SenderId, Provisioned, MaxAttempts,
    RefreshAfter, FlashFaults, MaxIssued, Capacity,
    \* of Gateway
    Kinds, TableSize, Modulus, WindowMs, BlockMs, FailsToBlock, Limit,
    MaxMessages, CacheSize, NoNonce, MaxKeys, MaxForgotten,
    Peers, Datagrams, AllowedSender, Horizon,
    \* of the network
    SenderAddress,  \* the address of the sender, as the gateway sees it
    MaxMoves        \* bound on the changes of the gateway's address

VARIABLES
    step, state, saved, gw, failures, request, attempt, gateway_pk, issued,
    confirmed, outbox,
    mode, store, flash, cache, cache_next, guards, now, keys_made,
    accepted, uses, forgotten,
    reply,          \* the gateway's answer, on its way to the sender
    address,        \* the gateway's address
    moves,          \* how often it has changed
    taken           \* history: messages the gateway has ever accepted

S == INSTANCE Sender

G == INSTANCE Gateway

\* The sender is the gateway's one source, and one it allows.  Datagrams
\* gives the gateway's type invariant the numbers and nonces of the posts.
\* The gateway's clock is moved by TimePasses alone.
ASSUME LinkAssumption ==
    /\ NoAddress \notin Addresses
    /\ Broadcast \notin Addresses
    /\ MaxAttempts \in Nat \ {0}
    /\ RefreshAfter \in Nat \ {0}
    /\ FlashFaults \in BOOLEAN
    /\ MaxIssued \in Nat
    /\ Capacity \in Nat \ {0}
    /\ Peers = {SenderAddress}
    /\ AllowedSender = SenderId
    /\ Datagrams = {[kind |-> "data", sequence |-> n, nonce |-> n] : n \in 1..MaxIssued}
    /\ Horizon = 0
    /\ MaxMoves \in Nat
    /\ G!GuardAssumption
    /\ G!GatewayAssumption

sender == <<step, state, saved, gw, failures, request, attempt, gateway_pk,
            issued, confirmed>>
gateway == <<mode, store, flash, cache, cache_next, guards, now, keys_made,
             accepted, uses, forgotten>>
link == <<address, moves>>
vars == <<sender, outbox, reply, gateway, link, taken>>

TypeOK ==
    /\ S!TypeOK
    /\ G!TypeOK
    /\ address \in Addresses
    /\ moves \in 0..MaxMoves
    /\ taken \subseteq 1..issued

Init ==
    /\ S!Init
    /\ G!Init
    /\ address \in Addresses
    /\ moves = 0
    /\ taken = {}

-----------------------------------------------------------------------------
\* The rate limits are far above what one sender asks for, and PeerGuard is
\* about them.  Here time passes with the steps of the sender so that the
\* gateway's next request falls in a new window.
TimePasses ==
    now' = IF mode = "listening" /\ now = guards[SenderAddress].window_start
           THEN (now + 1) % Modulus
           ELSE now

SenderStep ==
    /\ S!Next
    /\ TimePasses
    /\ UNCHANGED <<mode, store, flash, cache, cache_next, guards, keys_made,
                   accepted, uses, forgotten, moves, taken>>

\* A datagram reaches the gateway.  Its answer displaces one still under way,
\* which is lost.
DeliverTo(destinations) ==
    \E i \in DOMAIN outbox :
        LET d == outbox[i].datagram
        IN  /\ outbox[i].to \in destinations
            /\ G!Receive(SenderAddress, d)
            /\ outbox' = RemoveAt(outbox, i)
            /\ taken' = IF accepted' = accepted THEN taken ELSE taken \cup {d.nonce}
            /\ UNCHANGED <<sender, link>>

Deliver == DeliverTo({address, Broadcast})

LoseDatagram ==
    /\ \E i \in DOMAIN outbox : outbox' = RemoveAt(outbox, i)
    /\ UNCHANGED <<sender, reply, gateway, link, taken>>

LoseReply ==
    /\ reply # G!NoReply
    /\ reply' = G!NoReply
    /\ UNCHANGED <<sender, outbox, gateway, link, taken>>

\* The gateway's power; it may get another address before it starts again.
GatewayPower ==
    /\ G!Power
    /\ UNCHANGED <<sender, outbox, link, taken>>

Move ==
    /\ mode = "off"
    /\ moves < MaxMoves
    /\ moves' = moves + 1
    /\ address' \in Addresses \ {address}
    /\ UNCHANGED <<sender, outbox, reply, gateway, taken>>

Next ==
    \/ SenderStep
    \/ Deliver
    \/ LoseDatagram
    \/ LoseReply
    \/ GatewayPower
    \/ Move

Spec == Init /\ [][Next]_vars

\* The waits of the sender come to an end; of the broadcasts sent again and
\* again one gets through, within the five seconds that the sender waits for
\* its answer, to a gateway that runs, and so does one of the answers.
FairSpec ==
    /\ Spec
    /\ WF_vars(SenderStep /\ S!Waited)
    /\ SF_vars(DeliverTo({Broadcast}) /\ step \in S!Discovering)
    /\ SF_vars(S!Discovered /\ SenderStep)

-----------------------------------------------------------------------------
(* Properties *)

Promise == INSTANCE Delivery WITH
                taken <- {accepted[i].nonce : i \in DOMAIN accepted},
                ever_taken <- taken

\* The two boards with retries, losses, overtaking, restarts and failing
\* saves implement what Delivery promises: in particular, an OK that the
\* sender takes for the answer to a message was the gateway's answer to that
\* message (msg_id matching in recv_coap_response and the replay checks).
KeepsPromise == Promise!Spec

\* A sender whose saves work is never blocked by the gateway, however many
\* answers are lost: its retries of a message that was taken, or that was
\* sealed for a keypair since lost, are recorded as failures, but too few of
\* them, as long as no more datagrams are under way than FailsToBlock exceeds
\* MaxAttempts by: with the code's three attempts and four failures, one.
NeverBlocked == guards[SenderAddress].blocked_until = 0

\* When the message being sent is refused as a replay, it was taken earlier:
\* the sender reports SEND_FAILED for it, yet nothing was lost.
ReplayMeansTaken ==
    (step = "data" /\ S!Matches /\ reply.body.tag = "REPLAY_SEQ") => issued \in taken

Located == gw = address \/ step \in {"off", "stopped"}

\* A gateway that keeps running, wherever it moved, is found by a sender that
\* keeps running: the failed cycles lead to a refresh of the address, and a
\* refresh that fails to the next (task_sender, resolve_gateway_address).
GatewayIsFound == <>[](mode = "listening") => []<>Located

\* The saved address as the fallback of every resolution: a sender that has
\* sent a message has an address to go on with.
FallbackKept ==
    (step \in {"idle"} \cup S!Asking /\ issued > 0) => gw # NoAddress
=============================================================================
