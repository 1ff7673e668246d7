-------------------------------- MODULE Sender --------------------------------
(***************************************************************************)
(* The sender firmware: the task task_sender, which resolves the gateway's *)
(* address and then, for ever, runs secure send cycles.  A cycle asks for  *)
(* the gateway's public key, checks its fingerprint, asks for the key's    *)
(* metadata, seals a message for the key and posts it.  A cycle waits for  *)
(* one answer at a time, so the state between two steps is the request     *)
(* that is out and how often it was sent.                                  *)
(*                                                                         *)
(* Datagrams to the gateway go to outbox, and reply is the answer under    *)
(* way to the sender; what becomes of them is left to the module that      *)
(* composes this one with a gateway.  A transmission that sendto() refuses *)
(* is one that outbox loses.                                               *)
(***************************************************************************)
EXTENDS Integers, Sequences, SequencesExt, FiniteSets

CONSTANTS
    Addresses,      \* addresses a gateway may have
    NoAddress,      \* 0.0.0.0, as an address or as no saved gateway
    Broadcast,      \* INADDR_BROADCAST
    SenderId,       \* PQC_SENDER_ID
    Provisioned,    \* the keypair whose fingerprint is built into the sender
    MaxAttempts,    \* MAX_META_RETRIES and MAX_DATA_RETRIES
    RefreshAfter,   \* failed cycles in a row before the address is refreshed
    FlashFaults,    \* whether saves may fail or be cut off in this instance
    MaxIssued,      \* bound on the messages sealed in a behaviour
    Capacity        \* bound on the datagrams under way to the gateway

VARIABLES
    step,           \* where task_sender is; see Steps
    state,          \* its SenderStateStore
    saved,          \* the SenderStateStore in flash
    gw,             \* the gateway's address as the task knows it
    failures,       \* consecutive_failures
    request,        \* the CoAP request in g_coap_buf
    attempt,        \* how often the request has been sent
    gateway_pk,     \* g_gateway_pk: the keypair it belongs to, 0 before any
    issued,         \* history: messages sealed so far; the last one's nonce
    confirmed,      \* history: the messages the task took for delivered
    outbox,         \* datagrams under way to the gateway
    reply,          \* the answer under way to the sender
    address         \* the address that answers come from

task == <<step, state, saved, gw, failures, request, attempt, gateway_pk>>
history == <<issued, confirmed>>
vars == <<task, history, outbox, reply, address>>

Asking == {"pk", "meta", "data"}
Discovering == {"resolve", "refresh"}
Steps == {"off", "idle", "stopped"} \cup Asking \cup Discovering

NoState == [next_counter |-> 0, last_gateway_ip |-> NoAddress]

\* Mutant of FirstState: the first counter is one that a load rejects.
FirstStateZero == [next_counter |-> 0, last_gateway_ip |-> NoAddress]

FirstState == [next_counter |-> 1, last_gateway_ip |-> NoAddress]
NoRequest == [kind |-> "none", msg_id |-> 0]
NoReply == [tag |-> "none"]

TypeOK ==
    /\ step \in Steps
    /\ {state, saved} \subseteq
            [next_counter: 0..(MaxIssued + 1), last_gateway_ip: Addresses \cup {NoAddress}]
    /\ step \notin {"off", "stopped"} => state.next_counter > 0
    /\ gw \in Addresses \cup {NoAddress}
    /\ failures \in 0..(RefreshAfter - 1)
    /\ attempt \in 0..MaxAttempts
    /\ step \in Asking \cup Discovering => request.msg_id > 0 /\ attempt > 0
    /\ step = "data" => request.kind = "data" /\ request.nonce = issued
    /\ confirmed \subseteq 1..issued
    /\ Len(outbox) <= Capacity

\* A flash sector that does not hold a valid SenderStateStore reads as NoState.
Init ==
    /\ step = "off"
    /\ state = NoState
    /\ saved = NoState
    /\ gw = NoAddress
    /\ failures = 0
    /\ request = NoRequest
    /\ attempt = 0
    /\ gateway_pk = 0
    /\ issued = 0
    /\ confirmed = {}
    /\ outbox = <<>>
    /\ reply = NoReply
    /\ address \in Addresses

-----------------------------------------------------------------------------
(* Requests and answers *)

\* next_msg_id: of the 65535 ids none comes round again while a datagram that
\* bears it is still under way.
FreshId ==
    LET busy == {outbox[i].datagram.msg_id : i \in DOMAIN outbox}
                \cup (IF reply = NoReply THEN {} ELSE {reply.msg_id})
                \cup {request.msg_id}
    IN  CHOOSE m \in 1..(Capacity + 3) : m \notin busy

\* A full channel loses what has been under way the longest.
Transmit(to, datagram) ==
    outbox' = Append(IF Len(outbox) < Capacity THEN outbox ELSE Tail(outbox),
                     [to |-> to, datagram |-> datagram])

\* A new request is built and sent for the first time.
Ask(where, to, datagram) ==
    /\ step' = where
    /\ request' = datagram
    /\ attempt' = 1
    /\ Transmit(to, datagram)

Get(what) == [kind |-> what, msg_id |-> FreshId]

\* Between exchanges there is no request.
Idle ==
    /\ step' = "idle"
    /\ request' = NoRequest
    /\ attempt' = 0

\* Mutant of Matches: the message id is not compared.
MatchesAnyId == reply # NoReply /\ (step \in Asking => address = gw)

\* recv_coap_response returns the answer to the request that is out; a
\* broadcast may be answered from any address.
Matches ==
    /\ reply # NoReply
    /\ reply.msg_id = request.msg_id
    /\ step \in Asking => address = gw

Receives == Matches /\ reply' = NoReply /\ UNCHANGED address

\* Any other datagram is skipped.
Skip ==
    /\ step \in Asking \cup Discovering
    /\ reply # NoReply /\ ~Matches
    /\ reply' = NoReply
    /\ UNCHANGED <<task, history, outbox, address>>

\* Mutant of Save: the state stays in RAM.
SaveNever(s) == saved' = saved

\* sender_state_save(s), where its result is ignored: the sector is erased,
\* then written, and either may fail.
Save(s) == saved' \in IF FlashFaults THEN {saved, NoState, s} ELSE {s}

-----------------------------------------------------------------------------
(* Power and gateway address *)

\* The first request of a resolution: the static address is not configured.
Discover(where) == Ask(where, Broadcast, Get("meta"))

PowerOn ==
    /\ step = "off"
    /\ state' = IF saved # NoState THEN saved ELSE FirstState
    /\ saved' = state'
    /\ Discover("resolve")
    /\ UNCHANGED <<gw, failures, gateway_pk, history, reply, address>>

\* The first state cannot be saved: the task deletes itself.
PowerOnFails ==
    /\ step = "off"
    /\ FlashFaults
    /\ saved = NoState
    /\ step' = "stopped"
    /\ UNCHANGED <<state, saved, gw, failures, request, attempt, gateway_pk,
                   history, outbox, reply, address>>

\* What was sent before the cut is answered to a socket that is gone: it
\* gets the id 0, which no later request bears.
PowerCut ==
    /\ step # "off"
    /\ step' = "off"
    /\ state' = NoState
    /\ gw' = NoAddress
    /\ failures' = 0
    /\ request' = NoRequest
    /\ attempt' = 0
    /\ gateway_pk' = 0
    /\ outbox' = [i \in DOMAIN outbox |-> [outbox[i] EXCEPT !.datagram.msg_id = 0]]
    /\ reply' = NoReply
    /\ UNCHANGED <<saved, history, address>>

\* Whatever the answer to the broadcast says, its source is the gateway.
Discovered ==
    /\ step \in Discovering
    /\ Receives
    /\ gw' = address
    /\ Idle
    /\ UNCHANGED <<state, saved, failures, gateway_pk, history, outbox>>

\* No answer in time: the saved address is used if there is one.  Without
\* one the first resolution ends the task; a refresh goes on without address.
DiscoveryTimesOut ==
    /\ step \in Discovering
    /\ gw' = state.last_gateway_ip
    /\ IF step = "resolve" /\ state.last_gateway_ip = NoAddress
       THEN step' = "stopped" /\ UNCHANGED <<request, attempt>>
       ELSE Idle
    /\ UNCHANGED <<state, saved, failures, gateway_pk, history, outbox, reply, address>>

-----------------------------------------------------------------------------
(* The secure send cycle *)

StartCycle ==
    /\ step = "idle"
    /\ Ask("pk", gw, Get("pk"))
    /\ UNCHANGED <<state, saved, gw, failures, gateway_pk, history, reply, address>>

\* Mutant of CycleFails: failed cycles are not counted.
CycleFailsUncounted ==
    /\ Idle
    /\ UNCHANGED <<failures, state, saved, outbox>>

\* send_protected_message returns false.  The failure that completes
\* RefreshAfter in a row forgets the saved address and resolves it anew.
CycleFails ==
    IF failures + 1 < RefreshAfter
    THEN /\ failures' = failures + 1
         /\ Idle
         /\ UNCHANGED <<state, saved, outbox>>
    ELSE /\ failures' = 0
         /\ state' = [state EXCEPT !.last_gateway_ip = NoAddress]
         /\ Save(state')
         /\ Discover("refresh")

\* No answer in time, with attempts left.
Resend ==
    /\ step \in Asking
    /\ attempt < MaxAttempts
    /\ attempt' = attempt + 1
    /\ Transmit(gw, request)
    /\ UNCHANGED <<step, state, saved, gw, failures, request, gateway_pk,
                   history, reply, address>>

OutOfAttempts ==
    /\ step \in Asking
    /\ attempt = MaxAttempts
    /\ CycleFails
    /\ UNCHANGED <<gw, gateway_pk, history, reply, address>>

\* verify_gateway_public_key, in the STRICT mode that is the default
Verified(key) == key = Provisioned

PkAnswered ==
    /\ step = "pk"
    /\ Receives
    /\ IF reply.body.tag # "pk"
       THEN CycleFails /\ UNCHANGED gateway_pk
       ELSE /\ gateway_pk' = reply.body.key
            /\ IF Verified(reply.body.key)
               THEN /\ Ask("meta", gw, Get("meta"))
                    /\ UNCHANGED <<state, saved, failures>>
               ELSE CycleFails
    /\ UNCHANGED <<gw, history>>

\* validate_gateway_metadata
Valid(meta) ==
    /\ meta.key = gateway_pk
    /\ meta.status \notin {"REVOKED", "ROTATION_REQUIRED"}
    /\ ~meta.rotation_required

MetaRejected ==
    /\ step = "meta"
    /\ Receives
    /\ reply.body.tag = "meta" => ~Valid(reply.body)
    /\ CycleFails
    /\ UNCHANGED <<gw, gateway_pk, history>>

\* The message takes the next sequence number, which is saved before the
\* message is sent.  A failure of the cryptography after that is a message
\* of which every transmission is lost.
Seal(meta) ==
    /\ issued < MaxIssued
    /\ issued' = issued + 1
    /\ state' = [next_counter |-> state.next_counter + 1, last_gateway_ip |-> gw]
    /\ Save(state')
    /\ Ask("data", gw,
           [kind |-> "data", msg_id |-> FreshId, form |-> "ok",
            key_id |-> meta.key_id, sender_id |-> SenderId,
            sequence |-> state.next_counter, nonce |-> issued',
            sealed |-> gateway_pk])

\* Encapsulation or key derivation may fail too, before anything is taken.
MetaAccepted ==
    /\ step = "meta"
    /\ Receives
    /\ reply.body.tag = "meta"
    /\ Valid(reply.body)
    /\ \/ Seal(reply.body) /\ UNCHANGED failures
       \/ CycleFails /\ UNCHANGED issued
    /\ UNCHANGED <<gw, gateway_pk, confirmed>>

DataConfirmed ==
    /\ step = "data"
    /\ Receives
    /\ reply.body.tag = "OK"
    /\ confirmed' = confirmed \cup {request.nonce}
    /\ failures' = 0
    /\ Idle
    /\ UNCHANGED <<state, saved, gw, gateway_pk, issued, outbox>>

DataRejected ==
    /\ step = "data"
    /\ Receives
    /\ reply.body.tag # "OK"
    /\ CycleFails
    /\ UNCHANGED <<gw, gateway_pk, history>>

Answered ==
    \/ Discovered \/ PkAnswered \/ MetaRejected \/ MetaAccepted
    \/ DataConfirmed \/ DataRejected

\* What the task does by itself once a delay or a wait for an answer is over.
Waited == PowerOn \/ DiscoveryTimesOut \/ StartCycle \/ Resend \/ OutOfAttempts

Next == Waited \/ Answered \/ Skip \/ PowerOnFails \/ PowerCut
=============================================================================
