------------------------------- MODULE Gateway -------------------------------
(***************************************************************************)
(* The receiver (gateway) firmware: the task task_gateway with its key     *)
(* store in flash, its replay state and its per-source guards.             *)
(*                                                                         *)
(* A datagram is handled to its end before the next is read, so each       *)
(* outcome of the loop body of task_gateway is one action.  The board may  *)
(* lose power between any two of them; a cut inside the body is a step     *)
(* whose save did not reach the flash, followed by PowerCycle.             *)
(***************************************************************************)
EXTENDS GuardRecord, Sequences

CONSTANTS
    Datagrams,      \* the datagrams that can arrive
    AllowedSender,  \* PQC_ALLOWED_SENDER_ID
    MaxMessages,    \* PQC_KEY_MAX_MESSAGES_DEFAULT; 0 means no maximum
    CacheSize,      \* NONCE_CACHE_SIZE
    NoNonce,        \* an unused slot of the nonce cache
    MaxKeys,        \* bound on the keypairs generated in a behaviour
    MaxForgotten,   \* bound on the messages each count loses to power cuts
    Horizon         \* bound on the clock, short of its wrap

DatagramKinds == {"malformed", "bad_header", "meta", "pk", "data", "other"}

\* A datagram is reduced to what the handlers look at: its kind and msg_id
\* and, for a POST pqkem-data, the fields of its DataMsg key_id, sender_id,
\* sequence and nonce, the keypair it is sealed for, and its form: "ok", or
\* the one other check that its bytes fail.
ASSUME GatewayAssumption ==
    /\ Kinds = {"meta", "pk", "data"}
    /\ \A d \in Datagrams :
        /\ d.kind \in DatagramKinds
        /\ d.kind = "data" => /\ d.sequence \in Nat
                              /\ d.nonce # NoNonce
    /\ MaxMessages \in Nat
    /\ CacheSize \in Nat \ {0}
    /\ MaxKeys \in Nat
    /\ MaxForgotten \in Nat
    /\ Horizon \in Time

Nonces == {d.nonce : d \in {e \in Datagrams : e.kind = "data"}}

\* meta.key_id: gw_store_init_or_load gives every keypair the same one.
KeyId == 1

VARIABLES
    mode,           \* "off", "listening", or "stopped" (task deleted)
    store,          \* g_store
    flash,          \* the blob kept by EasyFlash
    cache,          \* g_nonce_cache
    cache_next,     \* g_nonce_cache_next
    guards,         \* g_peer_guards
    now,            \* monotonic_ms()
    reply,          \* the answer to the datagram last handled
    keys_made,      \* keypairs generated so far
    accepted,       \* history: the messages accepted since power-on
    uses,           \* history: uses[k], messages ever accepted under keypair k
    forgotten       \* history: forgotten[k], of those, dropped from the count

ram == <<store, cache, cache_next, guards, now, accepted>>
tally == <<keys_made, uses, forgotten>>
vars == <<mode, ram, flash, reply, tally>>

Keypairs == 1..MaxKeys
Statuses == {"ACTIVE", "REVOKED", "ROTATION_REQUIRED"}

Store == [key: Keypairs, status: Statuses, rotation_required: BOOLEAN,
          message_count: Nat, last_sender_counter: Nat]
NoStore == [key |-> 0]
NoReply == [tag |-> "none"]

TypeOK ==
    /\ mode \in {"off", "listening", "stopped"}
    /\ store \in Store \cup {NoStore}
    /\ flash \in Store \cup {NoStore}
    /\ mode = "listening" => store \in Store /\ flash \in Store
    /\ cache \in [0..(CacheSize - 1) -> Nonces \cup {NoNonce}]
    /\ cache_next \in 0..(CacheSize - 1)
    /\ guards \in [Peers -> Guard]
    /\ now \in Time
    /\ keys_made \in 0..MaxKeys
    /\ accepted \in Seq([sequence: Nat, nonce: Nonces])
    /\ uses \in [Keypairs -> Nat]
    /\ forgotten \in [Keypairs -> Nat]

\* Memory as the C runtime leaves it before the task starts.
ClearRam ==
    /\ cache' = [i \in 0..(CacheSize - 1) |-> NoNonce]
    /\ cache_next' = 0
    /\ guards' = [p \in Peers |-> EmptySlot]
    /\ now' = 0
    /\ accepted' = <<>>

Init ==
    /\ mode = "off"
    /\ store = NoStore
    /\ flash = NoStore
    /\ cache = [i \in 0..(CacheSize - 1) |-> NoNonce]
    /\ cache_next = 0
    /\ guards = [p \in Peers |-> EmptySlot]
    /\ now = 0
    /\ reply = NoReply
    /\ keys_made = 0
    /\ accepted = <<>>
    /\ uses = [k \in Keypairs |-> 0]
    /\ forgotten = [k \in Keypairs |-> 0]

-----------------------------------------------------------------------------
(* Store *)

\* Mutant of MetaUpdate: the maximum is noticed one message late.
MetaUpdateLate(s) ==
    IF MaxMessages # 0 /\ s.message_count > MaxMessages
    THEN [s EXCEPT !.status = "ROTATION_REQUIRED", !.rotation_required = TRUE]
    ELSE [s EXCEPT !.status = "ACTIVE", !.rotation_required = FALSE]

\* gw_meta_update_runtime.  Nothing in the firmware revokes a key.
MetaUpdate(s) ==
    IF s.status = "REVOKED"
    THEN [s EXCEPT !.rotation_required = TRUE]
    ELSE IF MaxMessages # 0 /\ s.message_count >= MaxMessages
    THEN [s EXCEPT !.status = "ROTATION_REQUIRED", !.rotation_required = TRUE]
    ELSE [s EXCEPT !.status = "ACTIVE", !.rotation_required = FALSE]

NewStore(k) == [key |-> k, status |-> "ACTIVE", rotation_required |-> FALSE,
                message_count |-> 0, last_sender_counter |-> 0]

\* gw_store_save where its result is ignored: the blob is s or the old one.
MaySave(s) == flash' \in {flash, s}

\* Mutant of BootStore: the message count starts again as well.
BootStoreZeroed(s) ==
    MetaUpdate([s EXCEPT !.last_sender_counter = 0, !.message_count = 0])

\* Every boot starts the sequence numbers again.
BootStore(s) == [MetaUpdate(s) EXCEPT !.last_sender_counter = 0]

-----------------------------------------------------------------------------
(* Power *)

\* Power-on with a readable blob.
BootFromFlash ==
    /\ mode = "off"
    /\ flash # NoStore
    /\ mode' = "listening"
    /\ store' = BootStore(flash)
    /\ MaySave(store')
    /\ UNCHANGED <<cache, cache_next, guards, now, accepted, reply, tally>>

\* Power-on with no readable blob: a new keypair, which must be saved before
\* it is used.
BootWithNewKey ==
    /\ mode = "off"
    /\ flash = NoStore
    /\ keys_made < MaxKeys
    /\ keys_made' = keys_made + 1
    /\ mode' = "listening"
    /\ store' = BootStore(NewStore(keys_made + 1))
    /\ flash' = store'
    /\ UNCHANGED <<cache, cache_next, guards, now, accepted, reply, uses, forgotten>>

\* The task deletes itself: key generation, the first save, socket() or
\* bind() failed.  A save that is reported as failed may have been made.
BootFails ==
    /\ mode = "off"
    /\ mode' = "stopped"
    /\ \/ /\ flash # NoStore
          /\ MaySave(BootStore(flash))
          /\ UNCHANGED keys_made
       \/ /\ flash = NoStore
          /\ keys_made < MaxKeys
          /\ keys_made' = keys_made + 1
          /\ flash' = NewStore(keys_made + 1)
       \/ UNCHANGED <<flash, keys_made>>
    /\ UNCHANGED <<ram, reply, uses, forgotten>>

\* Messages counted in RAM and not in flash, which a power cut drops.
Unsaved == IF mode = "listening" THEN store.message_count - flash.message_count ELSE 0

\* Power is cut; what only RAM held is gone.  An answer that was sent is not.
PowerCycle ==
    /\ mode # "off"
    /\ mode' = "off"
    /\ store' = NoStore
    /\ \/ Unsaved = 0 /\ UNCHANGED forgotten
       \/ /\ Unsaved > 0
          /\ forgotten[store.key] + Unsaved <= MaxForgotten
          /\ forgotten' = [forgotten EXCEPT ![store.key] = @ + Unsaved]
    /\ ClearRam
    /\ UNCHANGED <<flash, reply, keys_made, uses>>

\* The blob is erased or fails a check of gw_store_load at the next boot.
FlashLost ==
    /\ mode = "off"
    /\ flash' = NoStore
    /\ flash # NoStore
    /\ UNCHANGED <<mode, ram, reply, tally>>

Tick ==
    /\ mode = "listening"
    /\ now < Horizon
    /\ now' = now + 1
    /\ UNCHANGED <<mode, store, flash, cache, cache_next, guards, accepted, reply, tally>>

-----------------------------------------------------------------------------
(* One iteration of the receive loop *)

Text(t) == [tag |-> t]

Answer(p, d, body) == reply' = [to |-> p, msg_id |-> d.msg_id, body |-> body]

GuardOf(p) == GuardGet(guards, p, now)

Counted(p, d) == CountRequest(GuardOf(p), d.kind, now)

SetGuard(p, g) == guards' = [guards EXCEPT ![p] = g]

Accepts == <<cache, cache_next, accepted, uses, flash>>
Rest == <<mode, now, keys_made, forgotten>>

\* coap_parse fails: silence, but a failure on the guard, blocked or not.
Malformed(p, d) ==
    /\ mode = "listening"
    /\ d.kind = "malformed"
    /\ SetGuard(p, RecordFailure(GuardOf(p), now))
    /\ reply' = NoReply
    /\ UNCHANGED <<store, Accepts, Rest>>

Refused(p, d) ==
    /\ mode = "listening"
    /\ d.kind # "malformed"
    /\ IsBlocked(GuardOf(p), now)
    /\ SetGuard(p, GuardOf(p))
    /\ Answer(p, d, Text("SOURCE_BLOCKED"))
    /\ UNCHANGED <<store, Accepts, Rest>>

BadHeader(p, d) ==
    /\ mode = "listening"
    /\ d.kind = "bad_header"
    /\ ~IsBlocked(GuardOf(p), now)
    /\ SetGuard(p, RecordFailure(GuardOf(p), now))
    /\ Answer(p, d, Text("BAD_COAP"))
    /\ UNCHANGED <<store, Accepts, Rest>>

\* Past the header check the key's status is brought up to date, and the
\* request is looked up.
Dispatched(p, d) ==
    /\ mode = "listening"
    /\ d.kind \notin {"malformed", "bad_header"}
    /\ ~IsBlocked(GuardOf(p), now)
    /\ UNCHANGED Rest

NotFound(p, d) ==
    /\ Dispatched(p, d)
    /\ d.kind = "other"
    /\ store' = MetaUpdate(store)
    /\ SetGuard(p, GuardOf(p))
    /\ Answer(p, d, Text("NOT_FOUND"))
    /\ UNCHANGED Accepts

Throttled(p, d) ==
    /\ Dispatched(p, d)
    /\ d.kind \in Kinds
    /\ ~WithinLimit(Counted(p, d), d.kind)
    /\ store' = MetaUpdate(store)
    /\ SetGuard(p, Counted(p, d))
    /\ Answer(p, d, Text("RATE_LIMIT"))
    /\ UNCHANGED Accepts

Admitted(p, d, kind) ==
    /\ Dispatched(p, d)
    /\ d.kind = kind
    /\ WithinLimit(Counted(p, d), kind)

ServeMeta(p, d) ==
    /\ Admitted(p, d, "meta")
    /\ store' = MetaUpdate(store)
    /\ SetGuard(p, Counted(p, d))
    /\ Answer(p, d, [tag |-> "meta", key |-> store'.key, key_id |-> KeyId,
                     status |-> store'.status,
                     rotation_required |-> store'.rotation_required])
    /\ UNCHANGED Accepts

ServePk(p, d) ==
    /\ Admitted(p, d, "pk")
    /\ store' = MetaUpdate(store)
    /\ SetGuard(p, Counted(p, d))
    /\ Answer(p, d, IF store'.status = "REVOKED"
                    THEN Text("REVOKED")
                    ELSE [tag |-> "pk", key |-> store'.key])
    /\ UNCHANGED Accepts

\* Mutant of NeedsRotation: an exhausted key is served until it is revoked.
IsRevoked(s) == s.status = "REVOKED"

NeedsRotation(s) == s.rotation_required \/ s.status # "ACTIVE"

\* Refused before any check, so without a failure on the guard.
PostToSpentKey(p, d) ==
    /\ Admitted(p, d, "data")
    /\ store' = MetaUpdate(store)
    /\ NeedsRotation(store')
    /\ SetGuard(p, Counted(p, d))
    /\ Answer(p, d, Text("KEY_ROTATION_REQUIRED"))
    /\ UNCHANGED Accepts

\* The checks of a POST pqkem-data, in the order they are made.
CheckOrder == <<"BAD_LEN", "BAD_PROTO", "BAD_CT", "BAD_TEXTLEN", "BAD_KEYID",
                "BAD_SENDER", "REPLAY_SEQ", "REPLAY_NONCE", "BAD_WIRELEN",
                "KEM_FAIL", "HKDF_FAIL", "AUTH_FAIL">>

NonceSeen(n) == \E i \in 0..(CacheSize - 1) : cache[i] = n

\* Decapsulating with another keypair gives an unrelated secret, which the
\* tag exposes; so does any change to the header, nonce or ciphertext.
Fails(d, check) ==
    \/ d.form = check
    \/ check = "BAD_KEYID" /\ d.key_id # KeyId
    \/ check = "BAD_SENDER" /\ d.sender_id # AllowedSender
    \/ check = "REPLAY_SEQ" /\ (d.sequence = 0 \/ d.sequence <= store.last_sender_counter)
    \/ check = "REPLAY_NONCE" /\ NonceSeen(d.nonce)
    \/ check = "AUTH_FAIL" /\ d.sealed # store.key

PostRejected(p, d) ==
    /\ Admitted(p, d, "data")
    /\ store' = MetaUpdate(store)
    /\ ~NeedsRotation(store')
    /\ \E i \in DOMAIN CheckOrder :
        /\ Fails(d, CheckOrder[i])
        /\ \A j \in 1..(i - 1) : ~Fails(d, CheckOrder[j])
        /\ Answer(p, d, Text(CheckOrder[i]))
    /\ SetGuard(p, RecordFailure(Counted(p, d), now))
    /\ UNCHANGED Accepts

\* Mutant of RememberNonce: the ring index runs past the end.
RememberNonceUnwrapped(n) ==
    /\ cache' = [cache EXCEPT ![cache_next] = n]
    /\ cache_next' = cache_next + 1

\* Mutant of RememberNonce: the ring index stands still.
RememberNonceInPlace(n) ==
    /\ cache' = [cache EXCEPT ![cache_next] = n]
    /\ UNCHANGED cache_next

RememberNonce(n) ==
    /\ cache' = [cache EXCEPT ![cache_next] = n]
    /\ cache_next' = (cache_next + 1) % CacheSize

\* Mutant of Consumed: the sequence number is not remembered.
ConsumedUnmarked(s, d) == MetaUpdate([s EXCEPT !.message_count = @ + 1])

Consumed(s, d) ==
    MetaUpdate([s EXCEPT !.last_sender_counter = d.sequence,
                         !.message_count = @ + 1])

\* Whether or not the store was saved, the sender is told OK.
PostAccepted(p, d) ==
    /\ Admitted(p, d, "data")
    /\ ~NeedsRotation(MetaUpdate(store))
    /\ \A i \in DOMAIN CheckOrder : ~Fails(d, CheckOrder[i])
    /\ store' = Consumed(MetaUpdate(store), d)
    /\ MaySave(store')
    /\ RememberNonce(d.nonce)
    /\ SetGuard(p, RecordSuccess(Counted(p, d)))
    /\ Answer(p, d, Text("OK"))
    /\ accepted' = Append(accepted, [sequence |-> d.sequence, nonce |-> d.nonce])
    /\ uses' = [uses EXCEPT ![store.key] = @ + 1]

Receive(p, d) ==
    \/ Malformed(p, d)
    \/ Refused(p, d)
    \/ BadHeader(p, d)
    \/ NotFound(p, d)
    \/ Throttled(p, d)
    \/ ServeMeta(p, d)
    \/ ServePk(p, d)
    \/ PostToSpentKey(p, d)
    \/ PostRejected(p, d)
    \/ PostAccepted(p, d)

Power == BootFromFlash \/ BootWithNewKey \/ BootFails \/ PowerCycle \/ FlashLost

Next ==
    \/ Power
    \/ Tick
    \/ \E p \in Peers, d \in Datagrams : Receive(p, d)

Spec == Init /\ [][Next]_vars

-----------------------------------------------------------------------------
(* Safety *)

\* Between two boots, the accepted sequence numbers only grow, so that no
\* message is accepted twice (the REPLAY_SEQ check against
\* last_sender_counter, which every accepted message moves).
AtMostOncePerBoot ==
    \A i, j \in DOMAIN accepted :
        i < j => accepted[i].sequence < accepted[j].sequence

\* A nonce is accepted once among any CacheSize + 1 accepted messages in a
\* row: the ring holds exactly the last CacheSize of them.
NonceWindow ==
    \A i, j \in DOMAIN accepted :
        i < j /\ j - i <= CacheSize => accepted[i].nonce # accepted[j].nonce

\* What the count of a keypair says against what it was used for: the two
\* differ by the messages whose save was lost to a power cut, and by no other.
KeyAccount ==
    /\ mode = "listening" =>
        uses[store.key] = store.message_count + forgotten[store.key]
    /\ mode # "listening" /\ flash # NoStore =>
        uses[flash.key] = flash.message_count + forgotten[flash.key]

\* No keypair takes more than its maximum of messages, but for the ones
\* dropped from its count by a power cut.
KeyBudget ==
    \A k \in Keypairs : MaxMessages # 0 => uses[k] <= MaxMessages + forgotten[k]

\* The maximum as the risk register claims it: no keypair takes more.
KeyMaximum ==
    \A k \in Keypairs : MaxMessages # 0 => uses[k] <= MaxMessages

\* A keypair whose exhaustion has reached the flash takes no message again,
\* whatever fails or restarts afterwards.
SpentKeyStaysSpent ==
    [][(MaxMessages # 0 /\ flash # NoStore /\ flash.message_count >= MaxMessages)
        => uses' = uses]_vars
=============================================================================
