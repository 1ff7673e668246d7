------------------------------ MODULE LinkProofs ------------------------------
(***************************************************************************)
(* Proofs about SecureLink, for any number of messages, attempts, datagrams*)
(* under way and keypairs: the two boards and the network between them     *)
(* keep their types and implement Delivery, and a sender whose saves work  *)
(* is told REPLAY_SEQ only of messages that were taken, and is never       *)
(* blocked.                                                                *)
(***************************************************************************)
EXTENDS SecureLink, SequenceTheorems, FiniteSetTheorems, TLAPS

Packets == {outbox[i] : i \in DOMAIN outbox}
Waiting == S!Asking \cup S!Discovering

\* The datagrams that the sender has built: those under way and the request.
Sent == {p.datagram : p \in Packets} \cup {request}

(***************************************************************************)
(* What datagrams, the states of the sender and the store of the gateway   *)
(* look like.                                                              *)
(***************************************************************************)
IsGet(d) == d = [kind |-> d.kind, msg_id |-> d.msg_id] /\ d.kind # "data"

IsPost(d) ==
    /\ d = [kind |-> "data", msg_id |-> d.msg_id, form |-> d.form,
            key_id |-> d.key_id, sender_id |-> d.sender_id,
            sequence |-> d.sequence, nonce |-> d.nonce, sealed |-> d.sealed]
    /\ d.sequence \in Nat

IsPacket(p) ==
    /\ p = [to |-> p.to, datagram |-> p.datagram]
    /\ IsGet(p.datagram) \/ IsPost(p.datagram)

IsState(s) ==
    /\ s = [next_counter |-> s.next_counter, last_gateway_ip |-> s.last_gateway_ip]
    /\ s.next_counter \in Nat

IsStore(s) ==
    /\ s = [key |-> s.key, status |-> s.status,
            rotation_required |-> s.rotation_required,
            message_count |-> s.message_count,
            last_sender_counter |-> s.last_sender_counter]
    /\ s.last_sender_counter \in Nat

StateInv == IsState(state) /\ IsState(saved)

StoreInv ==
    /\ flash = G!NoStore \/ IsStore(flash)
    /\ mode = "listening" => IsStore(store)

(***************************************************************************)
(* The parts of the invariant.                                             *)
(***************************************************************************)
ChannelInv ==
    /\ outbox \in Seq(Packets)
    /\ Len(outbox) <= Capacity
    /\ \A p \in Packets : IsPacket(p)
    /\ IsGet(request) \/ IsPost(request)
    /\ step = "data" => request.kind = "data"

\* Only the request that is out bears its message id, and an OK for it is
\* the answer of a gateway that took the message.
ExchangeInv ==
    /\ step \in Waiting =>
          \A p \in Packets : p.datagram.msg_id = request.msg_id => p.datagram = request
    /\ /\ step = "data" /\ reply # S!NoReply
       /\ reply.msg_id = request.msg_id /\ reply.body.tag = "OK"
       => request.nonce \in taken

\* Each message has one sequence number, wherever it is.
MessageInv ==
    /\ issued \in Nat
    /\ \A d \in Sent : d.kind = "data" => d.nonce \in 1..issued
    /\ \A d, e \in Sent :
          d.kind = "data" /\ e.kind = "data" /\ d.nonce = e.nonce => d.sequence = e.sequence

\* The gateway has taken messages of the sender, up to its last counter.
AcceptedInv ==
    /\ accepted \in Seq([sequence: Nat, nonce: Nat])
    /\ mode # "listening" => accepted = <<>>
    /\ \A i \in DOMAIN accepted :
          /\ accepted[i].nonce \in 1..issued
          /\ accepted[i].sequence <= store.last_sender_counter
          /\ \A d \in Sent : d.kind = "data" /\ d.nonce = accepted[i].nonce =>
                                d.sequence = accepted[i].sequence

LinkInv == StateInv /\ StoreInv /\ ChannelInv /\ ExchangeInv /\ MessageInv /\ AcceptedInv

-----------------------------------------------------------------------------
(* What happens to the channel *)

LEMMA TransmitEffect ==
  ASSUME ChannelInv, NEW to, NEW d, IsGet(d) \/ IsPost(d), S!Transmit(to, d)
  PROVE  /\ outbox' \in Seq(Packets')
         /\ Len(outbox') <= Capacity
         /\ \A p \in Packets' : p \in Packets \/ p = [to |-> to, datagram |-> d]
         /\ \A p \in Packets' : IsPacket(p)
<1> DEFINE new == [to |-> to, datagram |-> d]
           All == Packets \cup {new}
           rest == IF Len(outbox) < Capacity THEN outbox ELSE Tail(outbox)
<1>1. outbox \in Seq(All) /\ Len(outbox) \in Nat /\ Len(outbox) <= Capacity /\ Capacity \in Nat \ {0}
  BY SeqMonotonic, LinkAssumption DEF ChannelInv
<1>2. rest \in Seq(All) /\ Len(rest) \in Nat /\ Len(rest) < Capacity
        /\ \A i \in 1..Len(rest) : rest[i] \in Packets
  <2>1. CASE Len(outbox) < Capacity
    BY <1>1, <2>1 DEF Packets
  <2>2. CASE ~(Len(outbox) < Capacity)
    <3>1. outbox # <<>>
      BY <1>1, <2>2
    <3>2. /\ Tail(outbox) \in Seq(All) /\ Len(Tail(outbox)) = Len(outbox) - 1
          /\ \A i \in 1..Len(Tail(outbox)) : Tail(outbox)[i] = outbox[i + 1]
      BY <1>1, <3>1, HeadTailProperties
    <3>3. \A i \in 1..Len(Tail(outbox)) : i + 1 \in DOMAIN outbox
      BY <1>1, <3>2
    <3> QED
      BY <1>1, <2>2, <3>2, <3>3 DEF Packets
  <2> QED
    BY <2>1, <2>2
<1> HIDE DEF rest
<1>3. outbox' = Append(rest, new)
  BY DEF S!Transmit, rest
<1>4. /\ outbox' \in Seq(All) /\ Len(outbox') = Len(rest) + 1
      /\ \A i \in 1..Len(rest) : outbox'[i] = rest[i]
      /\ outbox'[Len(rest) + 1] = new
  BY <1>2, <1>3, AppendProperties
<1>5. DOMAIN outbox' = 1..(Len(rest) + 1)
  BY <1>4
<1>6. \A i \in DOMAIN outbox' : outbox'[i] \in Packets \/ outbox'[i] = new
  <2>1. TAKE i \in DOMAIN outbox'
  <2>2. i \in 1..Len(rest) \/ i = Len(rest) + 1
    BY <1>2, <1>5
  <2> QED
    BY <1>2, <1>4, <2>2
<1>7. outbox' \in Seq(Packets')
  BY <1>4, <1>5 DEF Packets
<1>8. IsPacket(new)
  BY DEF IsPacket
<1>9. \A p \in Packets' : p \in Packets \/ p = new
  BY <1>6 DEF Packets
<1>10. \A p \in Packets' : IsPacket(p)
  BY <1>8, <1>9 DEF ChannelInv
<1>11. Len(outbox') <= Capacity
  BY <1>1, <1>2, <1>4
<1> QED
  BY <1>7, <1>9, <1>10, <1>11

\* A datagram is taken out of the channel.
LEMMA RemoveEffect ==
  ASSUME ChannelInv, NEW i \in DOMAIN outbox, outbox' = RemoveAt(outbox, i)
  PROVE  /\ outbox' \in Seq(Packets')
         /\ Len(outbox') <= Capacity /\ Len(outbox') < Capacity
         /\ Packets' \subseteq Packets
<1> DEFINE n == Len(outbox)
           before == SubSeq(outbox, 1, i - 1)
           after == SubSeq(outbox, i + 1, n)
<1>1. outbox \in Seq(Packets) /\ n \in Nat /\ n <= Capacity /\ DOMAIN outbox = 1..n
      /\ i \in 1..n /\ Capacity \in Nat
  BY LinkAssumption DEF ChannelInv
<1>2. before \in Seq(Packets) /\ Len(before) = i - 1
  BY <1>1, SubSeqProperties
<1>3. after \in Seq(Packets) /\ Len(after) = n - i
  BY <1>1, SubSeqProperties
<1>4. outbox' = before \o after
  BY DEF RemoveAt
<1> HIDE DEF before, after
<1>5. outbox' \in Seq(Packets) /\ Len(outbox') = n - 1
  <2>1. before \o after \in Seq(Packets) /\ Len(before \o after) = Len(before) + Len(after)
    BY <1>2, <1>3, ConcatProperties, Zenon
  <2> QED
    BY <1>1, <1>2, <1>3, <1>4, <2>1
<1>6. \A j \in DOMAIN outbox' : outbox'[j] \in Packets
  BY <1>5, ElementOfSeq
<1>7. outbox' \in Seq(Packets')
  BY <1>5 DEF Packets
<1> QED
  BY <1>1, <1>5, <1>6, <1>7 DEF Packets

LEMMA WithoutId ==
  ASSUME NEW q, IsPacket(q)
  PROVE  /\ [q EXCEPT !.datagram.msg_id = 0] =
                [to |-> q.to, datagram |-> [q.datagram EXCEPT !.msg_id = 0]]
         /\ IsPacket([to |-> q.to, datagram |-> [q.datagram EXCEPT !.msg_id = 0]])
<1> DEFINE d == q.datagram
           e == [d EXCEPT !.msg_id = 0]
<1>1. ASSUME NEW t, NEW x
      PROVE  [[to |-> t, datagram |-> x] EXCEPT !.datagram.msg_id = 0] =
                [to |-> t, datagram |-> [x EXCEPT !.msg_id = 0]]
  OBVIOUS
<1>2. IsGet(d) => IsGet(e)
  BY DEF IsGet
<1>3. IsPost(d) => IsPost(e)
  <2> SUFFICES ASSUME IsPost(d) PROVE IsPost(e)
    OBVIOUS
  <2>1. e = [kind |-> "data", msg_id |-> 0, form |-> d.form,
             key_id |-> d.key_id, sender_id |-> d.sender_id,
             sequence |-> d.sequence, nonce |-> d.nonce, sealed |-> d.sealed]
    BY DEF IsPost
  <2> QED
    BY <2>1 DEF IsPost
<1> HIDE DEF e
<1>4. IsPacket([to |-> q.to, datagram |-> e])
  BY <1>2, <1>3 DEF IsPacket
<1>5. q = [to |-> q.to, datagram |-> d]
  BY DEF IsPacket
<1>6. [q EXCEPT !.datagram.msg_id = 0] = [to |-> q.to, datagram |-> e]
  BY <1>1, <1>5 DEF e
<1> QED
  BY <1>4, <1>6 DEF e

\* The answers to what was sent before a power cut do not come back.
LEMMA CutEffect ==
  ASSUME ChannelInv,
         outbox' = [i \in DOMAIN outbox |-> [outbox[i] EXCEPT !.datagram.msg_id = 0]]
  PROVE  /\ outbox' \in Seq(Packets')
         /\ Len(outbox') <= Capacity
         /\ \A p \in Packets' : \E q \in Packets :
               p = [to |-> q.to, datagram |-> [q.datagram EXCEPT !.msg_id = 0]]
         /\ \A p \in Packets' : IsPacket(p)
<1> DEFINE n == Len(outbox)
<1>1. outbox \in Seq(Packets) /\ n \in Nat /\ DOMAIN outbox = 1..n /\ n <= Capacity
  BY DEF ChannelInv
<1>2. \A i \in 1..n : outbox[i] \in Packets /\ IsPacket(outbox[i])
  BY <1>1 DEF Packets, ChannelInv
<1>3. \A i \in 1..n : outbox'[i] =
         [to |-> outbox[i].to, datagram |-> [outbox[i].datagram EXCEPT !.msg_id = 0]]
  <2> TAKE i \in 1..n
  <2>1. outbox'[i] = [outbox[i] EXCEPT !.datagram.msg_id = 0]
    BY <1>1, Zenon
  <2> QED
    BY <1>2, <2>1, WithoutId, Zenon
<1> DEFINE changed(q) == [to |-> q.to, datagram |-> [q.datagram EXCEPT !.msg_id = 0]]
<1>4. DOMAIN outbox' = 1..n
  BY <1>1, Zenon
<1>5. \A p \in Packets' : \E q \in Packets : p = changed(q)
  <2> TAKE p \in Packets'
  <2>1. PICK i \in DOMAIN outbox' : p = outbox'[i]
    BY DEF Packets
  <2>2. i \in 1..n /\ outbox[i] \in Packets
    BY <1>2, <1>4
  <2>3. p = changed(outbox[i])
    BY <1>3, <2>1, <2>2
  <2> QED
    BY <2>2, <2>3
<1>6. outbox' \in [1..n -> Packets']
  <2>1. \A i \in 1..n : outbox'[i] \in Packets'
    BY <1>4 DEF Packets
  <2>2. outbox' = [i \in 1..n |-> outbox'[i]]
    <3> DEFINE f(i) == [outbox[i] EXCEPT !.datagram.msg_id = 0]
    <3>1. outbox' = [i \in 1..n |-> f(i)]
      BY <1>1, Zenon
    <3> HIDE DEF f
    <3> QED
      BY <3>1, Zenon
  <2> QED
    BY <2>1, <2>2, Zenon
<1>7. outbox' \in Seq(Packets') /\ Len(outbox') = n
  BY <1>1, <1>4, <1>6
<1>8. \A p \in Packets' : IsPacket(p)
  <2> TAKE p \in Packets'
  <2>1. PICK q \in Packets : p = changed(q)
    BY <1>5
  <2>2. IsPacket(q)
    BY DEF ChannelInv
  <2> QED
    BY <2>1, <2>2, WithoutId, Zenon
<1> QED
  BY <1>1, <1>5, <1>7, <1>8

\* There is always an id that no datagram, answer or request under way bears.
LEMMA FreshIdEffect ==
  ASSUME ChannelInv
  PROVE  /\ S!FreshId # request.msg_id
         /\ reply # S!NoReply => S!FreshId # reply.msg_id
         /\ \A p \in Packets : S!FreshId # p.datagram.msg_id
        /\ S!FreshId \in Nat \ {0}
<1> DEFINE id == [i \in DOMAIN outbox |-> outbox[i].datagram.msg_id]
           sent == {outbox[i].datagram.msg_id : i \in DOMAIN outbox}
           answered == IF reply = S!NoReply THEN {} ELSE {reply.msg_id}
           busy == sent \cup answered \cup {request.msg_id}
           ids == 1..(Capacity + 3)
<1>1. Capacity \in Nat /\ Len(outbox) \in Nat /\ Len(outbox) <= Capacity /\ DOMAIN outbox = 1..Len(outbox)
  BY LinkAssumption DEF ChannelInv
<1>2. IsFiniteSet(sent) /\ Cardinality(sent) <= Capacity
  <2>1. IsFiniteSet(DOMAIN outbox) /\ Cardinality(DOMAIN outbox) = Len(outbox)
    <3> DEFINE n == Len(outbox)
    <3>1. IsFiniteSet(1..n) /\ Cardinality(1..n) = IF 1 > n THEN 0 ELSE n - 1 + 1
      <4>1. 1 \in Int /\ n \in Int
        BY <1>1
      <4> HIDE DEF n
      <4> QED
        BY <4>1, FS_Interval, Zenon
    <3> QED
      BY <1>1, <3>1
  <2>2. id \in Surjection(DOMAIN outbox, sent)
    BY DEF Surjection
  <2>3. IsFiniteSet(sent) /\ Cardinality(sent) <= Len(outbox)
    BY <2>1, <2>2, FS_Surjection
  <2> QED
    BY <1>1, <2>3, FS_CardinalityType
<1>3. IsFiniteSet(sent \cup answered) /\ Cardinality(sent \cup answered) <= Capacity + 1
  <2> DEFINE others == sent \cup answered
  <2>1. others = sent \/ others = sent \cup {reply.msg_id}
    OBVIOUS
  <2> HIDE DEF others, sent, answered
  <2>2. Cardinality(sent) \in Nat
    BY <1>2, FS_CardinalityType
  <2>3. /\ IsFiniteSet(sent \cup {reply.msg_id})
        /\ Cardinality(sent \cup {reply.msg_id}) =
              IF reply.msg_id \in sent THEN Cardinality(sent) ELSE Cardinality(sent) + 1
    BY <1>2, FS_AddElement
  <2>4. IsFiniteSet(others) /\ Cardinality(others) <= Capacity + 1
    <3> DEFINE size == Cardinality(sent)
               bound == Cardinality(sent \cup {reply.msg_id})
    <3>1. size \in Nat /\ size <= Capacity /\ (bound = size \/ bound = size + 1)
      BY <1>2, <2>2, <2>3
    <3>2. bound <= Capacity + 1
      <4> HIDE DEF size, bound
      <4> QED
        BY <1>1, <3>1
    <3>3. CASE others = sent
      <4>1. size <= Capacity + 1
        <5> HIDE DEF size
        <5> QED
          BY <1>1, <3>1
      <4> QED
        BY <1>2, <3>3, <4>1
    <3>4. CASE others = sent \cup {reply.msg_id}
      BY <2>3, <3>2, <3>4
    <3> QED
      BY <2>1, <3>3, <3>4
  <2> QED
    BY <2>4 DEF others
<1>4. IsFiniteSet(busy) /\ Cardinality(busy) <= Capacity + 2
  <2> DEFINE others == sent \cup answered
  <2> HIDE DEF others
  <2>1. IsFiniteSet(others) /\ Cardinality(others) <= Capacity + 1
    BY <1>3 DEF others
  <2>2. Cardinality(others) \in Nat
    BY <2>1, FS_CardinalityType
  <2>3. /\ IsFiniteSet(others \cup {request.msg_id})
        /\ Cardinality(others \cup {request.msg_id}) =
              IF request.msg_id \in others THEN Cardinality(others) ELSE Cardinality(others) + 1
    BY <2>1, FS_AddElement
  <2>4. busy = others \cup {request.msg_id}
    BY DEF others
  <2> HIDE DEF busy
  <2> QED
    BY <1>1, <2>1, <2>2, <2>3, <2>4
<1>5. IsFiniteSet(ids) /\ Cardinality(ids) = Capacity + 3
  BY <1>1, FS_Interval
<1>6. \E m \in ids : m \notin busy
  <2> SUFFICES ASSUME ids \in SUBSET busy PROVE FALSE
    OBVIOUS
  <2>1. Cardinality(ids) <= Cardinality(busy)
    BY <1>4, FS_Subset
  <2>2. Cardinality(busy) \in Nat
    BY <1>4, FS_CardinalityType
  <2> QED
    BY <1>1, <1>4, <1>5, <2>1, <2>2
<1>7. S!FreshId = CHOOSE m \in ids : m \notin busy
  BY DEF S!FreshId
<1>8. S!FreshId \notin busy /\ S!FreshId \in ids
  BY <1>6, <1>7
<1>9. S!FreshId \in Nat \ {0}
  BY <1>1, <1>8
<1> QED
  BY <1>8, <1>9 DEF Packets

-----------------------------------------------------------------------------
(* What the sender does, as far as the invariant can tell                  *)

Quiet ==
    /\ UNCHANGED <<outbox, issued>>
    /\ reply' \in {reply, S!NoReply}
    /\ \/ UNCHANGED <<step, request, attempt, gateway_pk>>
       \/ step' \notin Waiting /\ request' \in {request, S!NoRequest}

Resends ==
    /\ UNCHANGED <<step, request, gateway_pk, issued, reply>>
    /\ step \in S!Asking
    /\ attempt < MaxAttempts /\ attempt' = attempt + 1
    /\ S!Transmit(gw, request)

Asks ==
    /\ UNCHANGED issued
    /\ reply' \in {reply, S!NoReply}
    /\ step' # "data" /\ attempt' = 1
    /\ step' = "meta" => gateway_pk' = Provisioned
    /\ IsGet(request') /\ request'.msg_id = S!FreshId /\ request'.kind \in {"meta", "pk"}
    /\ \E to : S!Transmit(to, request')

Seals ==
    /\ issued' = issued + 1
    /\ reply' \in {reply, S!NoReply}
    /\ step' = "data" /\ attempt' = 1
    /\ step = "meta" /\ S!Matches
    /\ reply.body.tag = "meta" /\ reply.body.key = gateway_pk
    /\ issued < MaxIssued
    /\ IsPost(request')
    /\ request' = [kind |-> "data", msg_id |-> S!FreshId, form |-> "ok",
                   key_id |-> reply.body.key_id, sender_id |-> SenderId,
                   sequence |-> state.next_counter, nonce |-> issued + 1,
                   sealed |-> gateway_pk]
    /\ \E to : S!Transmit(to, request')

Cut ==
    /\ UNCHANGED issued
    /\ reply' = S!NoReply
    /\ step' = "off" /\ request' = S!NoRequest
    /\ outbox' = [i \in DOMAIN outbox |-> [outbox[i] EXCEPT !.datagram.msg_id = 0]]

LEMMA GetIsGet ==
    \A what : what # "data" =>
        IsGet(S!Get(what)) /\ S!Get(what).msg_id = S!FreshId /\ S!Get(what).kind = what
BY DEF IsGet, S!Get

LEMMA StatesAreStates == IsState(S!NoState) /\ IsState(S!FirstState)
BY DEF IsState, S!NoState, S!FirstState

LEMMA SaveEffect == ASSUME IsState(saved), NEW s, IsState(s), S!Save(s) PROVE IsState(saved')
BY StatesAreStates DEF S!Save

LEMMA DiscoverEffect ==
  ASSUME NEW where \in S!Discovering, S!Discover(where), UNCHANGED issued,
         reply' \in {reply, S!NoReply}
  PROVE  Asks
BY GetIsGet DEF S!Discover, S!Ask, S!Discovering, Asks

LEMMA CycleFailsEffect ==
  ASSUME StateInv, S!CycleFails, UNCHANGED issued, reply' \in {reply, S!NoReply}
  PROVE  (Quiet \/ Asks) /\ StateInv'
<1>1. CASE failures + 1 < RefreshAfter
  BY <1>1 DEF S!CycleFails, S!Idle, Quiet, Waiting, S!Asking, S!Discovering, StateInv
<1>2. CASE ~(failures + 1 < RefreshAfter)
  <2>1. /\ state' = [state EXCEPT !.last_gateway_ip = NoAddress]
        /\ S!Save(state') /\ S!Discover("refresh")
    BY <1>2 DEF S!CycleFails
  <2>2. IsState(state')
    BY <2>1 DEF StateInv, IsState
  <2>3. IsState(saved')
    BY <2>1, <2>2, SaveEffect DEF StateInv
  <2>4. Asks
    BY <2>1, DiscoverEffect DEF S!Discovering
  <2> QED
    BY <2>2, <2>3, <2>4 DEF StateInv
<1> QED
  BY <1>1, <1>2

\* The sender holds a message for delivered when an OK answers its request.
Confirms ==
    /\ step = "data" /\ S!Matches /\ reply.body.tag = "OK"
    /\ confirmed' = confirmed \cup {request.nonce}
    /\ UNCHANGED issued

LEMMA SenderEffect ==
  ASSUME StateInv, S!Next
  PROVE  /\ Quiet \/ Resends \/ Asks \/ Seals \/ Cut
         /\ StateInv'
         /\ confirmed' = confirmed \/ Confirms
<1> USE DEF StateInv
<1>1. CASE S!PowerOn
  <2>1. S!Discover("resolve") /\ UNCHANGED <<issued, confirmed, reply>>
    BY <1>1 DEF S!PowerOn, S!history
  <2>2. Asks
    BY <2>1, DiscoverEffect DEF S!Discovering
  <2>3. IsState(state') /\ IsState(saved')
    BY <1>1, StatesAreStates DEF S!PowerOn
  <2> QED
    BY <2>1, <2>2, <2>3
<1>2. CASE S!DiscoveryTimesOut
  BY <1>2 DEF S!DiscoveryTimesOut, S!Idle, S!history, Quiet, Waiting, S!Asking, S!Discovering
<1>3. CASE S!StartCycle
  <2>1. S!Ask("pk", gw, S!Get("pk")) /\ UNCHANGED <<issued, confirmed, reply, state, saved>>
    BY <1>3 DEF S!StartCycle, S!history
  <2>2. Asks
    BY <2>1, GetIsGet DEF S!Ask, Asks
  <2> QED
    BY <2>1, <2>2
<1>4. CASE S!Resend
  BY <1>4 DEF S!Resend, S!history, Resends
<1>5. CASE S!OutOfAttempts
  <2>1. S!CycleFails /\ UNCHANGED <<issued, confirmed, reply>>
    BY <1>5 DEF S!OutOfAttempts, S!history
  <2> QED
    BY <2>1, CycleFailsEffect
<1>6. CASE S!Discovered
  BY <1>6 DEF S!Discovered, S!Receives, S!Idle, S!history, Quiet, Waiting, S!Asking, S!Discovering
<1>7. CASE S!PkAnswered
  <2>1. reply' = S!NoReply /\ UNCHANGED <<issued, confirmed>>
    BY <1>7 DEF S!PkAnswered, S!Receives, S!history
  <2>2. CASE S!CycleFails
    BY <2>1, <2>2, CycleFailsEffect
  <2>3. CASE /\ S!Ask("meta", gw, S!Get("meta")) /\ UNCHANGED <<state, saved>>
             /\ gateway_pk' = Provisioned
    <3>1. Asks
      BY <2>1, <2>3, GetIsGet DEF S!Ask, Asks
    <3> QED
      BY <2>1, <2>3, <3>1
  <2> QED
    BY <1>7, <2>2, <2>3 DEF S!PkAnswered, S!Verified
<1>8. CASE S!MetaRejected
  <2>1. S!CycleFails /\ reply' = S!NoReply /\ UNCHANGED <<issued, confirmed>>
    BY <1>8 DEF S!MetaRejected, S!Receives, S!history
  <2> QED
    BY <2>1, CycleFailsEffect
<1>9. CASE S!MetaAccepted
  <2>1. reply' = S!NoReply /\ UNCHANGED confirmed
    BY <1>9 DEF S!MetaAccepted, S!Receives
  <2>2. CASE S!CycleFails /\ UNCHANGED issued
    BY <2>1, <2>2, CycleFailsEffect
  <2>3. CASE S!Seal(reply.body)
    <3>1. /\ issued' = issued + 1 /\ step' = "data"
          /\ state' = [next_counter |-> state.next_counter + 1, last_gateway_ip |-> gw]
          /\ S!Save(state')
          /\ request' = [kind |-> "data", msg_id |-> S!FreshId, form |-> "ok",
                         key_id |-> reply.body.key_id, sender_id |-> SenderId,
                         sequence |-> state.next_counter, nonce |-> issued',
                         sealed |-> gateway_pk]
          /\ S!Transmit(gw, request')
      BY <2>3 DEF S!Seal, S!Ask
    <3>2. state.next_counter \in Nat
      BY DEF IsState
    <3>3. IsState(state')
      BY <3>1, <3>2 DEF IsState
    <3>4. IsState(saved')
      BY <3>1, <3>3, SaveEffect
    <3>5. IsPost(request')
      BY <3>1, <3>2 DEF IsPost
    <3>6. /\ step = "meta" /\ S!Matches /\ attempt' = 1 /\ issued < MaxIssued
          /\ reply.body.tag = "meta" /\ reply.body.key = gateway_pk
      BY <1>9, <2>3 DEF S!MetaAccepted, S!Receives, S!Valid, S!Seal, S!Ask
    <3> QED
      BY <2>1, <3>1, <3>3, <3>4, <3>5, <3>6 DEF Seals
  <2> QED
    BY <1>9, <2>2, <2>3 DEF S!MetaAccepted
<1>10. CASE S!DataConfirmed
  BY <1>10 DEF S!DataConfirmed, S!Receives, S!Idle, Quiet, Confirms, Waiting, S!Asking, S!Discovering
<1>11. CASE S!DataRejected
  <2>1. S!CycleFails /\ reply' = S!NoReply /\ UNCHANGED <<issued, confirmed>>
    BY <1>11 DEF S!DataRejected, S!Receives, S!history
  <2> QED
    BY <2>1, CycleFailsEffect
<1>12. CASE S!Skip
  BY <1>12 DEF S!Skip, S!task, S!history, Quiet
<1>13. CASE S!PowerOnFails
  BY <1>13 DEF S!PowerOnFails, S!history, Quiet, Waiting, S!Asking, S!Discovering
<1>14. CASE S!PowerCut
  BY <1>14, StatesAreStates DEF S!PowerCut, S!history, Cut
<1> QED
  BY <1>1, <1>2, <1>3, <1>4, <1>5, <1>6, <1>7, <1>8, <1>9, <1>10, <1>11, <1>12, <1>13, <1>14
     DEF S!Next, S!Waited, S!Answered

-----------------------------------------------------------------------------
(* What the gateway does, as far as the invariant can tell                 *)

LEMMA MetaUpdateEffect ==
  ASSUME NEW s, IsStore(s)
  PROVE  /\ IsStore(G!MetaUpdate(s))
         /\ G!MetaUpdate(s).last_sender_counter = s.last_sender_counter
BY DEF IsStore, G!MetaUpdate

LEMMA BootStoreEffect == ASSUME NEW s, IsStore(s) PROVE IsStore(G!BootStore(s))
<1> DEFINE m == G!MetaUpdate(s)
<1>1. IsStore(m)
  BY MetaUpdateEffect
<1> HIDE DEF m
<1>2. IsStore([m EXCEPT !.last_sender_counter = 0])
  BY <1>1 DEF IsStore
<1> QED
  BY <1>2 DEF G!BootStore, m

LEMMA ConsumedEffect ==
  ASSUME NEW s, IsStore(s), NEW d, d.sequence \in Nat
  PROVE  /\ IsStore(G!Consumed(s, d))
         /\ G!Consumed(s, d).last_sender_counter = d.sequence
<1> DEFINE n == d.sequence
           count == s.message_count + 1
           marked == [s EXCEPT !.last_sender_counter = n]
           counted == [marked EXCEPT !.message_count = count]
<1>1. n \in Nat
  OBVIOUS
<1>2. G!Consumed(s, d) = G!MetaUpdate(counted)
  BY Zenon DEF G!Consumed
<1> HIDE DEF n, count
<1>3. IsStore(marked) /\ marked.last_sender_counter = n
  BY <1>1 DEF IsStore
<1> HIDE DEF marked
<1>4. IsStore(counted) /\ counted.last_sender_counter = n
  BY <1>3 DEF IsStore
<1> HIDE DEF counted
<1>5. IsStore(G!MetaUpdate(counted)) /\ G!MetaUpdate(counted).last_sender_counter = n
  BY <1>4, MetaUpdateEffect
<1> QED
  BY <1>2, <1>5 DEF n

LEMMA PowerEffect ==
  ASSUME StoreInv, AcceptedInv, G!Power
  PROVE  /\ StoreInv'
         /\ accepted' = <<>>
         /\ reply' \in {reply, S!NoReply}
<1> USE DEF StoreInv, AcceptedInv
<1>1. \A k : IsStore(G!NewStore(k)) /\ IsStore(G!BootStore(G!NewStore(k)))
  <2>1. \A k : IsStore(G!NewStore(k))
    BY DEF G!NewStore, IsStore
  <2> QED
    BY <2>1, BootStoreEffect
<1>2. CASE G!BootFromFlash
  BY <1>2, BootStoreEffect DEF G!BootFromFlash, G!MaySave
<1>3. CASE G!BootWithNewKey
  BY <1>1, <1>3 DEF G!BootWithNewKey
<1>4. CASE G!BootFails
  BY <1>1, <1>4, BootStoreEffect DEF G!BootFails, G!MaySave, G!ram
<1>5. CASE G!PowerCycle
  BY <1>5 DEF G!PowerCycle, G!ClearRam, G!NoReply, S!NoReply
<1>6. CASE G!FlashLost
  BY <1>6 DEF G!FlashLost, G!ram
<1> QED
  BY <1>2, <1>3, <1>4, <1>5, <1>6 DEF G!Power

\* A datagram that is not taken: the gateway forgets nothing and says no OK.
Declines ==
    /\ UNCHANGED accepted
    /\ store'.last_sender_counter = store.last_sender_counter
    /\ reply' # S!NoReply => reply'.body.tag # "OK"

Takes(d) ==
    /\ d.kind = "data"
    /\ ~(d.sequence <= store.last_sender_counter)
    /\ accepted' = Append(accepted, [sequence |-> d.sequence, nonce |-> d.nonce])
    /\ store'.last_sender_counter = d.sequence
    /\ reply'.msg_id = d.msg_id

LEMMA ReceiveEffect ==
  ASSUME StoreInv, NEW d, IsGet(d) \/ IsPost(d), G!Receive(SenderAddress, d)
  PROVE  /\ mode = "listening" /\ mode' = mode
         /\ StoreInv'
         /\ (reply' # S!NoReply => reply'.msg_id = d.msg_id)
         /\ Declines \/ Takes(d)
<1> DEFINE p == SenderAddress
<1>1. mode = "listening" /\ mode' = mode
  BY DEF G!Receive, G!Malformed, G!Refused, G!BadHeader, G!NotFound, G!Throttled, G!ServeMeta,
         G!ServePk, G!PostToSpentKey, G!PostRejected, G!PostAccepted, G!Admitted, G!Dispatched, G!Rest
<1>2. IsStore(store) /\ (flash = G!NoStore \/ IsStore(flash))
  BY <1>1 DEF StoreInv
<1>3. IsStore(G!MetaUpdate(store)) /\ G!MetaUpdate(store).last_sender_counter = store.last_sender_counter
  BY <1>2, MetaUpdateEffect
<1>4. ASSUME UNCHANGED <<accepted, flash>>, store' \in {store, G!MetaUpdate(store)}
      PROVE  StoreInv' /\ store'.last_sender_counter = store.last_sender_counter
  BY <1>2, <1>3, <1>4 DEF StoreInv
<1>5. CASE G!Malformed(p, d)
  BY <1>1, <1>4, <1>5 DEF G!Malformed, G!Accepts, G!NoReply, S!NoReply, Declines
<1>6. CASE G!Refused(p, d) \/ G!BadHeader(p, d)
  BY <1>1, <1>4, <1>6 DEF G!Refused, G!BadHeader, G!Accepts, G!Answer, G!Text, Declines
<1>7. CASE G!NotFound(p, d) \/ G!Throttled(p, d) \/ G!PostToSpentKey(p, d)
  BY <1>1, <1>4, <1>7 DEF G!NotFound, G!Throttled, G!PostToSpentKey, G!Accepts, G!Answer, G!Text, Declines
<1>8. CASE G!ServeMeta(p, d) \/ G!ServePk(p, d)
  BY <1>1, <1>4, <1>8 DEF G!ServeMeta, G!ServePk, G!Accepts, G!Answer, G!Text, Declines
<1>9. CASE G!PostRejected(p, d)
  <2>1. \A i \in DOMAIN G!CheckOrder : G!CheckOrder[i] # "OK"
    BY DEF G!CheckOrder
  <2>2. PICK i \in DOMAIN G!CheckOrder : G!Answer(p, d, G!Text(G!CheckOrder[i]))
    BY <1>9 DEF G!PostRejected
  <2>3. reply'.msg_id = d.msg_id /\ reply'.body.tag # "OK"
    BY <2>1, <2>2 DEF G!Answer, G!Text
  <2>4. UNCHANGED <<accepted, flash>> /\ store' = G!MetaUpdate(store)
    BY <1>9 DEF G!PostRejected, G!Accepts
  <2> QED
    BY <1>1, <1>4, <2>3, <2>4 DEF Declines
<1>10. CASE G!PostAccepted(p, d)
  <2>1. d.kind = "data" /\ d.sequence \in Nat
    BY <1>10 DEF G!PostAccepted, G!Admitted, IsGet, IsPost
  <2>2. /\ store' = G!Consumed(G!MetaUpdate(store), d) /\ flash' \in {flash, store'}
        /\ reply' = [to |-> p, msg_id |-> d.msg_id, body |-> G!Text("OK")]
        /\ accepted' = Append(accepted, [sequence |-> d.sequence, nonce |-> d.nonce])
    BY <1>10 DEF G!PostAccepted, G!MaySave, G!Answer
  <2>3. IsStore(store') /\ store'.last_sender_counter = d.sequence
    BY <1>3, <2>1, <2>2, ConsumedEffect
  <2>4. ~(d.sequence <= store.last_sender_counter)
    <3>1. 7 \in DOMAIN G!CheckOrder /\ G!CheckOrder[7] = "REPLAY_SEQ"
      BY DEF G!CheckOrder
    <3>2. ~G!Fails(d, "REPLAY_SEQ")
      BY <1>10, <3>1 DEF G!PostAccepted
    <3> QED
      BY <3>2 DEF G!Fails
  <2> QED
    BY <1>1, <1>2, <2>1, <2>2, <2>3, <2>4 DEF StoreInv, Takes
<1> QED
  BY <1>5, <1>6, <1>7, <1>8, <1>9, <1>10 DEF G!Receive

-----------------------------------------------------------------------------
(* Every step keeps the invariant                                          *)

LEMMA LinkInit == Init => LinkInv
<1> SUFFICES ASSUME Init PROVE LinkInv
  OBVIOUS
<1>1. /\ outbox = <<>> /\ issued = 0 /\ accepted = <<>> /\ mode = "off" /\ step = "off"
      /\ flash = G!NoStore /\ request = S!NoRequest /\ state = S!NoState /\ saved = S!NoState
  BY DEF Init, S!Init, G!Init
<1>2. Packets = {} /\ outbox \in Seq(Packets) /\ Len(outbox) <= Capacity
  BY <1>1, LinkAssumption DEF Packets
<1>3. IsGet(request)
  BY <1>1 DEF IsGet, S!NoRequest
<1> QED
  BY <1>1, <1>2, <1>3, StatesAreStates
     DEF LinkInv, StateInv, StoreInv, ChannelInv, ExchangeInv, MessageInv, AcceptedInv,
         Waiting, S!Asking, S!Discovering, Sent, IsGet

\* No new message: what is sent has been sent before.
LEMMA SentBefore ==
  ASSUME MessageInv, AcceptedInv, UNCHANGED <<issued, accepted, mode>>,
         accepted # <<>> => store'.last_sender_counter = store.last_sender_counter,
         \A d \in Sent' : d.kind = "data" =>
            \E e \in Sent : e.kind = "data" /\ e.nonce = d.nonce /\ e.sequence = d.sequence
  PROVE  MessageInv' /\ AcceptedInv'
<1>1. MessageInv'
  <2>1. ASSUME NEW d \in Sent', d.kind = "data" PROVE d.nonce \in 1..issued'
    BY <2>1 DEF MessageInv
  <2>2. ASSUME NEW d \in Sent', NEW e \in Sent', d.kind = "data", e.kind = "data", d.nonce = e.nonce
        PROVE  d.sequence = e.sequence
    <3>1. PICK x \in Sent : x.kind = "data" /\ x.nonce = d.nonce /\ x.sequence = d.sequence
      BY <2>2
    <3>2. PICK y \in Sent : y.kind = "data" /\ y.nonce = e.nonce /\ y.sequence = e.sequence
      BY <2>2
    <3> QED
      BY <2>2, <3>1, <3>2 DEF MessageInv
  <2>3. issued' \in Nat
    BY DEF MessageInv
  <2> QED
    BY <2>1, <2>2, <2>3 DEF MessageInv
<1>2. AcceptedInv'
  <2>1. ASSUME NEW i \in DOMAIN accepted'
        PROVE  /\ accepted'[i].nonce \in 1..issued'
               /\ accepted'[i].sequence <= store'.last_sender_counter
               /\ \A d \in Sent' : d.kind = "data" /\ d.nonce = accepted'[i].nonce =>
                                      d.sequence = accepted'[i].sequence
    <3>1. i \in DOMAIN accepted /\ accepted' = accepted /\ accepted # <<>>
      BY <2>1
    <3> QED
      BY <3>1 DEF AcceptedInv
  <2> QED
    BY <2>1 DEF AcceptedInv
<1> QED
  BY <1>1, <1>2

\* The datagrams after a transmission.
LEMMA SentAfter ==
  ASSUME ChannelInv, IsGet(request') \/ IsPost(request'), NEW to, S!Transmit(to, request')
  PROVE  /\ outbox' \in Seq(Packets') /\ Len(outbox') <= Capacity
         /\ \A p \in Packets' : IsPacket(p)
         /\ \A p \in Packets' : p \in Packets \/ p.datagram = request'
         /\ \A d \in Sent' : d \in Sent \/ d = request'
<1>1. /\ outbox' \in Seq(Packets') /\ Len(outbox') <= Capacity
      /\ \A p \in Packets' : p \in Packets \/ p = [to |-> to, datagram |-> request']
      /\ \A p \in Packets' : IsPacket(p)
  BY TransmitEffect
<1> QED
  BY <1>1 DEF Sent

LEMMA QuietStep ==
  ASSUME LinkInv, Quiet, UNCHANGED <<store, accepted, mode, taken>>
  PROVE  ChannelInv' /\ ExchangeInv' /\ MessageInv' /\ AcceptedInv'
<1> USE DEF LinkInv
<1>1. /\ UNCHANGED <<outbox, issued>> /\ reply' \in {reply, S!NoReply}
      /\ UNCHANGED <<step, request>> \/ (step' \notin Waiting /\ request' \in {request, S!NoRequest})
  BY DEF Quiet
<1>2. Packets' = Packets
  BY <1>1 DEF Packets
<1>3. IsGet(S!NoRequest) /\ S!NoRequest.kind # "data"
  BY DEF IsGet, S!NoRequest
<1>4. ChannelInv'
  BY <1>1, <1>2, <1>3 DEF ChannelInv, Waiting, S!Asking
<1>5. ExchangeInv'
  BY <1>1, <1>2 DEF ExchangeInv, Waiting, S!Asking
<1>6. \A d \in Sent' : d.kind = "data" => d \in Sent
  BY <1>1, <1>2, <1>3 DEF Sent
<1> QED
  BY <1>1, <1>4, <1>5, <1>6, SentBefore

LEMMA ResendsStep ==
  ASSUME LinkInv, Resends, UNCHANGED <<store, accepted, mode, taken>>
  PROVE  ChannelInv' /\ ExchangeInv' /\ MessageInv' /\ AcceptedInv'
<1> USE DEF LinkInv
<1>1. UNCHANGED <<step, request, issued, reply>> /\ S!Transmit(gw, request')
      /\ (IsGet(request') \/ IsPost(request'))
  BY DEF Resends, ChannelInv
<1>2. /\ outbox' \in Seq(Packets') /\ Len(outbox') <= Capacity
      /\ \A p \in Packets' : IsPacket(p)
      /\ \A p \in Packets' : p \in Packets \/ p.datagram = request'
      /\ \A d \in Sent' : d \in Sent \/ d = request'
  BY <1>1, SentAfter
<1>3. ChannelInv'
  BY <1>1, <1>2 DEF ChannelInv
<1>4. ExchangeInv'
  BY <1>1, <1>2 DEF ExchangeInv
<1>5. \A d \in Sent' : d \in Sent
  BY <1>1, <1>2 DEF Sent
<1> QED
  BY <1>1, <1>3, <1>4, <1>5, SentBefore

LEMMA AsksStep ==
  ASSUME LinkInv, Asks, UNCHANGED <<store, accepted, mode, taken>>
  PROVE  ChannelInv' /\ ExchangeInv' /\ MessageInv' /\ AcceptedInv'
<1> USE DEF LinkInv
<1>1. /\ UNCHANGED issued /\ step' # "data" /\ IsGet(request')
      /\ request'.msg_id = S!FreshId
  BY DEF Asks
<1>2. /\ outbox' \in Seq(Packets') /\ Len(outbox') <= Capacity
      /\ \A p \in Packets' : IsPacket(p)
      /\ \A p \in Packets' : p \in Packets \/ p.datagram = request'
      /\ \A d \in Sent' : d \in Sent \/ d = request'
  BY <1>1, SentAfter DEF Asks
<1>3. ChannelInv'
  BY <1>1, <1>2 DEF ChannelInv
<1>4. \A p \in Packets : p.datagram.msg_id # request'.msg_id
  BY <1>1, FreshIdEffect
<1>5. ExchangeInv'
  BY <1>1, <1>2, <1>4 DEF ExchangeInv
<1>6. \A d \in Sent' : d.kind = "data" => d \in Sent
  BY <1>1, <1>2 DEF IsGet
<1> QED
  BY <1>1, <1>3, <1>5, <1>6, SentBefore

LEMMA CutStep ==
  ASSUME LinkInv, Cut, UNCHANGED <<store, accepted, mode, taken>>
  PROVE  ChannelInv' /\ ExchangeInv' /\ MessageInv' /\ AcceptedInv'
<1> USE DEF LinkInv
<1>1. UNCHANGED issued /\ step' = "off" /\ request' = S!NoRequest
  BY DEF Cut
<1>2. /\ outbox' \in Seq(Packets')
      /\ Len(outbox') <= Capacity
      /\ \A p \in Packets' : \E q \in Packets :
            p = [to |-> q.to, datagram |-> [q.datagram EXCEPT !.msg_id = 0]]
      /\ \A p \in Packets' : IsPacket(p)
  BY CutEffect DEF Cut
<1>3. IsGet(S!NoRequest) /\ S!NoRequest.kind # "data"
  BY DEF IsGet, S!NoRequest
<1>4. ChannelInv'
  BY <1>1, <1>2, <1>3 DEF ChannelInv
<1>5. ExchangeInv'
  BY <1>1 DEF ExchangeInv, Waiting, S!Asking, S!Discovering
<1>6. ASSUME NEW d \in Sent', d.kind = "data"
      PROVE  \E e \in Sent : e.kind = "data" /\ e.nonce = d.nonce /\ e.sequence = d.sequence
  <2>1. PICK p \in Packets' : d = p.datagram
    BY <1>1, <1>3, <1>6 DEF Sent
  <2>2. PICK q \in Packets : p = [to |-> q.to, datagram |-> [q.datagram EXCEPT !.msg_id = 0]]
    BY <1>2
  <2>3. d = [q.datagram EXCEPT !.msg_id = 0] /\ q.datagram \in Sent
    BY <2>1, <2>2 DEF Sent
  <2>4. IsGet(q.datagram) \/ IsPost(q.datagram)
    BY DEF ChannelInv, IsPacket
  <2>5. d.kind = q.datagram.kind
    BY <2>3, <2>4 DEF IsGet, IsPost
  <2>6. IsPost(q.datagram)
    BY <1>6, <2>4, <2>5 DEF IsGet
  <2>7. d.nonce = q.datagram.nonce /\ d.sequence = q.datagram.sequence
    BY <2>3, <2>6 DEF IsPost
  <2> QED
    BY <1>6, <2>3, <2>5, <2>7
<1> QED
  BY <1>1, <1>4, <1>5, <1>6, SentBefore

\* A new message has a number that none has had.
LEMMA SealsStep ==
  ASSUME LinkInv, Seals, UNCHANGED <<store, accepted, mode, taken>>
  PROVE  ChannelInv' /\ ExchangeInv' /\ MessageInv' /\ AcceptedInv'
<1> USE DEF LinkInv
<1>1. /\ issued' = issued + 1 /\ reply' \in {reply, S!NoReply} /\ step' = "data"
      /\ IsPost(request') /\ request'.kind = "data"
      /\ request'.msg_id = S!FreshId /\ request'.nonce = issued + 1
      /\ issued \in Nat
  BY DEF Seals, IsPost, MessageInv
<1>2. /\ outbox' \in Seq(Packets') /\ Len(outbox') <= Capacity
      /\ \A p \in Packets' : IsPacket(p)
      /\ \A p \in Packets' : p \in Packets \/ p.datagram = request'
      /\ \A d \in Sent' : d \in Sent \/ d = request'
  BY <1>1, SentAfter DEF Seals
<1>3. ChannelInv'
  BY <1>1, <1>2 DEF ChannelInv
<1>4. /\ \A p \in Packets : p.datagram.msg_id # request'.msg_id
      /\ reply # S!NoReply => reply.msg_id # request'.msg_id
  BY <1>1, FreshIdEffect
<1>5. ExchangeInv'
  BY <1>1, <1>2, <1>4 DEF ExchangeInv
<1>6. \A d \in Sent : d.kind = "data" => d.nonce \in 1..issued /\ d.nonce # request'.nonce
  BY <1>1 DEF MessageInv
<1>7. MessageInv'
  <2>1. ASSUME NEW d \in Sent', d.kind = "data" PROVE d.nonce \in 1..issued'
    BY <1>1, <1>2, <1>6, <2>1
  <2>2. ASSUME NEW d \in Sent', NEW e \in Sent', d.kind = "data", e.kind = "data", d.nonce = e.nonce
        PROVE  d.sequence = e.sequence
    BY <1>2, <1>6, <2>2 DEF MessageInv
  <2>3. issued' \in Nat
    BY <1>1
  <2> QED
    BY <2>1, <2>2, <2>3 DEF MessageInv
<1>8. AcceptedInv'
  <2>1. ASSUME NEW i \in DOMAIN accepted
        PROVE  /\ accepted[i].nonce \in 1..issued' /\ accepted[i].nonce # request'.nonce
    <3>1. accepted[i].nonce \in 1..issued
      BY DEF AcceptedInv
    <3> QED
      BY <1>1, <3>1
  <2>2. ASSUME NEW i \in DOMAIN accepted, NEW d \in Sent', d.kind = "data",
               d.nonce = accepted[i].nonce
        PROVE  d.sequence = accepted[i].sequence
    BY <1>2, <2>1, <2>2 DEF AcceptedInv
  <2> QED
    BY <2>1, <2>2 DEF AcceptedInv
<1> QED
  BY <1>3, <1>5, <1>7, <1>8
\* A datagram is lost.
LEMMA RemovedKeeps ==
  ASSUME LinkInv, NEW i \in DOMAIN outbox, outbox' = RemoveAt(outbox, i),
         UNCHANGED <<step, request>>
  PROVE  /\ ChannelInv'
         /\ Packets' \subseteq Packets
         /\ Sent' \subseteq Sent
         /\ step' \in Waiting =>
               \A p \in Packets' : p.datagram.msg_id = request'.msg_id => p.datagram = request'
<1> USE DEF LinkInv
<1>1. outbox' \in Seq(Packets') /\ Len(outbox') <= Capacity /\ Packets' \subseteq Packets
  BY RemoveEffect
<1>2. Sent' \subseteq Sent
  BY <1>1 DEF Sent
<1>3. ChannelInv'
  BY <1>1 DEF ChannelInv
<1> QED
  BY <1>1, <1>2, <1>3 DEF ExchangeInv, Waiting

LEMMA LossStep ==
  ASSUME LinkInv, NEW i \in DOMAIN outbox, outbox' = RemoveAt(outbox, i),
         UNCHANGED <<step, request, reply, issued, store, accepted, mode, taken>>
  PROVE  ChannelInv' /\ ExchangeInv' /\ MessageInv' /\ AcceptedInv'
<1> USE DEF LinkInv
<1>1. /\ ChannelInv' /\ Sent' \subseteq Sent
      /\ step' \in Waiting =>
            \A p \in Packets' : p.datagram.msg_id = request'.msg_id => p.datagram = request'
  BY RemovedKeeps
<1>2. ExchangeInv'
  BY <1>1 DEF ExchangeInv
<1>3. MessageInv' /\ AcceptedInv'
  BY <1>1, SentBefore
<1> QED
  BY <1>1, <1>2, <1>3

\* Nothing but the answer is lost.
LEMMA AnswerLost ==
  ASSUME LinkInv, reply' \in {reply, S!NoReply},
         UNCHANGED <<step, request, outbox, issued, store, accepted, mode, taken>>
  PROVE  ChannelInv' /\ ExchangeInv' /\ MessageInv' /\ AcceptedInv'
<1> USE DEF LinkInv
<1>1. Packets' = Packets /\ Sent' = Sent
  BY DEF Packets, Sent
<1>2. ChannelInv'
  BY <1>1 DEF ChannelInv
<1>3. ExchangeInv'
  BY <1>1 DEF ExchangeInv, Waiting
<1>4. MessageInv' /\ AcceptedInv'
  BY <1>1, SentBefore
<1> QED
  BY <1>2, <1>3, <1>4

\* What the gateway takes, it has not taken since it started.
LEMMA TakenIsNew ==
  ASSUME LinkInv, NEW d \in Sent, Takes(d)
  PROVE  /\ d.nonce \in 1..issued
         /\ \A i \in DOMAIN accepted : accepted[i].nonce # d.nonce
         /\ accepted' \in Seq([sequence: Nat, nonce: Nat])
         /\ accepted' # accepted
         /\ Len(accepted') = Len(accepted) + 1
         /\ \A i \in DOMAIN accepted : accepted'[i] = accepted[i]
         /\ accepted'[Len(accepted) + 1] = [sequence |-> d.sequence, nonce |-> d.nonce]
<1> USE DEF LinkInv
<1>1. d.kind = "data" /\ ~(d.sequence <= store.last_sender_counter)
  BY DEF Takes
<1>2. d.nonce \in 1..issued /\ issued \in Nat
  BY <1>1 DEF MessageInv
<1>3. IsGet(d) \/ IsPost(d)
  BY DEF ChannelInv, Sent, IsPacket
<1>4. d.sequence \in Nat
  BY <1>1, <1>3 DEF IsGet, IsPost
<1>5. \A i \in DOMAIN accepted : accepted[i].nonce # d.nonce
  <2> SUFFICES ASSUME NEW i \in DOMAIN accepted, accepted[i].nonce = d.nonce PROVE FALSE
    OBVIOUS
  <2>1. d.sequence = accepted[i].sequence /\ accepted[i].sequence <= store.last_sender_counter
    BY <1>1 DEF AcceptedInv
  <2> QED
    BY <1>1, <2>1
<1> DEFINE Taken == [sequence: Nat, nonce: Nat]
           new == [sequence |-> d.sequence, nonce |-> d.nonce]
<1>6. new \in Taken
  BY <1>2, <1>4
<1>7. accepted \in Seq(Taken) /\ accepted' = Append(accepted, new)
  BY DEF AcceptedInv, Takes
<1> HIDE DEF new, Taken
<1>8. /\ accepted' \in Seq(Taken)
      /\ Len(accepted') = Len(accepted) + 1
      /\ \A i \in 1..Len(accepted) : accepted'[i] = accepted[i]
      /\ accepted'[Len(accepted) + 1] = new
  BY <1>6, <1>7, AppendProperties
<1>9. DOMAIN accepted = 1..Len(accepted) /\ Len(accepted) \in Nat
  BY <1>7
<1>10. accepted' # accepted
  BY <1>8, <1>9
<1> QED
  BY <1>2, <1>5, <1>8, <1>9, <1>10 DEF new, Taken

LEMMA DeliverStep ==
  ASSUME LinkInv, Deliver
  PROVE  LinkInv'
<1> USE DEF LinkInv
<1>1. PICK i \in DOMAIN outbox :
         /\ G!Receive(SenderAddress, outbox[i].datagram)
         /\ outbox' = RemoveAt(outbox, i)
         /\ taken' = IF accepted' = accepted THEN taken ELSE taken \cup {outbox[i].datagram.nonce}
         /\ UNCHANGED <<sender, link>>
  BY DEF Deliver, DeliverTo
<1> DEFINE d == outbox[i].datagram
<1>2. outbox[i] \in Packets /\ d \in Sent /\ (IsGet(d) \/ IsPost(d))
  BY DEF Packets, Sent, ChannelInv, IsPacket
<1>3. UNCHANGED <<step, state, saved, request, issued>>
  BY <1>1 DEF sender
<1>4. /\ mode = "listening" /\ mode' = mode
      /\ StoreInv'
      /\ (reply' # S!NoReply => reply'.msg_id = d.msg_id)
      /\ Declines \/ Takes(d)
  BY <1>1, <1>2, ReceiveEffect
<1>5. /\ ChannelInv' /\ Sent' \subseteq Sent
      /\ step' \in Waiting =>
            \A p \in Packets' : p.datagram.msg_id = request'.msg_id => p.datagram = request'
  BY <1>1, <1>3, RemovedKeeps
<1>6. StateInv'
  BY <1>3 DEF StateInv, IsState
<1>7. CASE Declines
  <2>1. ExchangeInv'
    BY <1>5, <1>7 DEF ExchangeInv, Declines
  <2>2. MessageInv' /\ AcceptedInv'
    BY <1>3, <1>4, <1>5, <1>7, SentBefore DEF Declines
  <2> QED
    BY <1>4, <1>5, <1>6, <2>1, <2>2
<1>8. CASE Takes(d)
  <2> HIDE DEF d
  <2>1. /\ d.nonce \in 1..issued
        /\ accepted' \in Seq([sequence: Nat, nonce: Nat])
        /\ accepted' # accepted
        /\ Len(accepted') = Len(accepted) + 1
        /\ \A j \in DOMAIN accepted : accepted'[j] = accepted[j]
        /\ accepted'[Len(accepted) + 1] = [sequence |-> d.sequence, nonce |-> d.nonce]
    BY <1>2, <1>8, TakenIsNew
  <2>2. taken' = taken \cup {d.nonce}
    BY <1>1, <2>1 DEF d
  <2>3. ExchangeInv'
    <3>1. ASSUME step' = "data", reply' # S!NoReply, reply'.msg_id = request'.msg_id
          PROVE  request'.nonce \in taken'
      <4>1. step \in Waiting /\ d.msg_id = request.msg_id
        BY <1>3, <1>4, <3>1 DEF Waiting, S!Asking
      <4>2. d = request
        BY <1>2, <4>1 DEF ExchangeInv, d
      <4> QED
        BY <1>3, <2>2, <4>2
    <3> QED
      BY <1>5, <3>1 DEF ExchangeInv
  <2>4. MessageInv'
    BY <1>3, <1>5 DEF MessageInv
  <2>5. AcceptedInv'
    <3>1. d.kind = "data" /\ store'.last_sender_counter = d.sequence
          /\ ~(d.sequence <= store.last_sender_counter)
      BY <1>8 DEF Takes
    <3>2. d.sequence \in Nat
      BY <1>2, <3>1 DEF IsGet, IsPost
    <3>3. store.last_sender_counter \in Nat
      BY <1>4 DEF StoreInv, IsStore
    <3>4. ASSUME NEW j \in DOMAIN accepted'
          PROVE  /\ accepted'[j].nonce \in 1..issued'
                 /\ accepted'[j].sequence <= store'.last_sender_counter
                 /\ \A e \in Sent' : e.kind = "data" /\ e.nonce = accepted'[j].nonce =>
                                        e.sequence = accepted'[j].sequence
      <4>1. Len(accepted) \in Nat /\ DOMAIN accepted = 1..Len(accepted)
        BY DEF AcceptedInv
      <4>2. j \in DOMAIN accepted \/ j = Len(accepted) + 1
        BY <2>1, <4>1
      <4>3. CASE j \in DOMAIN accepted
        <5>1. accepted'[j] = accepted[j] /\ accepted[j].sequence \in Nat
          <6>1. accepted[j] \in [sequence: Nat, nonce: Nat]
            BY <4>1, <4>3, ElementOfSeq DEF AcceptedInv
          <6> QED
            BY <2>1, <4>3, <6>1
        <5>2. /\ accepted[j].nonce \in 1..issued
              /\ accepted[j].sequence <= store.last_sender_counter
              /\ \A e \in Sent : e.kind = "data" /\ e.nonce = accepted[j].nonce =>
                                    e.sequence = accepted[j].sequence
          BY <4>3 DEF AcceptedInv
        <5>3. accepted[j].sequence <= d.sequence
          BY <3>1, <3>2, <3>3, <5>1, <5>2
        <5> QED
          BY <1>3, <1>5, <3>1, <5>1, <5>2, <5>3
      <4>4. CASE j = Len(accepted) + 1
        <5>1. accepted'[j].nonce = d.nonce /\ accepted'[j].sequence = d.sequence
          BY <2>1, <4>4
        <5>2. \A e \in Sent' : e.kind = "data" /\ e.nonce = d.nonce => e.sequence = d.sequence
          BY <1>2, <1>5, <3>1 DEF MessageInv
        <5> QED
          BY <1>3, <2>1, <3>1, <3>2, <5>1, <5>2
      <4> QED
        BY <4>2, <4>3, <4>4
    <3> QED
      BY <1>4, <2>1, <3>4 DEF AcceptedInv
  <2> QED
    BY <1>4, <1>5, <1>6, <2>3, <2>4, <2>5
<1> QED
  BY <1>4, <1>7, <1>8

\* The gateway's power: what it has taken is forgotten.
LEMMA GatewayPowerStep ==
  ASSUME LinkInv, GatewayPower
  PROVE  LinkInv'
<1> USE DEF LinkInv
<1>1. /\ UNCHANGED <<step, state, saved, request, issued, outbox, taken>>
      /\ G!Power
  BY DEF GatewayPower, sender
<1>2. StoreInv' /\ accepted' = <<>> /\ reply' \in {reply, S!NoReply}
  BY <1>1, PowerEffect
<1>3. Packets' = Packets /\ Sent' = Sent
  BY <1>1 DEF Packets, Sent
<1>4. StateInv'
  BY <1>1 DEF StateInv, IsState
<1>5. ChannelInv'
  BY <1>1, <1>3 DEF ChannelInv
<1>6. ExchangeInv'
  BY <1>1, <1>2, <1>3 DEF ExchangeInv, Waiting
<1>7. MessageInv'
  BY <1>1, <1>3 DEF MessageInv
<1>8. AcceptedInv'
  BY <1>2 DEF AcceptedInv
<1> QED
  BY <1>2, <1>4, <1>5, <1>6, <1>7, <1>8

LEMMA StoreStays ==
  ASSUME StoreInv, UNCHANGED <<mode, store, flash>>
  PROVE  StoreInv'
BY DEF StoreInv, IsStore

LEMMA SenderStepKeeps ==
  ASSUME LinkInv, SenderStep
  PROVE  LinkInv'
<1> USE DEF LinkInv
<1>1. S!Next /\ UNCHANGED <<mode, store, flash, accepted, taken>>
  BY DEF SenderStep
<1>2. (Quiet \/ Resends \/ Asks \/ Seals \/ Cut) /\ StateInv'
  BY <1>1, SenderEffect
<1>3. StoreInv'
  BY <1>1, StoreStays
<1>4. ChannelInv' /\ ExchangeInv' /\ MessageInv' /\ AcceptedInv'
  BY <1>1, <1>2, QuietStep, ResendsStep, AsksStep, SealsStep, CutStep
<1> QED
  BY <1>2, <1>3, <1>4

LEMMA LinkStep == LinkInv /\ [Next]_vars => LinkInv'
<1> SUFFICES ASSUME LinkInv, [Next]_vars PROVE LinkInv'
  OBVIOUS
<1> USE DEF LinkInv
<1>1. ASSUME reply' \in {reply, S!NoReply},
             UNCHANGED <<sender, outbox, mode, store, flash, accepted, taken>>
      PROVE  LinkInv'
  <2>1. StateInv'
    BY <1>1 DEF StateInv, IsState, sender
  <2>2. StoreInv'
    BY <1>1, StoreStays
  <2> QED
    BY <1>1, <2>1, <2>2, AnswerLost DEF sender
<1>2. CASE SenderStep
  BY <1>2, SenderStepKeeps
<1>3. CASE Deliver
  BY <1>3, DeliverStep
<1>4. CASE LoseDatagram
  <2>1. StateInv'
    BY <1>4 DEF LoseDatagram, StateInv, IsState, sender
  <2>2. StoreInv'
    BY <1>4, StoreStays DEF LoseDatagram, gateway
  <2>3. ChannelInv' /\ ExchangeInv' /\ MessageInv' /\ AcceptedInv'
    BY <1>4, LossStep DEF LoseDatagram, sender, gateway
  <2> QED
    BY <2>1, <2>2, <2>3
<1>5. CASE LoseReply
  BY <1>1, <1>5 DEF LoseReply, gateway, G!NoReply, S!NoReply
<1>6. CASE GatewayPower
  BY <1>6, GatewayPowerStep
<1>7. CASE Move
  BY <1>1, <1>7 DEF Move, gateway
<1>8. CASE UNCHANGED vars
  BY <1>1, <1>8 DEF vars, gateway
<1> QED
  BY <1>2, <1>3, <1>4, <1>5, <1>6, <1>7, <1>8 DEF Next

-----------------------------------------------------------------------------
(* Every step is one of Delivery                                           *)

Nonces == {accepted[i].nonce : i \in DOMAIN accepted}

LEMMA PromiseInit == Init => Promise!Init
BY DEF Init, S!Init, G!Init, Promise!Init

LEMMA SenderStepPromised ==
  ASSUME LinkInv, SenderStep
  PROVE  [Promise!Next]_(Promise!vars)
<1> USE DEF LinkInv
<1>1. S!Next /\ UNCHANGED <<accepted, taken>>
  BY DEF SenderStep
<1>2. (Quiet \/ Resends \/ Asks \/ Seals \/ Cut) /\ (confirmed' = confirmed \/ Confirms)
  BY <1>1, SenderEffect
<1>3. issued' \in {issued, issued + 1}
  BY <1>2 DEF Quiet, Resends, Asks, Seals, Cut
<1>4. CASE confirmed' = confirmed /\ issued' = issued
  BY <1>1, <1>4 DEF Promise!vars
<1>5. CASE confirmed' = confirmed /\ issued' = issued + 1
  BY <1>1, <1>5 DEF Promise!Next, Promise!Issue
<1>6. CASE Confirms
  <2>1. request.kind = "data" /\ request.nonce \in taken
    BY <1>6 DEF Confirms, S!Matches, ExchangeInv, ChannelInv
  <2>2. request.nonce \in 1..issued
    BY <2>1 DEF MessageInv, Sent
  <2>3. Promise!Confirm(request.nonce)
    BY <1>1, <1>6, <2>1 DEF Promise!Confirm, Confirms
  <2> QED
    BY <2>2, <2>3 DEF Promise!Next
<1> QED
  BY <1>2, <1>3, <1>4, <1>5, <1>6

LEMMA DeliverPromised ==
  ASSUME LinkInv, Deliver
  PROVE  [Promise!Next]_(Promise!vars)
<1> USE DEF LinkInv
<1>1. PICK i \in DOMAIN outbox :
         /\ G!Receive(SenderAddress, outbox[i].datagram)
         /\ taken' = IF accepted' = accepted THEN taken ELSE taken \cup {outbox[i].datagram.nonce}
         /\ UNCHANGED <<issued, confirmed>>
  BY DEF Deliver, DeliverTo, sender
<1> DEFINE d == outbox[i].datagram
<1>2. d \in Sent /\ (IsGet(d) \/ IsPost(d))
  BY DEF Packets, Sent, ChannelInv, IsPacket
<1>3. Declines \/ Takes(d)
  BY <1>1, <1>2, ReceiveEffect
<1>4. CASE Declines
  BY <1>1, <1>4 DEF Declines, Promise!vars
<1>5. CASE Takes(d)
  <2> HIDE DEF d
  <2>1. /\ d.nonce \in 1..issued
        /\ \A j \in DOMAIN accepted : accepted[j].nonce # d.nonce
        /\ accepted' \in Seq([sequence: Nat, nonce: Nat])
        /\ accepted' # accepted
        /\ Len(accepted') = Len(accepted) + 1
        /\ \A j \in DOMAIN accepted : accepted'[j] = accepted[j]
        /\ accepted'[Len(accepted) + 1] = [sequence |-> d.sequence, nonce |-> d.nonce]
    BY <1>2, <1>5, TakenIsNew
  <2>2. taken' = taken \cup {d.nonce}
    BY <1>1, <2>1 DEF d
  <2>3. Len(accepted) \in Nat /\ DOMAIN accepted = 1..Len(accepted)
    BY DEF AcceptedInv
  <2>4. DOMAIN accepted' = DOMAIN accepted \cup {Len(accepted) + 1}
    BY <2>1, <2>3
  <2>5. Nonces' = Nonces \cup {d.nonce}
    <3>1. accepted'[Len(accepted) + 1].nonce = d.nonce
      BY <2>1
    <3> QED
      BY <2>1, <2>4, <3>1 DEF Nonces
  <2>6. d.nonce \in (1..issued) \ Nonces
    BY <2>1 DEF Nonces
  <2>7. PICK m \in 1..issued : m = d.nonce
    BY <2>1
  <2>8. Promise!Take(m)
    BY <1>1, <2>2, <2>5, <2>6, <2>7 DEF Promise!Take, Nonces
  <2> QED
    BY <2>8 DEF Promise!Next
<1> QED
  BY <1>3, <1>4, <1>5

LEMMA PromiseStep == LinkInv /\ [Next]_vars => [Promise!Next]_(Promise!vars)
<1> SUFFICES ASSUME LinkInv, [Next]_vars PROVE [Promise!Next]_(Promise!vars)
  OBVIOUS
<1>1. ASSUME UNCHANGED <<issued, confirmed, accepted, taken>>
      PROVE  UNCHANGED Promise!vars
  BY <1>1 DEF Promise!vars
<1>2. CASE SenderStep
  BY <1>2, SenderStepPromised
<1>3. CASE Deliver
  BY <1>3, DeliverPromised
<1>4. CASE GatewayPower
  <2>1. accepted' = <<>> /\ UNCHANGED <<issued, confirmed, taken>>
    BY <1>4, PowerEffect DEF GatewayPower, LinkInv, sender
  <2>2. Promise!Restart
    BY <2>1 DEF Promise!Restart
  <2> QED
    BY <2>2 DEF Promise!Next
<1>5. CASE LoseDatagram \/ LoseReply \/ Move \/ UNCHANGED vars
  BY <1>1, <1>5 DEF LoseDatagram, LoseReply, Move, vars, sender, gateway
<1> QED
  BY <1>2, <1>3, <1>4, <1>5 DEF Next

\* The link keeps Delivery's promise: a message is taken at most once while
\* the gateway runs, and an OK that the sender takes for the answer to a
\* message is the answer of a gateway that took that message, whatever is
\* lost, overtaken, repeated, restarted or not saved in between.
THEOREM LinkKeepsPromise == Spec => KeepsPromise
<1>1. Spec => []LinkInv
  BY LinkInit, LinkStep, PTL DEF Spec
<1>2. Init => Promise!Init
  BY PromiseInit
<1>3. LinkInv /\ [Next]_vars => [Promise!Next]_(Promise!vars)
  BY PromiseStep
<1> QED
  BY <1>1, <1>2, <1>3, PTL DEF Spec, KeepsPromise, Promise!Spec

-----------------------------------------------------------------------------
(***************************************************************************)
(* With a sender whose saves work: what it has counted, what its posts     *)
(* look like, and how many failures the gateway can still record.          *)
(***************************************************************************)
\* The counter that the next message takes, and the next boot finds.
CounterInv ==
    /\ (saved = S!NoState /\ issued = 0) \/ saved.next_counter = issued + 1
    /\ step # "off" => state.next_counter = issued + 1

IsSound(d) ==
    /\ d.kind \in {"none", "meta", "pk", "data"}
    /\ d.kind = "data" => /\ d.form = "ok" /\ d.key_id = G!KeyId /\ d.sender_id = SenderId
                          /\ d.sequence = d.nonce /\ d.sealed = Provisioned

\* The sender posts for the keypair it knows and no other.
SoundInv ==
    /\ \A d \in Sent : IsSound(d)
    /\ issued <= MaxIssued
    /\ step = "data" => request.nonce = issued
    /\ step = "meta" => gateway_pk = Provisioned
    /\ step \in Waiting => attempt \in 1..MaxAttempts
    /\ step \in Waiting \ {"data"} => request.kind # "data"

\* The last counter is that of a message that was taken.
TakenInv ==
    /\ taken \subseteq 1..issued
    /\ mode = "listening" => store.last_sender_counter \in taken \cup {0}
    /\ reply # S!NoReply /\ reply.body.tag = "meta" => reply.body.key_id = G!KeyId
    /\ step = "data" /\ reply # S!NoReply /\ reply.msg_id = request.msg_id
          /\ reply.body.tag = "REPLAY_SEQ" => issued \in taken

Slots == 0..(CacheSize - 1)

\* No nonce is remembered of a message that could still be taken.
CacheInv ==
    /\ cache = [i \in Slots |-> cache[i]]
    /\ \A i \in Slots :
          cache[i] # NoNonce => /\ mode = "listening"
                                /\ cache[i] \in 1..MaxIssued
                                /\ cache[i] <= store.last_sender_counter

\* A post that the gateway will refuse for as long as it runs.
Refusable(d) ==
    d.kind = "data" /\ (d.sequence <= store.last_sender_counter \/ store.key # Provisioned)

Posts == {i \in DOMAIN outbox : outbox[i].datagram.kind = "data"}
Stale == {i \in DOMAIN outbox : Refusable(outbox[i].datagram)}

\* The metadata of the keypair that the sender knows is on its way to it.
MetaComes ==
    /\ step = "meta" /\ reply # S!NoReply /\ reply.msg_id = request.msg_id
    /\ reply.body.tag = "meta" /\ reply.body.key = Provisioned

\* The copies that will still be sent of a post that will be refused.
Owed ==
    IF step = "data" /\ Refusable(request) THEN MaxAttempts - attempt
    ELSE IF MetaComes /\ store.key # Provisioned THEN MaxAttempts
    ELSE 0

Guarded == guards[SenderAddress]

\* A guard that has never blocked its source.
IsGuard(g) ==
    /\ g = [in_use |-> g.in_use, window_start |-> g.window_start, requests |-> g.requests,
            auth_failures |-> g.auth_failures, blocked_until |-> g.blocked_until]
    /\ g.blocked_until = 0
    /\ g.auth_failures \in Nat

\* The failures recorded and those to come are too few for a block.
FailureInv ==
    /\ guards = [p \in Peers |-> Guarded] /\ IsGuard(Guarded)
    /\ mode # "listening" => Guarded.auth_failures = 0
    /\ MetaComes => Cardinality(Posts) < Capacity
    /\ mode = "listening" =>
          Guarded.auth_failures + Cardinality(Stale) + Owed < Capacity + MaxAttempts

-----------------------------------------------------------------------------
(* How many of the datagrams under way are in a set                        *)

Places(s, Q) == {i \in DOMAIN s : s[i] \in Q}

LEMMA SmallerSet ==
  ASSUME NEW A, NEW B, IsFiniteSet(B), NEW f \in [A -> B],
         \A x, y \in A : f[x] = f[y] => x = y
  PROVE  IsFiniteSet(A) /\ Cardinality(A) <= Cardinality(B)
<1>1. f \in Injection(A, B)
  BY DEF Injection, IsInjective
<1> QED
  BY <1>1, FS_Injection

LEMMA PlacesFinite ==
  ASSUME NEW T, NEW s \in Seq(T), NEW Q
  PROVE  /\ IsFiniteSet(Places(s, Q))
         /\ Cardinality(Places(s, Q)) \in Nat
         /\ Cardinality(Places(s, Q)) <= Len(s)
<1> DEFINE n == Len(s)
<1>1. n \in Nat /\ DOMAIN s = 1..n
  OBVIOUS
<1> HIDE DEF n
<1>2. IsFiniteSet(1..n) /\ Cardinality(1..n) = n
  BY <1>1, FS_Interval
<1>3. Places(s, Q) \in SUBSET (1..n)
  BY <1>1 DEF Places
<1>4. IsFiniteSet(Places(s, Q)) /\ Cardinality(Places(s, Q)) <= n
  BY <1>2, <1>3, FS_Subset
<1> QED
  BY <1>4, FS_CardinalityType DEF n

LEMMA PlacesWithout ==
  ASSUME NEW T, NEW s \in Seq(T), NEW i \in DOMAIN s, NEW Q
  PROVE  Cardinality(Places(RemoveAt(s, i), Q)) <=
            Cardinality(Places(s, Q)) - (IF s[i] \in Q THEN 1 ELSE 0)
<1> DEFINE n == Len(s)
           r == RemoveAt(s, i)
           before == SubSeq(s, 1, i - 1)
           after == SubSeq(s, i + 1, n)
<1>1. n \in Nat /\ DOMAIN s = 1..n /\ i \in 1..n
  OBVIOUS
<1>2. before \in Seq(T) /\ Len(before) = i - 1 /\ \A j \in 1..(i - 1) : before[j] = s[j]
  BY <1>1, SubSeqProperties
<1>3. after \in Seq(T) /\ Len(after) = n - i /\ \A j \in 1..(n - i) : after[j] = s[i + j]
  BY <1>1, SubSeqProperties
<1>4. r = before \o after
  BY DEF RemoveAt
<1> HIDE DEF before, after, r, n
<1>5. /\ r \in Seq(T) /\ Len(r) = n - 1 /\ DOMAIN r = 1..(n - 1)
      /\ \A j \in 1..(n - 1) : r[j] = IF j < i THEN s[j] ELSE s[j + 1]
  <2>1. /\ before \o after \in Seq(T) /\ Len(before \o after) = Len(before) + Len(after)
        /\ \A j \in 1..(Len(before) + Len(after)) : (before \o after)[j] =
              IF j <= Len(before) THEN before[j] ELSE after[j - Len(before)]
    BY <1>2, <1>3, ConcatProperties, Zenon
  <2>2. Len(before) + Len(after) = n - 1
    BY <1>1, <1>2, <1>3
  <2>3. r \in Seq(T) /\ Len(r) = n - 1 /\ DOMAIN r = 1..(n - 1)
    BY <1>4, <2>1, <2>2
  <2>4. ASSUME NEW j \in 1..(n - 1) PROVE r[j] = IF j < i THEN s[j] ELSE s[j + 1]
    <3>1. r[j] = IF j <= Len(before) THEN before[j] ELSE after[j - Len(before)]
      BY <1>4, <2>1, <2>2
    <3>2. CASE j < i
      BY <1>1, <1>2, <3>1, <3>2
    <3>3. CASE ~(j < i)
      <4>1. j - (i - 1) \in 1..(n - i) /\ i + (j - (i - 1)) = j + 1 /\ ~(j <= i - 1)
        BY <1>1, <3>3
      <4> QED
        BY <1>2, <1>3, <3>1, <3>3, <4>1
    <3> QED
      BY <3>2, <3>3
  <2> QED
    BY <2>3, <2>4
<1> DEFINE A == Places(r, Q)
           B == Places(s, Q) \ {i}
           f == [j \in A |-> IF j < i THEN j ELSE j + 1]
<1>6. IsFiniteSet(Places(s, Q)) /\ Cardinality(Places(s, Q)) \in Nat
  BY PlacesFinite
<1>7. /\ IsFiniteSet(B)
      /\ Cardinality(B) = IF i \in Places(s, Q) THEN Cardinality(Places(s, Q)) - 1
                          ELSE Cardinality(Places(s, Q))
  BY <1>6, FS_RemoveElement
<1>8. f \in [A -> B]
  BY <1>1, <1>5 DEF Places
<1>9. \A x, y \in A : f[x] = f[y] => x = y
  BY <1>1, <1>5 DEF Places
<1>10. Cardinality(A) <= Cardinality(B)
  <2> HIDE DEF A, B, f
  <2> QED
    BY <1>7, <1>8, <1>9, SmallerSet
<1>11. i \in Places(s, Q) <=> s[i] \in Q
  BY DEF Places
<1> QED
  BY <1>6, <1>7, <1>10, <1>11 DEF r

LEMMA PlacesAppended ==
  ASSUME NEW T, NEW s \in Seq(T), NEW x \in T, NEW Q
  PROVE  Cardinality(Places(Append(s, x), Q)) <=
            Cardinality(Places(s, Q)) + (IF x \in Q THEN 1 ELSE 0)
<1> DEFINE n == Len(s)
           A == Places(Append(s, x), Q)
           B == Places(s, Q)
<1>1. n \in Nat /\ DOMAIN s = 1..n /\ DOMAIN Append(s, x) = 1..(n + 1)
      /\ Append(s, x)[n + 1] = x /\ \A j \in 1..n : Append(s, x)[j] = s[j]
  BY AppendProperties
<1>2. IsFiniteSet(B) /\ Cardinality(B) \in Nat
  BY PlacesFinite
<1>3. /\ IsFiniteSet(B \cup {n + 1})
      /\ Cardinality(B \cup {n + 1}) = IF n + 1 \in B THEN Cardinality(B) ELSE Cardinality(B) + 1
  BY <1>2, FS_AddElement
<1>4. A \in SUBSET (B \cup {n + 1}) /\ (x \notin Q => A \in SUBSET B)
  BY <1>1 DEF Places
<1> HIDE DEF A, B
<1>5. CASE x \in Q
  <2>1. Cardinality(A) <= Cardinality(B \cup {n + 1})
    BY <1>3, <1>4, FS_Subset
  <2>2. IsFiniteSet(A)
    BY <1>3, <1>4, FS_Subset
  <2>3. Cardinality(A) \in Nat
    BY <2>2, FS_CardinalityType
  <2>4. Cardinality(A) <= Cardinality(B) + 1
    BY <1>2, <1>3, <2>1, <2>3
  <2> QED
    BY <1>5, <2>4 DEF A, B
<1>6. CASE x \notin Q
  <2>1. Cardinality(A) <= Cardinality(B)
    BY <1>2, <1>4, <1>6, FS_Subset
  <2> QED
    BY <1>2, <1>6, <2>1 DEF A, B
<1> QED
  BY <1>5, <1>6

LEMMA PlacesOfTail ==
  ASSUME NEW T, NEW s \in Seq(T), s # <<>>, NEW Q
  PROVE  Cardinality(Places(Tail(s), Q)) <= Cardinality(Places(s, Q))
<1> DEFINE n == Len(s)
           A == Places(Tail(s), Q)
           B == Places(s, Q)
           f == [j \in A |-> j + 1]
<1>1. /\ n \in Nat /\ DOMAIN s = 1..n /\ Tail(s) \in Seq(T) /\ Len(Tail(s)) = n - 1
      /\ \A j \in 1..(n - 1) : Tail(s)[j] = s[j + 1]
  BY HeadTailProperties
<1>2. DOMAIN Tail(s) = 1..(n - 1)
  BY <1>1
<1>3. f \in [A -> B] /\ \A x, y \in A : f[x] = f[y] => x = y
  BY <1>1, <1>2 DEF Places
<1>4. IsFiniteSet(B)
  BY PlacesFinite
<1> HIDE DEF A, B, f
<1>5. Cardinality(A) <= Cardinality(B)
  BY <1>3, <1>4, SmallerSet
<1> QED
  BY <1>5 DEF A, B

\* A transmission adds the packet that it sends, and may push one out.
LEMMA PlacesAfterTransmit ==
  ASSUME ChannelInv, NEW to, NEW d, S!Transmit(to, d), NEW Q
  PROVE  Cardinality(Places(outbox', Q)) <=
            Cardinality(Places(outbox, Q)) + (IF [to |-> to, datagram |-> d] \in Q THEN 1 ELSE 0)
<1> DEFINE new == [to |-> to, datagram |-> d]
           All == Packets \cup {new}
           rest == IF Len(outbox) < Capacity THEN outbox ELSE Tail(outbox)
<1>1. outbox \in Seq(All) /\ Len(outbox) \in Nat /\ Capacity \in Nat \ {0}
  BY SeqMonotonic, LinkAssumption DEF ChannelInv
<1>2. rest \in Seq(All) /\ Cardinality(Places(rest, Q)) <= Cardinality(Places(outbox, Q))
  <2>1. CASE Len(outbox) < Capacity
    <3>1. Cardinality(Places(outbox, Q)) \in Nat
      BY <1>1, PlacesFinite
    <3> QED
      BY <1>1, <2>1, <3>1
  <2>2. CASE ~(Len(outbox) < Capacity)
    <3>1. outbox # <<>>
      BY <1>1, <2>2
    <3> QED
      BY <1>1, <2>2, <3>1, PlacesOfTail, HeadTailProperties
  <2> QED
    BY <2>1, <2>2
<1>3. outbox' = Append(rest, new)
  BY DEF S!Transmit
<1> HIDE DEF rest
<1>4. Cardinality(Places(rest, Q)) \in Nat /\ Cardinality(Places(outbox, Q)) \in Nat
  BY <1>1, <1>2, PlacesFinite
<1>5. Append(rest, new) \in Seq(All)
  BY <1>2, AppendProperties
<1>6. Cardinality(Places(outbox', Q)) \in Nat
  BY <1>3, <1>5, PlacesFinite
<1>7. Cardinality(Places(outbox', Q)) <=
         Cardinality(Places(rest, Q)) + (IF new \in Q THEN 1 ELSE 0)
  BY <1>2, <1>3, PlacesAppended
<1> QED
  BY <1>2, <1>4, <1>6, <1>7

-----------------------------------------------------------------------------
(* The sender's steps, when its saves work                                 *)

LEMMA CycleCounts ==
  ASSUME ~FlashFaults, StateInv, S!CycleFails
  PROVE  /\ state'.next_counter = state.next_counter
         /\ saved' = saved \/ saved' = state'
<1>1. [state EXCEPT !.last_gateway_ip = NoAddress].next_counter = state.next_counter
  BY DEF StateInv, IsState
<1> QED
  BY <1>1 DEF S!CycleFails, S!Idle, S!Save

LEMMA CounterStep ==
  ASSUME ~FlashFaults, StateInv, CounterInv, issued \in Nat, S!Next
  PROVE  CounterInv'
<1> USE DEF CounterInv
<1>1. ASSUME step # "off", UNCHANGED issued, state'.next_counter = state.next_counter,
             saved' = saved \/ saved' = state'
      PROVE  CounterInv'
  BY <1>1 DEF S!NoState
<1>2. CASE S!PowerOn
  <2>1. state' = (IF saved # S!NoState THEN saved ELSE S!FirstState) /\ saved' = state'
        /\ UNCHANGED issued
    BY <1>2 DEF S!PowerOn, S!history
  <2>2. state'.next_counter = issued + 1
    BY <2>1 DEF S!NoState, S!FirstState
  <2> QED
    BY <2>1, <2>2
<1>3. CASE S!CycleFails /\ step # "off" /\ UNCHANGED issued
  BY <1>1, <1>3, CycleCounts
<1>4. CASE step # "off" /\ UNCHANGED <<issued, state, saved>>
  BY <1>1, <1>4
<1>5. CASE S!MetaAccepted
  <2>1. CASE S!Seal(reply.body)
    <3>1. /\ issued' = issued + 1 /\ step' = "data"
          /\ state' = [next_counter |-> state.next_counter + 1, last_gateway_ip |-> gw]
          /\ saved' = state'
      BY <2>1 DEF S!Seal, S!Ask, S!Save
    <3>2. step # "off"
      BY <1>5 DEF S!MetaAccepted
    <3> QED
      BY <3>1, <3>2
  <2> QED
    BY <1>3, <1>5, <2>1 DEF S!MetaAccepted
<1>6. CASE S!PowerOnFails
  BY <1>6 DEF S!PowerOnFails
<1>7. CASE S!PowerCut
  BY <1>7 DEF S!PowerCut, S!history
<1>8. CASE S!PkAnswered
  BY <1>3, <1>4, <1>8 DEF S!PkAnswered, S!history
<1>9. CASE S!OutOfAttempts \/ S!MetaRejected \/ S!DataRejected
  BY <1>3, <1>9 DEF S!OutOfAttempts, S!MetaRejected, S!DataRejected, S!history, S!Asking
<1>10. CASE S!DiscoveryTimesOut \/ S!StartCycle \/ S!Resend
  BY <1>4, <1>10 DEF S!DiscoveryTimesOut, S!StartCycle, S!Resend, S!history, S!Asking, S!Discovering
<1>11. CASE S!Discovered \/ S!DataConfirmed \/ S!Skip
  BY <1>4, <1>11 DEF S!Discovered, S!DataConfirmed, S!Skip, S!task, S!history, S!Asking, S!Discovering
<1> QED
  BY <1>2, <1>5, <1>6, <1>7, <1>8, <1>9, <1>10, <1>11 DEF S!Next, S!Waited, S!Answered

\* What a power cut of the sender leaves of a packet.
LEMMA CutPacket ==
  ASSUME NEW q, IsPacket(q), NEW d, d = [q.datagram EXCEPT !.msg_id = 0]
  PROVE  /\ d.kind = q.datagram.kind
         /\ IsSound(q.datagram) => IsSound(d)
         /\ d.kind = "data" => d.sequence = q.datagram.sequence
<1>1. CASE IsGet(q.datagram)
  BY <1>1 DEF IsGet, IsSound
<1>2. CASE IsPost(q.datagram)
  BY <1>2 DEF IsPost, IsSound
<1> QED
  BY <1>1, <1>2 DEF IsPacket

\* What a sender step does to the datagrams that it has built.
LEMMA SenderSent ==
  ASSUME LinkInv, Quiet \/ Resends \/ Asks \/ Seals \/ Cut
  PROVE  \A d \in Sent' :
            \/ d \in Sent
            \/ d = request' /\ (Asks \/ Seals)
            \/ d = S!NoRequest
            \/ \E p \in Packets : d = [p.datagram EXCEPT !.msg_id = 0]
<1> USE DEF LinkInv
<1>1. CASE Quiet
  BY <1>1 DEF Quiet, Sent, Packets
<1>2. CASE Resends
  BY <1>2, TransmitEffect DEF Resends, Sent, ChannelInv
<1>3. CASE Asks
  BY <1>3, SentAfter DEF Asks
<1>4. CASE Seals
  BY <1>4, SentAfter DEF Seals
<1>5. CASE Cut
  <2>1. \A p \in Packets' : \E q \in Packets :
            p = [to |-> q.to, datagram |-> [q.datagram EXCEPT !.msg_id = 0]]
    BY <1>5, CutEffect DEF Cut
  <2>2. request' = S!NoRequest
    BY <1>5 DEF Cut
  <2> TAKE d \in Sent'
  <2>3. CASE d = request'
    BY <2>2, <2>3
  <2>4. CASE d \in {p.datagram : p \in Packets'}
    <3>1. PICK p \in Packets' : d = p.datagram
      BY <2>4
    <3>2. PICK q \in Packets : p = [to |-> q.to, datagram |-> [q.datagram EXCEPT !.msg_id = 0]]
      BY <2>1
    <3>3. d = [q.datagram EXCEPT !.msg_id = 0]
      BY <3>1, <3>2
    <3> QED
      BY <3>3
  <2> QED
    BY <2>3, <2>4 DEF Sent
<1> QED
  BY <1>1, <1>2, <1>3, <1>4, <1>5

\* A message is sealed for the sender's keypair, under its own number.
LEMMA SealedIsSound ==
  ASSUME CounterInv, SoundInv, TakenInv, issued \in Nat, Seals
  PROVE  /\ IsSound(request') /\ request'.kind = "data"
         /\ request'.nonce = issued + 1 /\ request'.sequence = issued + 1
         /\ request'.sealed = Provisioned
<1>1. /\ reply # S!NoReply /\ reply.body.tag = "meta" /\ step = "meta"
      /\ request' = [kind |-> "data", msg_id |-> S!FreshId, form |-> "ok",
                     key_id |-> reply.body.key_id, sender_id |-> SenderId,
                     sequence |-> state.next_counter, nonce |-> issued + 1,
                     sealed |-> gateway_pk]
  BY DEF Seals, S!Matches
<1>2. state.next_counter = issued + 1 /\ gateway_pk = Provisioned /\ reply.body.key_id = G!KeyId
  BY <1>1 DEF CounterInv, SoundInv, TakenInv
<1> QED
  BY <1>1, <1>2 DEF IsSound

LEMMA SoundSender ==
  ASSUME LinkInv, CounterInv, SoundInv, TakenInv,
         Quiet \/ Resends \/ Asks \/ Seals \/ Cut
  PROVE  SoundInv'
<1> USE DEF LinkInv
<1>1. issued \in Nat /\ MaxAttempts \in Nat \ {0}
  BY LinkAssumption DEF MessageInv
<1>2. ASSUME NEW d \in Sent' PROVE IsSound(d)
  <2>1. CASE d \in Sent
    BY <2>1 DEF SoundInv
  <2>2. CASE d = request' /\ Asks
    BY <2>2 DEF Asks, IsGet, IsSound
  <2>3. CASE d = request' /\ Seals
    BY <1>1, <2>3, SealedIsSound
  <2>4. CASE d = S!NoRequest
    BY <2>4 DEF S!NoRequest, IsSound
  <2>5. ASSUME NEW p \in Packets, d = [p.datagram EXCEPT !.msg_id = 0] PROVE IsSound(d)
    <3>1. IsPacket(p) /\ IsSound(p.datagram)
      BY DEF ChannelInv, SoundInv, Sent
    <3> QED
      BY <2>5, <3>1, CutPacket
  <2> QED
    BY <2>1, <2>2, <2>3, <2>4, <2>5, SenderSent
<1>3. issued' <= MaxIssued
  <2>1. MaxIssued \in Nat
    BY LinkAssumption
  <2> QED
    BY <1>1, <2>1 DEF SoundInv, Quiet, Resends, Asks, Seals, Cut
<1>4. step' = "data" => request'.nonce = issued'
  BY <1>1, SealedIsSound DEF SoundInv, Quiet, Resends, Asks, Seals, Cut, Waiting, S!Asking
<1>5. step' = "meta" => gateway_pk' = Provisioned
  BY DEF SoundInv, Quiet, Resends, Asks, Seals, Cut, Waiting, S!Asking
<1>6. step' \in Waiting => attempt' \in 1..MaxAttempts
  BY <1>1 DEF SoundInv, Quiet, Resends, Asks, Seals, Cut, Waiting, S!Asking, S!Discovering
<1>7. step' \in Waiting \ {"data"} => request'.kind # "data"
  BY DEF SoundInv, Quiet, Resends, Asks, Seals, Cut, Waiting, S!Asking, S!Discovering
<1> QED
  BY <1>2, <1>3, <1>4, <1>5, <1>6, <1>7 DEF SoundInv

LEMMA TakenSender ==
  ASSUME LinkInv, TakenInv, UNCHANGED <<taken, store, mode>>,
         Quiet \/ Resends \/ Asks \/ Seals \/ Cut
  PROVE  TakenInv'
<1> USE DEF LinkInv
<1>1. issued \in Nat /\ issued' \in Nat /\ issued <= issued'
  BY DEF MessageInv, Quiet, Resends, Asks, Seals, Cut
<1>2. reply' = reply \/ reply' = S!NoReply
  BY DEF Quiet, Resends, Asks, Seals, Cut
<1>3. ASSUME step' = "data", reply' # S!NoReply, reply'.msg_id = request'.msg_id
      PROVE  step = "data" /\ UNCHANGED <<request, issued, reply>>
  <2>1. reply' = reply /\ reply # S!NoReply
    BY <1>2, <1>3
  <2>2. CASE Quiet
    BY <1>3, <2>1, <2>2 DEF Quiet, Waiting, S!Asking
  <2>3. CASE Resends
    BY <1>3, <2>3 DEF Resends
  <2>4. CASE Seals
    BY <1>3, <2>1, <2>4, FreshIdEffect DEF Seals
  <2> QED
    BY <1>3, <2>2, <2>3, <2>4 DEF Asks, Cut
<1>4. taken' \subseteq 1..issued'
  BY <1>1 DEF TakenInv
<1>5. mode' = "listening" => store'.last_sender_counter \in taken' \cup {0}
  BY DEF TakenInv
<1>6. reply' # S!NoReply /\ reply'.body.tag = "meta" => reply'.body.key_id = G!KeyId
  BY <1>2 DEF TakenInv
<1>7. step' = "data" /\ reply' # S!NoReply /\ reply'.msg_id = request'.msg_id
          /\ reply'.body.tag = "REPLAY_SEQ" => issued' \in taken'
  BY <1>3 DEF TakenInv
<1> QED
  BY <1>4, <1>5, <1>6, <1>7 DEF TakenInv

-----------------------------------------------------------------------------
(* The posts under way and those that will be refused                      *)

CountsFit ==
    /\ Cardinality(Posts) \in Nat /\ Cardinality(Stale) \in Nat /\ IsFiniteSet(Stale)
    /\ Cardinality(Posts) <= Len(outbox)
    /\ Cardinality(Stale) <= Cardinality(Posts)

LEMMA CountsBounded == ChannelInv => CountsFit
<1> SUFFICES ASSUME ChannelInv PROVE CountsFit
  OBVIOUS
<1> DEFINE Q == {p \in Packets : p.datagram.kind = "data"}
           R == {p \in Packets : Refusable(p.datagram)}
<1>1. Posts = Places(outbox, Q) /\ Stale = Places(outbox, R)
  BY DEF Posts, Stale, Places, Packets
<1>2. outbox \in Seq(Packets)
  BY DEF ChannelInv
<1>3. Stale \in SUBSET Posts
  BY DEF Posts, Stale, Refusable
<1> HIDE DEF Q, R
<1>4. /\ IsFiniteSet(Posts) /\ IsFiniteSet(Stale) /\ Cardinality(Posts) \in Nat /\ Cardinality(Stale) \in Nat
      /\ Cardinality(Posts) <= Len(outbox)
  BY <1>1, <1>2, PlacesFinite
<1>5. Cardinality(Stale) <= Cardinality(Posts)
  BY <1>3, <1>4, FS_Subset
<1> QED
  BY <1>4, <1>5 DEF CountsFit

LEMMA CountsBoundedNext == ChannelInv' => CountsFit'
BY CountsBounded, PTL

SameJudgement ==
    store'.last_sender_counter = store.last_sender_counter /\ store'.key = store.key

LEMMA CountsAfterTransmit ==
  ASSUME ChannelInv, SameJudgement, NEW to, NEW d, S!Transmit(to, d),
         Packets' \subseteq Packets \cup {[to |-> to, datagram |-> d]}
  PROVE  /\ Cardinality(Posts') <= Cardinality(Posts) + (IF d.kind = "data" THEN 1 ELSE 0)
         /\ Cardinality(Stale') <= Cardinality(Stale) + (IF Refusable(d) THEN 1 ELSE 0)
<1> DEFINE new == [to |-> to, datagram |-> d]
           All == Packets \cup {new}
           Q == {p \in All : p.datagram.kind = "data"}
           R == {p \in All : Refusable(p.datagram)}
<1>1. Posts = Places(outbox, Q) /\ Stale = Places(outbox, R)
  BY DEF Posts, Stale, Places, Packets
<1>2. Posts' = Places(outbox', Q) /\ Stale' = Places(outbox', R)
  BY DEF Posts, Stale, Places, Packets, Refusable, SameJudgement
<1>3. (new \in Q <=> d.kind = "data") /\ (new \in R <=> Refusable(d))
  OBVIOUS
<1> HIDE DEF Q, R
<1>4. Cardinality(Places(outbox', Q)) <= Cardinality(Places(outbox, Q)) + (IF new \in Q THEN 1 ELSE 0)
  BY PlacesAfterTransmit
<1>5. Cardinality(Places(outbox', R)) <= Cardinality(Places(outbox, R)) + (IF new \in R THEN 1 ELSE 0)
  BY PlacesAfterTransmit
<1> QED
  BY <1>1, <1>2, <1>3, <1>4, <1>5

LEMMA CountsAfterCut ==
  ASSUME ChannelInv, SameJudgement,
         outbox' = [i \in DOMAIN outbox |-> [outbox[i] EXCEPT !.datagram.msg_id = 0]]
  PROVE  Posts' = Posts /\ Stale' = Stale
<1>1. DOMAIN outbox' = DOMAIN outbox
  BY Zenon
<1>2. ASSUME NEW i \in DOMAIN outbox
      PROVE  /\ outbox'[i].datagram.kind = outbox[i].datagram.kind
             /\ outbox'[i].datagram.kind = "data" =>
                   outbox'[i].datagram.sequence = outbox[i].datagram.sequence
  <2>1. outbox'[i] = [outbox[i] EXCEPT !.datagram.msg_id = 0]
    BY Zenon
  <2>2. IsPacket(outbox[i])
    BY DEF ChannelInv, Packets
  <2>3. outbox'[i] = [to |-> outbox[i].to, datagram |-> [outbox[i].datagram EXCEPT !.msg_id = 0]]
    BY <2>1, <2>2, WithoutId, Zenon
  <2>4. outbox'[i].datagram = [outbox[i].datagram EXCEPT !.msg_id = 0]
    BY <2>3
  <2> QED
    BY <2>2, <2>4, CutPacket
<1> QED
  BY <1>1, <1>2 DEF Posts, Stale, Refusable, SameJudgement

LEMMA CountsAfterRemoval ==
  ASSUME ChannelInv, SameJudgement, NEW i \in DOMAIN outbox, outbox' = RemoveAt(outbox, i),
         Packets' \subseteq Packets
  PROVE  /\ Cardinality(Posts') <= Cardinality(Posts)
         /\ Cardinality(Stale') <=
               Cardinality(Stale) - (IF Refusable(outbox[i].datagram) THEN 1 ELSE 0)
<1> DEFINE Q == {p \in Packets : p.datagram.kind = "data"}
           R == {p \in Packets : Refusable(p.datagram)}
<1>1. Posts = Places(outbox, Q) /\ Stale = Places(outbox, R)
  BY DEF Posts, Stale, Places, Packets
<1>2. Posts' = Places(outbox', Q) /\ Stale' = Places(outbox', R)
  BY DEF Posts, Stale, Places, Packets, Refusable, SameJudgement
<1>3. outbox[i] \in R <=> Refusable(outbox[i].datagram)
  BY DEF Packets
<1>4. outbox \in Seq(Packets)
  BY DEF ChannelInv
<1>5. Cardinality(Posts) \in Nat /\ Cardinality(Stale) \in Nat
  BY CountsBounded DEF CountsFit
<1>6. outbox' \in Seq(Packets')
  BY RemoveEffect
<1> HIDE DEF Q, R
<1>7. Cardinality(Posts') \in Nat /\ Cardinality(Stale') \in Nat
  BY <1>2, <1>6, PlacesFinite
<1>8. Cardinality(Places(outbox', Q)) <= Cardinality(Places(outbox, Q)) - (IF outbox[i] \in Q THEN 1 ELSE 0)
  BY <1>4, PlacesWithout
<1>9. Cardinality(Places(outbox', R)) <= Cardinality(Places(outbox, R)) - (IF outbox[i] \in R THEN 1 ELSE 0)
  BY <1>4, PlacesWithout
<1> QED
  BY <1>1, <1>2, <1>3, <1>5, <1>7, <1>8, <1>9

OwedFits == Owed \in Nat /\ Owed <= MaxAttempts /\ (~MetaComes => Owed < MaxAttempts)

LEMMA OwedBounded == SoundInv => OwedFits
<1> SUFFICES ASSUME SoundInv PROVE OwedFits
  OBVIOUS
<1>1. MaxAttempts \in Nat \ {0}
  BY LinkAssumption
<1>2. step = "data" => attempt \in 1..MaxAttempts
  BY DEF SoundInv, Waiting, S!Asking
<1> QED
  BY <1>1, <1>2 DEF Owed, OwedFits

LEMMA OwedBoundedNext == SoundInv' => OwedFits'
BY OwedBounded, PTL

\* What keeps FailureInv while the gateway's guard is left alone.
LEMMA GuardLeftAlone ==
  ASSUME FailureInv, ChannelInv, ChannelInv', SoundInv, SoundInv', UNCHANGED <<mode, guards>>,
         MetaComes' => Cardinality(Posts') < Capacity,
         mode = "listening" =>
            \E n \in Int : Cardinality(Stale') <= Cardinality(Stale) + n /\ Owed' + n <= Owed
  PROVE  FailureInv'
<1> DEFINE stale == Cardinality(Stale)
           owed == Owed
           f == Guarded.auth_failures
           stale2 == Cardinality(Stale')
           owed2 == Owed'
<1>1. /\ stale \in Nat /\ stale2 \in Nat /\ owed \in Nat /\ owed2 \in Nat
      /\ Capacity \in Nat /\ MaxAttempts \in Nat /\ f \in Nat
  BY CountsBounded, CountsBoundedNext, OwedBounded, OwedBoundedNext, LinkAssumption
     DEF FailureInv, IsGuard, CountsFit, OwedFits
<1>2. ASSUME mode = "listening" PROVE f + stale2 + owed2 < Capacity + MaxAttempts
  <2>1. PICK n \in Int : stale2 <= stale + n /\ owed2 + n <= owed
    BY <1>2
  <2>2. f + stale + owed < Capacity + MaxAttempts
    BY <1>2 DEF FailureInv
  <2> HIDE DEF stale, owed, f, stale2, owed2
  <2> QED
    BY <1>1, <2>1, <2>2
<1>3. Guarded' = Guarded
  BY DEF Guarded
<1> QED
  BY <1>2, <1>3 DEF FailureInv

LEMMA FailureSender ==
  ASSUME LinkInv, LinkInv', CounterInv, SoundInv, SoundInv', TakenInv, FailureInv,
         UNCHANGED <<store, mode, guards, taken>>,
         Quiet \/ Resends \/ Asks \/ Seals \/ Cut
  PROVE  FailureInv'
<1> USE DEF LinkInv
<1> DEFINE posts == Cardinality(Posts)
           stale == Cardinality(Stale)
           posts2 == Cardinality(Posts')
           stale2 == Cardinality(Stale')
           Kept == mode = "listening" => \E n \in Int : stale2 <= stale + n /\ Owed' + n <= Owed
<1>1. /\ posts \in Nat /\ stale \in Nat /\ posts2 \in Nat /\ stale2 \in Nat
      /\ Capacity \in Nat /\ MaxAttempts \in Nat \ {0} /\ Owed \in Nat /\ Owed' \in Nat
  BY CountsBounded, CountsBoundedNext, OwedBounded, OwedBoundedNext, LinkAssumption
     DEF CountsFit, OwedFits
<1>2. SameJudgement
  BY DEF SameJudgement
<1>3. SUFFICES (MetaComes' => posts2 < Capacity) /\ Kept
  BY GuardLeftAlone
<1>4. CASE Quiet
  <2>1. posts2 = posts /\ stale2 = stale
    BY <1>2, <1>4 DEF Quiet, Posts, Stale, Refusable, SameJudgement
  <2> HIDE DEF posts, stale, posts2, stale2
  <2>2. MetaComes' => MetaComes
    BY <1>4 DEF Quiet, MetaComes, Waiting, S!Asking
  <2>3. CASE UNCHANGED <<step, request, attempt>>
    <3>1. Refusable(request)' = Refusable(request)
      BY <2>3 DEF Refusable
    <3>2. Owed' + 0 <= Owed
      <4>1. CASE step = "data" /\ Refusable(request)
        <5>1. Owed' = Owed
          BY <2>3, <3>1, <4>1 DEF Owed
        <5> QED
          BY <1>1, <5>1
      <4>2. CASE ~(step = "data" /\ Refusable(request)) /\ MetaComes' /\ store.key # Provisioned
        <5>1. Owed' = MaxAttempts /\ Owed = MaxAttempts
          BY <2>2, <2>3, <3>1, <4>2 DEF Owed
        <5> QED
          BY <1>1, <5>1
      <4>3. CASE ~(step = "data" /\ Refusable(request)) /\ ~(MetaComes' /\ store.key # Provisioned)
        <5>1. Owed' = 0
          BY <2>3, <3>1, <4>3 DEF Owed
        <5> QED
          BY <1>1, <5>1
      <4> QED
        BY <4>1, <4>2, <4>3
    <3>3. MetaComes => posts < Capacity
      BY DEF FailureInv, posts
    <3>4. stale2 <= stale + 0
      BY <1>1, <2>1
    <3> QED
      BY <2>1, <2>2, <3>2, <3>3, <3>4
  <2>4. CASE step' \notin Waiting
    <3>1. Owed' = 0 /\ ~MetaComes'
      BY <2>4 DEF Owed, MetaComes, Waiting, S!Asking
    <3>2. stale2 <= stale + 0 /\ Owed' + 0 <= Owed
      BY <1>1, <2>1, <3>1
    <3> QED
      BY <3>1, <3>2
  <2> QED
    BY <1>4, <2>3, <2>4 DEF Quiet
<1>5. CASE Resends
  <2>1. /\ posts2 <= posts + (IF request.kind = "data" THEN 1 ELSE 0)
        /\ stale2 <= stale + (IF Refusable(request) THEN 1 ELSE 0)
    <3>1. Packets' \subseteq Packets \cup {[to |-> gw, datagram |-> request]}
      BY <1>5, TransmitEffect DEF Resends, ChannelInv
    <3> QED
      BY <1>2, <1>5, <3>1, CountsAfterTransmit DEF Resends
  <2> HIDE DEF posts, stale, posts2, stale2
  <2>2. MetaComes' = MetaComes /\ UNCHANGED <<step, request>> /\ attempt' = attempt + 1
    BY <1>5 DEF Resends, MetaComes
  <2>3. Refusable(request)' = Refusable(request)
    BY <2>2 DEF Refusable
  <2>4. MetaComes => posts2 < Capacity
    <3>1. MetaComes => request.kind # "data" /\ posts < Capacity
      BY DEF MetaComes, SoundInv, Waiting, S!Asking, FailureInv, posts
    <3> QED
      BY <1>1, <2>1, <3>1
  <2>5. CASE step = "data" /\ Refusable(request)
    <3>1. attempt \in Nat /\ Owed = MaxAttempts - attempt /\ Owed' = MaxAttempts - (attempt + 1)
      BY <2>2, <2>3, <2>5 DEF Owed, SoundInv, Waiting, S!Asking
    <3>2. stale2 <= stale + 1 /\ Owed' + 1 <= Owed
      BY <1>1, <2>1, <2>5, <3>1
    <3> QED
      BY <2>2, <2>4, <3>2
  <2>6. CASE ~(step = "data" /\ Refusable(request))
    <3>1. ~Refusable(request)
      BY <1>5, <2>6 DEF Resends, Refusable, SoundInv, Waiting, S!Asking
    <3>2. Owed' = Owed
      BY <2>2, <2>3, <2>6 DEF Owed
    <3>3. stale2 <= stale + 0 /\ Owed' + 0 <= Owed
      BY <1>1, <2>1, <3>1, <3>2
    <3> QED
      BY <2>2, <2>4, <3>3
  <2> QED
    BY <2>5, <2>6
<1>6. CASE Asks
  <2>1. PICK to : S!Transmit(to, request')
    BY <1>6 DEF Asks
  <2>2. request'.kind # "data" /\ step' # "data"
    BY <1>6 DEF Asks
  <2>3. Packets' \subseteq Packets \cup {[to |-> to, datagram |-> request']}
    BY <1>6, <2>1, TransmitEffect DEF Asks
  <2>4. stale2 <= stale + 0
    <3>1. ~Refusable(request')
      BY <2>2 DEF Refusable
    <3> QED
      BY <1>2, <2>1, <2>3, <3>1, CountsAfterTransmit
  <2>5. ~MetaComes'
    <3>1. S!FreshId # reply.msg_id \/ reply = S!NoReply
      BY FreshIdEffect
    <3> QED
      BY <1>6, <3>1 DEF Asks, MetaComes
  <2>6. Owed' = 0
    BY <2>2, <2>5 DEF Owed
  <2> HIDE DEF posts, stale, posts2, stale2
  <2>7. Owed' + 0 <= Owed
    BY <1>1, <2>6
  <2> QED
    BY <2>4, <2>5, <2>7
<1>7. CASE Seals
  <2>1. PICK to : S!Transmit(to, request')
    BY <1>7 DEF Seals
  <2>2. /\ IsSound(request') /\ request'.kind = "data" /\ request'.sequence = issued + 1
        /\ request'.sealed = Provisioned /\ issued \in Nat
    BY <1>7, SealedIsSound DEF MessageInv
  <2>3. Packets' \subseteq Packets \cup {[to |-> to, datagram |-> request']}
    BY <1>7, <2>1, TransmitEffect DEF Seals
  <2>4. stale2 <= stale + (IF Refusable(request') THEN 1 ELSE 0)
    BY <1>2, <2>1, <2>3, CountsAfterTransmit
  <2> HIDE DEF posts, stale, posts2, stale2
  <2>5. MetaComes
    BY <1>7 DEF Seals, S!Matches, MetaComes, SoundInv
  <2>6. step = "meta" /\ step' = "data" /\ attempt' = 1 /\ ~MetaComes'
    BY <1>7 DEF Seals, MetaComes
  <2>7. ASSUME mode = "listening" PROVE \E n \in Int : stale2 <= stale + n /\ Owed' + n <= Owed
    <3>1. Refusable(request') <=> store.key # Provisioned
      <4>1. store.last_sender_counter \in taken \cup {0} /\ taken \subseteq 1..issued
        BY <2>7 DEF TakenInv
      <4>2. store.last_sender_counter \in 0..issued
        <5>1. taken \cup {0} \subseteq 0..issued
          BY <2>2, <4>1
        <5> QED
          BY <4>1, <5>1
      <4>3. ~(request'.sequence <= store.last_sender_counter)
        BY <2>2, <4>2
      <4> QED
        BY <2>2, <4>3 DEF Refusable
    <3>2. Refusable(request)' <=> Refusable(request')
      BY DEF Refusable
    <3>3. CASE store.key # Provisioned
      <4>1. Owed = MaxAttempts
        BY <2>5, <2>6, <3>3 DEF Owed
      <4>2. Owed' = MaxAttempts - 1
        BY <2>6, <3>1, <3>2, <3>3 DEF Owed
      <4>3. stale2 <= stale + 1 /\ Owed' + 1 <= Owed
        BY <1>1, <2>4, <3>1, <3>3, <4>1, <4>2
      <4> QED
        BY <4>3
    <3>4. CASE store.key = Provisioned
      <4>1. Owed' = 0
        BY <2>6, <3>1, <3>2, <3>4 DEF Owed
      <4>2. stale2 <= stale + 0 /\ Owed' + 0 <= Owed
        BY <1>1, <2>4, <3>1, <3>4, <4>1
      <4> QED
        BY <4>2
    <3> QED
      BY <3>3, <3>4
  <2> QED
    BY <2>6, <2>7
<1>8. CASE Cut
  <2>1. stale2 = stale
    BY <1>2, <1>8, CountsAfterCut DEF Cut
  <2>2. ~MetaComes' /\ Owed' = 0
    BY <1>8 DEF Cut, MetaComes, Owed
  <2> HIDE DEF posts, stale, posts2, stale2
  <2>3. stale2 <= stale + 0 /\ Owed' + 0 <= Owed
    BY <1>1, <2>1, <2>2
  <2> QED
    BY <2>2, <2>3
<1> QED
  BY <1>4, <1>5, <1>6, <1>7, <1>8

-----------------------------------------------------------------------------
(* What the gateway makes of a datagram that is sound                      *)

LEMMA KeyKept ==
  ASSUME NEW s, IsStore(s)
  PROVE  /\ G!MetaUpdate(s).key = s.key
         /\ G!BootStore(s).key = s.key
         /\ \A d : G!Consumed(s, d).key = s.key
<1>1. \A t : t.key = s.key /\ IsStore(t) => G!MetaUpdate(t).key = s.key
  BY DEF IsStore, G!MetaUpdate
<1>2. G!BootStore(s).key = s.key
  <2> DEFINE m == G!MetaUpdate(s)
  <2>1. IsStore(m) /\ m.key = s.key
    BY <1>1, MetaUpdateEffect
  <2> HIDE DEF m
  <2>2. [m EXCEPT !.last_sender_counter = 0].key = s.key
    BY <2>1 DEF IsStore
  <2> QED
    BY <2>2 DEF G!BootStore, m
<1>3. ASSUME NEW d PROVE G!Consumed(s, d).key = s.key
  <2> DEFINE n == d.sequence
             count == s.message_count + 1
             marked == [s EXCEPT !.last_sender_counter = n]
             counted == [marked EXCEPT !.message_count = count]
  <2>1. G!Consumed(s, d) = G!MetaUpdate(counted)
    BY Zenon DEF G!Consumed
  <2> HIDE DEF n, count
  <2>2. marked.key = s.key /\ marked = [key |-> s.key, status |-> s.status,
            rotation_required |-> s.rotation_required, message_count |-> s.message_count,
            last_sender_counter |-> n]
    BY DEF IsStore
  <2> HIDE DEF marked
  <2>4. counted = [key |-> s.key, status |-> s.status, rotation_required |-> s.rotation_required,
                   message_count |-> count, last_sender_counter |-> n]
    BY <2>2
  <2> HIDE DEF counted
  <2>3. G!MetaUpdate(counted).key = s.key
    BY <2>4 DEF G!MetaUpdate
  <2> QED
    BY <2>1, <2>3
<1> QED
  BY <1>1, <1>2, <1>3

\* The answers that the invariant is about, and the nonces remembered.
LEMMA Judged ==
  ASSUME LinkInv, SoundInv, NEW d \in Sent, G!Receive(SenderAddress, d)
  PROVE  /\ mode = "listening" /\ mode' = mode
         /\ store'.key = store.key
         /\ \/ Declines /\ cache' = cache
            \/ /\ Takes(d) /\ reply'.body.tag = "OK"
               /\ cache' = [cache EXCEPT ![cache_next] = d.nonce]
         /\ reply' # S!NoReply /\ reply'.body.tag = "REPLAY_SEQ" =>
               d.kind = "data" /\ (d.sequence = 0 \/ d.sequence <= store.last_sender_counter)
         /\ reply' # S!NoReply /\ reply'.body.tag = "meta" =>
               reply'.body.key = store.key /\ reply'.body.key_id = G!KeyId
<1> DEFINE p == SenderAddress
<1>1. IsGet(d) \/ IsPost(d)
  BY DEF LinkInv, ChannelInv, Sent, IsPacket
<1>2. StoreInv /\ mode = "listening" /\ mode' = mode /\ (Declines \/ Takes(d))
  BY <1>1, ReceiveEffect DEF LinkInv
<1>3. IsStore(store)
  BY <1>2 DEF StoreInv
<1>4. IsStore(G!MetaUpdate(store)) /\ G!MetaUpdate(store).key = store.key
      /\ G!MetaUpdate(store).last_sender_counter = store.last_sender_counter
  BY <1>3, KeyKept, MetaUpdateEffect
<1>5. ASSUME UNCHANGED <<accepted, cache>>, store' \in {store, G!MetaUpdate(store)},
             reply' = S!NoReply \/ reply'.body.tag \notin {"OK", "REPLAY_SEQ", "meta"}
      PROVE  /\ store'.key = store.key /\ Declines /\ cache' = cache
             /\ reply' # S!NoReply => reply'.body.tag \notin {"REPLAY_SEQ", "meta"}
  BY <1>4, <1>5 DEF Declines
<1>6. CASE G!Malformed(p, d)
  BY <1>2, <1>5, <1>6 DEF G!Malformed, G!Accepts, G!NoReply, S!NoReply
<1>7. CASE G!Refused(p, d) \/ G!BadHeader(p, d)
  BY <1>2, <1>5, <1>7 DEF G!Refused, G!BadHeader, G!Accepts, G!Answer, G!Text
<1>8. CASE G!NotFound(p, d) \/ G!Throttled(p, d) \/ G!PostToSpentKey(p, d)
  BY <1>2, <1>5, <1>8 DEF G!NotFound, G!Throttled, G!PostToSpentKey, G!Accepts, G!Answer, G!Text
<1>9. CASE G!ServePk(p, d)
  BY <1>2, <1>5, <1>9 DEF G!ServePk, G!Accepts, G!Answer, G!Text
<1>10. CASE G!ServeMeta(p, d)
  <2>1. /\ store' = G!MetaUpdate(store) /\ UNCHANGED <<accepted, cache>>
        /\ reply'.body.tag = "meta" /\ reply'.body.key = store'.key /\ reply'.body.key_id = G!KeyId
    BY <1>10 DEF G!ServeMeta, G!Accepts, G!Answer
  <2> QED
    BY <1>2, <1>4, <2>1 DEF Declines
<1>11. CASE G!PostRejected(p, d)
  <2>1. PICK i \in DOMAIN G!CheckOrder :
           G!Fails(d, G!CheckOrder[i]) /\ G!Answer(p, d, G!Text(G!CheckOrder[i]))
    BY <1>11 DEF G!PostRejected
  <2>2. reply'.body.tag = G!CheckOrder[i] /\ G!CheckOrder[i] \notin {"ok", "OK", "meta"}
    BY <2>1 DEF G!Answer, G!Text, G!CheckOrder
  <2>3. store' = G!MetaUpdate(store) /\ UNCHANGED <<accepted, cache>> /\ d.kind = "data"
    BY <1>11 DEF G!PostRejected, G!Accepts, G!Admitted
  <2>4. d.form = "ok"
    BY <2>3 DEF SoundInv, IsSound
  <2>5. G!CheckOrder[i] = "REPLAY_SEQ" => d.sequence = 0 \/ d.sequence <= store.last_sender_counter
    BY <2>1, <2>2, <2>4 DEF G!Fails
  <2> QED
    BY <1>2, <1>4, <2>2, <2>3, <2>5 DEF Declines
<1>12. CASE G!PostAccepted(p, d)
  <2>1. /\ store' = G!Consumed(G!MetaUpdate(store), d) /\ reply'.body.tag = "OK"
        /\ cache' = [cache EXCEPT ![cache_next] = d.nonce] /\ reply' # S!NoReply
    BY <1>12 DEF G!PostAccepted, G!Answer, G!Text, G!RememberNonce, S!NoReply
  <2>2. store'.key = store.key
    BY <1>4, <2>1, KeyKept
  <2>3. Takes(d)
    BY <1>2, <2>1 DEF Declines
  <2> QED
    BY <1>2, <2>1, <2>2, <2>3
<1> QED
  BY <1>6, <1>7, <1>8, <1>9, <1>10, <1>11, <1>12 DEF G!Receive

\* peer_guard_get and peer_guard_allow_counter record no failure and forget
\* none but with a new slot.
LEMMA GuardOnWay ==
  ASSUME NEW gs, NEW q, IsGuard(gs[q]), NEW t, NEW k
  PROVE  /\ IsGuard(G!GuardGet(gs, q, t))
         /\ G!GuardGet(gs, q, t).auth_failures <= gs[q].auth_failures
         /\ IsGuard(G!CountRequest(G!GuardGet(gs, q, t), k, t))
         /\ G!CountRequest(G!GuardGet(gs, q, t), k, t).auth_failures <= gs[q].auth_failures
<1>1. IsGuard(G!GuardGet(gs, q, t)) /\ G!GuardGet(gs, q, t).auth_failures <= gs[q].auth_failures
  <2> DEFINE no == FALSE
             yes == TRUE
             slot == [in_use |-> no, window_start |-> 0, requests |-> G!NoRequests,
                      auth_failures |-> 0, blocked_until |-> 0]
             used == [slot EXCEPT !.in_use = yes]
  <2>1. [G!EmptySlot EXCEPT !.in_use = TRUE, !.window_start = t] = [used EXCEPT !.window_start = t]
    BY Zenon DEF G!EmptySlot
  <2> HIDE DEF no, yes
  <2>2. used = [in_use |-> yes, window_start |-> 0, requests |-> G!NoRequests,
                auth_failures |-> 0, blocked_until |-> 0]
    OBVIOUS
  <2> HIDE DEF used
  <2>3. [used EXCEPT !.window_start = t] =
           [in_use |-> yes, window_start |-> t, requests |-> G!NoRequests,
            auth_failures |-> 0, blocked_until |-> 0]
    BY <2>2
  <2>4. G!GuardGet(gs, q, t) \in
           {gs[q], [in_use |-> yes, window_start |-> t, requests |-> G!NoRequests,
                    auth_failures |-> 0, blocked_until |-> 0]}
    BY <2>1, <2>3, Zenon DEF G!GuardGet
  <2> QED
    BY <2>4 DEF IsGuard
<1> DEFINE g == G!GuardGet(gs, q, t)
<1> HIDE DEF g
<1>2. IsGuard(g)
  BY <1>1 DEF g
<1>3. IsGuard(G!RollWindow(g, k, t)) /\ G!RollWindow(g, k, t).auth_failures = g.auth_failures
  BY <1>2 DEF IsGuard, G!RollWindow
<1> DEFINE r == G!RollWindow(g, k, t)
<1>4. IsGuard([r EXCEPT !.requests[k] = @ + 1])
      /\ [r EXCEPT !.requests[k] = @ + 1].auth_failures = r.auth_failures
  <2> DEFINE n == r.requests[k] + 1
             e == [r EXCEPT !.requests[k] = n]
  <2> HIDE DEF r, n
  <2>1. e = [in_use |-> r.in_use, window_start |-> r.window_start,
             requests |-> [r.requests EXCEPT ![k] = n],
             auth_failures |-> r.auth_failures, blocked_until |-> r.blocked_until]
    BY <1>3 DEF IsGuard, r
  <2> HIDE DEF e
  <2>2. r.blocked_until = 0 /\ r.auth_failures \in Nat
    BY <1>3 DEF IsGuard, r
  <2>3. IsGuard(e) /\ e.auth_failures = r.auth_failures
    BY <2>1, <2>2 DEF IsGuard
  <2>4. [r EXCEPT !.requests[k] = @ + 1] = e
    BY DEF e, n
  <2> QED
    BY <2>3, <2>4
<1>5. IsGuard(G!CountRequest(g, k, t)) /\ G!CountRequest(g, k, t).auth_failures = g.auth_failures
  BY <1>2, <1>3, <1>4 DEF G!CountRequest
<1> QED
  BY <1>1, <1>5 DEF g

LEMMA GuardAfterwards ==
  ASSUME NEW g, IsGuard(g), NEW t
  PROVE  /\ IsGuard(G!RecordSuccess(g)) /\ G!RecordSuccess(g).auth_failures = 0
         /\ g.auth_failures + 1 < FailsToBlock =>
               /\ IsGuard(G!RecordFailure(g, t))
               /\ G!RecordFailure(g, t).auth_failures <= g.auth_failures + 1
<1>1. FailsToBlock \in Nat
  BY LinkAssumption DEF G!GuardAssumption
<1> QED
  BY <1>1 DEF IsGuard, G!RecordSuccess, G!RecordFailure

\* A sound post that is new to the gateway fails no check.
LEMMA NewPostPasses ==
  ASSUME LinkInv, SoundInv, CacheInv, mode = "listening",
         NEW d \in Sent, d.kind = "data", ~Refusable(d)
  PROVE  \A i \in DOMAIN G!CheckOrder : ~G!Fails(d, G!CheckOrder[i])
<1>1. \A i \in DOMAIN G!CheckOrder : G!CheckOrder[i] # "ok"
  BY DEF G!CheckOrder
<1>2. /\ d.form = "ok" /\ d.key_id = G!KeyId /\ d.sender_id = AllowedSender
      /\ d.sequence = d.nonce /\ d.sealed = store.key
  BY LinkAssumption DEF SoundInv, IsSound, Refusable
<1>3. d.nonce \in 1..issued /\ issued \in Nat /\ issued <= MaxIssued /\ MaxIssued \in Nat
  BY LinkAssumption DEF LinkInv, MessageInv, SoundInv
<1>4. ~(d.sequence = 0 \/ d.sequence <= store.last_sender_counter)
  BY <1>2, <1>3 DEF Refusable
<1>5. d.nonce # NoNonce
  <2>1. d.nonce \in 1..MaxIssued
    BY <1>3
  <2> DEFINE e == [kind |-> "data", sequence |-> d.nonce, nonce |-> d.nonce]
  <2>2. e \in Datagrams /\ e.kind = "data" /\ e.nonce = d.nonce
    BY <2>1, LinkAssumption
  <2>3. \A x \in Datagrams : x.kind = "data" => x.nonce # NoNonce
    BY LinkAssumption DEF G!GatewayAssumption
  <2> QED
    BY <2>2, <2>3
<1>6. ~G!NonceSeen(d.nonce)
  <2> SUFFICES ASSUME NEW i \in Slots, cache[i] = d.nonce PROVE FALSE
    BY DEF G!NonceSeen, Slots
  <2>1. d.nonce <= store.last_sender_counter
    BY <1>5 DEF CacheInv
  <2> QED
    BY <1>2, <1>4, <2>1
<1> QED
  BY <1>1, <1>2, <1>4, <1>6 DEF G!Fails

\* Only a post that the gateway will refuse adds to the failures of its
\* guard, and only one; a message that is taken clears them.
LEMMA Charged ==
  ASSUME LinkInv, SoundInv, CacheInv, FailureInv, NEW d \in Sent,
         G!Receive(SenderAddress, d),
         Refusable(d) => Guarded.auth_failures + 1 < FailsToBlock
  PROVE  /\ guards' = [p \in Peers |-> Guarded'] /\ IsGuard(Guarded')
         /\ Guarded'.auth_failures <= Guarded.auth_failures + (IF Refusable(d) THEN 1 ELSE 0)
         /\ accepted' # accepted => Guarded'.auth_failures = 0
<1> DEFINE p == SenderAddress
           t == now
           got == G!GuardGet(guards, p, t)
           counted == G!CountRequest(got, d.kind, t)
           f == Guarded.auth_failures
<1>1. IsGuard(Guarded) /\ guards = [q \in Peers |-> Guarded] /\ Peers = {p} /\ f \in Nat
  BY LinkAssumption DEF FailureInv, IsGuard
<1>2. /\ IsGuard(got) /\ got.auth_failures <= f /\ got.auth_failures \in Nat
      /\ IsGuard(counted) /\ counted.auth_failures <= f /\ counted.auth_failures \in Nat
  <2>1. IsGuard(guards[p])
    BY <1>1 DEF Guarded
  <2>2. /\ IsGuard(got) /\ got.auth_failures <= guards[p].auth_failures
        /\ IsGuard(counted) /\ counted.auth_failures <= guards[p].auth_failures
    BY <2>1, GuardOnWay
  <2> HIDE DEF got, counted
  <2> QED
    BY <2>2 DEF IsGuard, Guarded
<1> HIDE DEF got, counted
<1>3. /\ d.kind \in {"none", "meta", "pk", "data"}
  BY DEF SoundInv, IsSound
<1>4. ASSUME NEW g, IsGuard(g), g.auth_failures <= f + (IF Refusable(d) THEN 1 ELSE 0),
             accepted' # accepted => g.auth_failures = 0,
             guards' = [guards EXCEPT ![p] = g]
      PROVE  /\ guards' = [q \in Peers |-> Guarded'] /\ IsGuard(Guarded')
             /\ Guarded'.auth_failures <= f + (IF Refusable(d) THEN 1 ELSE 0)
             /\ accepted' # accepted => Guarded'.auth_failures = 0
  <2>1. Guarded' = g /\ guards' = [q \in Peers |-> g]
    BY <1>1, <1>4 DEF Guarded
  <2> QED
    BY <1>4, <2>1
<1>5. CASE G!Malformed(p, d) \/ G!BadHeader(p, d) \/ G!NotFound(p, d)
  BY <1>3, <1>5 DEF G!Malformed, G!BadHeader, G!NotFound
<1>6. CASE G!Refused(p, d)
  <2>1. guards' = [guards EXCEPT ![p] = got] /\ accepted' = accepted
    BY <1>6 DEF G!Refused, G!SetGuard, G!GuardOf, G!Accepts, got
  <2>2. got.auth_failures <= f + (IF Refusable(d) THEN 1 ELSE 0)
    BY <1>1, <1>2
  <2> QED
    BY <1>2, <1>4, <2>1, <2>2
<1>7. CASE G!Throttled(p, d) \/ G!ServeMeta(p, d) \/ G!ServePk(p, d) \/ G!PostToSpentKey(p, d)
  <2>1. guards' = [guards EXCEPT ![p] = counted] /\ accepted' = accepted
    BY <1>7 DEF G!Throttled, G!ServeMeta, G!ServePk, G!PostToSpentKey,
                G!SetGuard, G!Counted, G!GuardOf, G!Accepts, got, counted
  <2>2. counted.auth_failures <= f + (IF Refusable(d) THEN 1 ELSE 0)
    BY <1>1, <1>2
  <2> QED
    BY <1>2, <1>4, <2>1, <2>2
<1>8. CASE G!PostRejected(p, d)
  <2>1. /\ guards' = [guards EXCEPT ![p] = G!RecordFailure(counted, t)] /\ accepted' = accepted
        /\ d.kind = "data" /\ mode = "listening"
        /\ \E i \in DOMAIN G!CheckOrder : G!Fails(d, G!CheckOrder[i])
    BY <1>8 DEF G!PostRejected, G!SetGuard, G!Counted, G!GuardOf, G!Accepts, G!Admitted,
                G!Dispatched, got, counted
  <2>2. Refusable(d)
    BY <2>1, NewPostPasses
  <2>3. counted.auth_failures + 1 < FailsToBlock /\ FailsToBlock \in Nat
    <3>1. FailsToBlock \in Nat /\ f + 1 < FailsToBlock
      BY <2>2, LinkAssumption DEF G!GuardAssumption
    <3> QED
      BY <1>1, <1>2, <3>1
  <2>4. /\ IsGuard(G!RecordFailure(counted, t))
        /\ G!RecordFailure(counted, t).auth_failures <= counted.auth_failures + 1
    BY <1>2, <2>3, GuardAfterwards
  <2> DEFINE g == G!RecordFailure(counted, t)
  <2> HIDE DEF g, f
  <2>5. g.auth_failures <= f + (IF Refusable(d) THEN 1 ELSE 0)
    <3>1. g.auth_failures \in Nat /\ g.auth_failures <= counted.auth_failures + 1
      BY <2>4 DEF IsGuard, g
    <3> QED
      BY <1>1, <1>2, <2>2, <3>1
  <2> QED
    BY <1>4, <2>1, <2>4, <2>5 DEF g, f
<1>9. CASE G!PostAccepted(p, d)
  <2>1. guards' = [guards EXCEPT ![p] = G!RecordSuccess(counted)]
    BY <1>9 DEF G!PostAccepted, G!SetGuard, G!Counted, G!GuardOf, G!Admitted, got, counted
  <2>2. IsGuard(G!RecordSuccess(counted)) /\ G!RecordSuccess(counted).auth_failures = 0
    BY <1>2, GuardAfterwards
  <2>3. 0 <= f + (IF Refusable(d) THEN 1 ELSE 0)
    BY <1>1
  <2> QED
    BY <1>4, <2>1, <2>2, <2>3
<1> QED
  BY <1>5, <1>6, <1>7, <1>8, <1>9 DEF G!Receive

-----------------------------------------------------------------------------
(* A sender whose saves work: every step keeps the invariants              *)

LEMMA CountedInit == Init => CounterInv /\ SoundInv /\ TakenInv /\ CacheInv
<1> SUFFICES ASSUME Init PROVE CounterInv /\ SoundInv /\ TakenInv /\ CacheInv
  OBVIOUS
<1>1. /\ outbox = <<>> /\ issued = 0 /\ mode = "off" /\ step = "off" /\ taken = {}
      /\ request = S!NoRequest /\ saved = S!NoState /\ reply = S!NoReply
      /\ cache = [i \in Slots |-> NoNonce] /\ MaxIssued \in Nat
  BY LinkAssumption DEF Init, S!Init, G!Init, Slots
<1>2. Sent = {S!NoRequest} /\ IsSound(S!NoRequest)
  BY <1>1 DEF Sent, Packets, IsSound, S!NoRequest
<1> QED
  BY <1>1, <1>2 DEF CounterInv, SoundInv, TakenInv, CacheInv, Waiting, S!Asking, S!Discovering

\* Steps that only lose an answer, or nothing.
Idles ==
    /\ Quiet
    /\ UNCHANGED <<step, state, saved, issued, store, mode, guards, cache, taken>>

LEMMA OtherSteps ==
  ASSUME LoseReply \/ Move \/ UNCHANGED vars
  PROVE  Idles
BY DEF LoseReply, Move, vars, sender, gateway, Idles, Quiet, G!NoReply, S!NoReply

LEMMA DeliverCounted ==
  ASSUME LinkInv, CounterInv, SoundInv, TakenInv, Deliver
  PROVE  CounterInv' /\ SoundInv' /\ TakenInv'
<1> USE DEF LinkInv
<1>1. PICK i \in DOMAIN outbox :
         /\ G!Receive(SenderAddress, outbox[i].datagram)
         /\ outbox' = RemoveAt(outbox, i)
         /\ taken' = IF accepted' = accepted THEN taken ELSE taken \cup {outbox[i].datagram.nonce}
         /\ UNCHANGED <<sender, link>>
  BY DEF Deliver, DeliverTo
<1> DEFINE d == outbox[i].datagram
<1>2. outbox[i] \in Packets /\ d \in Sent /\ (IsGet(d) \/ IsPost(d))
  BY DEF Packets, Sent, ChannelInv, IsPacket
<1>3. UNCHANGED <<step, state, saved, request, attempt, gateway_pk, issued>>
  BY <1>1 DEF sender
<1>4. Sent' \subseteq Sent
  BY <1>1, <1>3, RemovedKeeps
<1>5. CounterInv'
  BY <1>3 DEF CounterInv
<1>6. SoundInv'
  BY <1>3, <1>4 DEF SoundInv, Waiting
<1> HIDE DEF d
<1>7. /\ mode = "listening"
      /\ Declines \/ (Takes(d) /\ reply'.body.tag = "OK")
      /\ reply' # S!NoReply /\ reply'.body.tag = "REPLAY_SEQ" =>
            d.kind = "data" /\ (d.sequence = 0 \/ d.sequence <= store.last_sender_counter)
      /\ reply' # S!NoReply /\ reply'.body.tag = "meta" => reply'.body.key_id = G!KeyId
  BY <1>1, <1>2, Judged DEF d
<1>8. reply' # S!NoReply => reply'.msg_id = d.msg_id
  BY <1>1, <1>2, ReceiveEffect DEF d
<1>9. store.last_sender_counter \in taken \cup {0} /\ taken \subseteq 1..issued /\ issued \in Nat
  BY <1>7 DEF TakenInv, MessageInv
<1>10. CASE Declines
  <2>1. taken' = taken /\ store'.last_sender_counter = store.last_sender_counter
    BY <1>1, <1>10 DEF Declines
  <2>2. ASSUME step = "data", reply' # S!NoReply, reply'.msg_id = request.msg_id,
               reply'.body.tag = "REPLAY_SEQ"
        PROVE  issued \in taken
    <3>1. d.msg_id = request.msg_id /\ step \in Waiting
      BY <1>8, <2>2 DEF Waiting, S!Asking
    <3>2. d = request
      BY <1>2, <3>1 DEF ExchangeInv, d
    <3>3. d.sequence = issued /\ d.sequence \in 1..issued
      BY <1>2, <1>7, <2>2, <3>2 DEF SoundInv, IsSound, MessageInv
    <3>4. store.last_sender_counter \in 0..issued
      <4>1. taken \cup {0} \subseteq 0..issued
        BY <1>9
      <4> QED
        BY <1>9, <4>1
    <3>5. store.last_sender_counter = issued
      BY <1>7, <1>9, <2>2, <3>3, <3>4
    <3> QED
      BY <1>9, <3>3, <3>5
  <2> QED
    BY <1>3, <1>5, <1>6, <1>7, <1>9, <2>1, <2>2 DEF TakenInv
<1>11. CASE Takes(d) /\ reply'.body.tag = "OK"
  <2>1. d.nonce \in 1..issued /\ accepted' # accepted
    BY <1>2, <1>11, TakenIsNew
  <2>2. taken' = taken \cup {d.nonce}
    BY <1>1, <2>1 DEF d
  <2>3. store'.last_sender_counter = d.nonce
    BY <1>2, <1>11 DEF Takes, SoundInv, IsSound
  <2> QED
    BY <1>3, <1>5, <1>6, <1>9, <1>11, <2>1, <2>2, <2>3 DEF TakenInv
<1> QED
  BY <1>5, <1>6, <1>7, <1>10, <1>11

\* A power step of the gateway: it starts with the replay state empty.
LEMMA PowerStarts ==
  ASSUME StoreInv, G!Power
  PROVE  /\ mode' = "listening" => /\ mode # "listening" /\ store'.last_sender_counter = 0
                                   /\ UNCHANGED <<cache, guards>>
         /\ mode' # "listening" =>
               \/ UNCHANGED <<cache, guards>> /\ mode # "listening"
               \/ /\ cache' = [i \in Slots |-> NoNonce]
                  /\ guards' = [p \in Peers |-> G!EmptySlot]
<1>1. ASSUME NEW s, IsStore(s) PROVE G!BootStore(s).last_sender_counter = 0
  <2> DEFINE m == G!MetaUpdate(s)
  <2>1. IsStore(m)
    BY <1>1, MetaUpdateEffect
  <2> HIDE DEF m
  <2>2. [m EXCEPT !.last_sender_counter = 0].last_sender_counter = 0
    BY <2>1 DEF IsStore
  <2> QED
    BY <2>2 DEF G!BootStore, m
<1>2. CASE G!BootFromFlash
  BY <1>1, <1>2 DEF G!BootFromFlash, StoreInv
<1>3. CASE G!BootWithNewKey
  <2>1. \A k : IsStore(G!NewStore(k))
    BY DEF G!NewStore, IsStore
  <2> QED
    BY <1>1, <1>3, <2>1 DEF G!BootWithNewKey
<1>4. CASE G!BootFails
  BY <1>4 DEF G!BootFails, G!ram
<1>5. CASE G!PowerCycle
  BY <1>5 DEF G!PowerCycle, G!ClearRam, Slots
<1>6. CASE G!FlashLost
  BY <1>6 DEF G!FlashLost, G!ram
<1> QED
  BY <1>2, <1>3, <1>4, <1>5, <1>6 DEF G!Power

LEMMA CountedStep ==
  ASSUME ~FlashFaults
  PROVE  LinkInv /\ CounterInv /\ SoundInv /\ TakenInv /\ [Next]_vars
            => CounterInv' /\ SoundInv' /\ TakenInv'
<1> SUFFICES ASSUME LinkInv, CounterInv, SoundInv, TakenInv, [Next]_vars
             PROVE  CounterInv' /\ SoundInv' /\ TakenInv'
  OBVIOUS
<1> USE DEF LinkInv
<1>1. CASE SenderStep
  <2>1. S!Next /\ UNCHANGED <<mode, store, taken>>
    BY <1>1 DEF SenderStep
  <2>2. Quiet \/ Resends \/ Asks \/ Seals \/ Cut
    BY <2>1, SenderEffect
  <2>3. issued \in Nat
    BY DEF MessageInv
  <2> QED
    BY <2>1, <2>2, <2>3, CounterStep, SoundSender, TakenSender
<1>2. CASE Deliver
  BY <1>2, DeliverCounted
<1>3. CASE LoseDatagram
  <2>1. PICK i \in DOMAIN outbox : outbox' = RemoveAt(outbox, i)
    BY <1>3 DEF LoseDatagram
  <2>2. UNCHANGED <<step, state, saved, request, attempt, gateway_pk, issued, reply, store, mode, taken>>
    BY <1>3 DEF LoseDatagram, sender, gateway
  <2>3. Sent' \subseteq Sent
    BY <2>1, <2>2, RemovedKeeps
  <2> QED
    BY <2>2, <2>3 DEF CounterInv, SoundInv, TakenInv, Waiting
<1>4. CASE GatewayPower
  <2>1. UNCHANGED <<step, state, saved, request, attempt, gateway_pk, issued, outbox, taken>>
        /\ G!Power
    BY <1>4 DEF GatewayPower, sender
  <2>2. reply' \in {reply, S!NoReply}
    BY <2>1, PowerEffect
  <2>3. mode' = "listening" => store'.last_sender_counter = 0
    BY <2>1, PowerStarts
  <2>4. Sent' = Sent
    BY <2>1 DEF Sent, Packets
  <2> QED
    BY <2>1, <2>2, <2>3, <2>4 DEF CounterInv, SoundInv, TakenInv, Waiting
<1>5. CASE Idles
  <2>1. CounterInv'
    BY <1>5 DEF Idles, CounterInv
  <2> QED
    BY <1>5, <2>1, SoundSender, TakenSender DEF Idles
<1> QED
  BY <1>1, <1>2, <1>3, <1>4, <1>5, OtherSteps DEF Next

\* While its saves work, the sender numbers its messages 1, 2, 3..., and the
\* answer REPLAY_SEQ to the message that it is sending says that this message
\* was taken before: what it reports as SEND_FAILED was delivered.
THEOREM ReplaysWereTaken ==
  ASSUME ~FlashFaults
  PROVE  Spec => []ReplayMeansTaken
<1>1. Spec => []LinkInv
  BY LinkInit, LinkStep, PTL DEF Spec
<1>2. Init => CounterInv /\ SoundInv /\ TakenInv
  BY CountedInit
<1>3. LinkInv /\ CounterInv /\ SoundInv /\ TakenInv /\ [Next]_vars
         => CounterInv' /\ SoundInv' /\ TakenInv'
  BY CountedStep
<1>4. TakenInv => ReplayMeansTaken
  BY DEF TakenInv, ReplayMeansTaken, S!Matches
<1> QED
  BY <1>1, <1>2, <1>3, <1>4, PTL DEF Spec

-----------------------------------------------------------------------------
(* A sender whose saves work is never blocked                              *)

LEMMA CacheStep ==
  LinkInv /\ SoundInv /\ TakenInv /\ CacheInv /\ [Next]_vars => CacheInv'
<1> SUFFICES ASSUME LinkInv, SoundInv, TakenInv, CacheInv, [Next]_vars PROVE CacheInv'
  OBVIOUS
<1>1. CASE UNCHANGED <<cache, mode, store>>
  BY <1>1 DEF CacheInv
<1>2. CASE Deliver
  <2>1. PICK i \in DOMAIN outbox : G!Receive(SenderAddress, outbox[i].datagram)
    BY <1>2 DEF Deliver, DeliverTo
  <2> DEFINE d == outbox[i].datagram
             last == store.last_sender_counter
  <2>2. d \in Sent
    BY DEF Packets, Sent
  <2> HIDE DEF d
  <2>3. /\ mode = "listening" /\ mode' = mode
        /\ \/ Declines /\ cache' = cache
           \/ Takes(d) /\ cache' = [cache EXCEPT ![cache_next] = d.nonce]
    BY <2>1, <2>2, Judged DEF d
  <2>4. CASE Declines /\ cache' = cache
    BY <2>3, <2>4 DEF CacheInv, Declines
  <2>5. CASE Takes(d) /\ cache' = [cache EXCEPT ![cache_next] = d.nonce]
    <3>1. d.nonce \in 1..issued /\ issued \in Nat /\ issued <= MaxIssued /\ MaxIssued \in Nat
      BY <2>2, <2>5, LinkAssumption DEF Takes, LinkInv, MessageInv, SoundInv
    <3>2. store'.last_sender_counter = d.nonce /\ ~(d.nonce <= last)
      BY <2>2, <2>5 DEF Takes, SoundInv, IsSound
    <3>3. last \in Nat
      BY <2>3 DEF LinkInv, StoreInv, IsStore
    <3>4. cache' = [j \in Slots |-> cache'[j]]
      BY <2>5 DEF CacheInv
    <3>5. \A j \in Slots : cache'[j] = cache[j] \/ cache'[j] = d.nonce
      BY <2>5 DEF CacheInv
    <3> HIDE DEF last
    <3>6. ASSUME NEW j \in Slots, cache'[j] # NoNonce
          PROVE  cache'[j] \in 1..MaxIssued /\ cache'[j] <= store'.last_sender_counter
      <4>1. CASE cache'[j] = d.nonce
        BY <3>1, <3>2, <4>1
      <4>2. CASE cache'[j] = cache[j]
        <5>1. cache[j] \in 1..MaxIssued /\ cache[j] <= last
          BY <3>6, <4>2 DEF CacheInv, last
        <5> QED
          BY <3>1, <3>2, <3>3, <4>2, <5>1
      <4> QED
        BY <3>5, <4>1, <4>2
    <3> QED
      BY <2>3, <3>4, <3>6 DEF CacheInv
  <2> QED
    BY <2>3, <2>4, <2>5
<1>3. CASE GatewayPower
  <2>1. G!Power /\ StoreInv
    BY <1>3 DEF GatewayPower, LinkInv
  <2> QED
    BY <2>1, PowerStarts DEF CacheInv
<1>4. CASE SenderStep \/ LoseDatagram
  BY <1>1, <1>4 DEF SenderStep, LoseDatagram, gateway
<1>5. CASE Idles
  BY <1>1, <1>5 DEF Idles
<1> QED
  BY <1>2, <1>3, <1>4, <1>5, OtherSteps DEF Next

LEMMA FailureInit == Init => FailureInv
<1> SUFFICES ASSUME Init PROVE FailureInv
  OBVIOUS
<1>1. /\ guards = [p \in Peers |-> G!EmptySlot] /\ mode = "off" /\ step = "off"
      /\ SenderAddress \in Peers
  BY LinkAssumption DEF Init, S!Init, G!Init
<1>2. Guarded = G!EmptySlot
  BY <1>1 DEF Guarded
<1> QED
  BY <1>1, <1>2 DEF FailureInv, IsGuard, G!EmptySlot, MetaComes

LEMMA FailurePower ==
  ASSUME LinkInv, LinkInv', SoundInv', FailureInv, GatewayPower
  PROVE  FailureInv'
<1> USE DEF LinkInv
<1>1. UNCHANGED <<step, request, outbox>> /\ G!Power
  BY DEF GatewayPower, sender
<1>2. reply' \in {reply, S!NoReply}
  BY <1>1, PowerEffect
<1>3. MetaComes' => MetaComes
  BY <1>1, <1>2 DEF MetaComes
<1>4. Posts' = Posts
  BY <1>1 DEF Posts
<1>5. MetaComes' => Cardinality(Posts') < Capacity
  BY <1>3, <1>4 DEF FailureInv
<1>6. /\ guards' = [p \in Peers |-> Guarded'] /\ IsGuard(Guarded')
      /\ Guarded'.auth_failures = 0
  <2>1. CASE UNCHANGED guards /\ mode # "listening"
    BY <2>1 DEF FailureInv, Guarded
  <2>2. CASE guards' = [p \in Peers |-> G!EmptySlot]
    <3>1. Guarded' = G!EmptySlot
      BY <2>2, LinkAssumption DEF Guarded
    <3> QED
      BY <2>2, <3>1 DEF IsGuard, G!EmptySlot
  <2> QED
    BY <1>1, <2>1, <2>2, PowerStarts
<1>7. Guarded'.auth_failures + Cardinality(Stale') + Owed' < Capacity + MaxAttempts
  <2> DEFINE posts == Cardinality(Posts')
             stale == Cardinality(Stale')
             owed == Owed'
  <2>1. /\ posts \in Nat /\ stale \in Nat /\ stale <= posts /\ posts <= Len(outbox')
        /\ owed \in Nat /\ owed <= MaxAttempts /\ (~MetaComes' => owed < MaxAttempts)
    BY CountsBoundedNext, OwedBoundedNext DEF CountsFit, OwedFits
  <2>2. Len(outbox') \in Nat /\ Len(outbox') <= Capacity /\ Capacity \in Nat /\ MaxAttempts \in Nat
    BY LinkAssumption DEF ChannelInv
  <2>3. stale + owed < Capacity + MaxAttempts
    <3>1. MetaComes' => posts < Capacity
      BY <1>5
    <3> HIDE DEF posts, stale, owed
    <3> QED
      BY <2>1, <2>2, <3>1
  <2> HIDE DEF posts, stale, owed
  <2>4. 0 + stale + owed < Capacity + MaxAttempts
    BY <2>1, <2>3
  <2> QED
    BY <1>6, <2>4 DEF posts, stale, owed
<1> QED
  BY <1>5, <1>6, <1>7 DEF FailureInv

LEMMA FailureDeliver ==
  ASSUME Capacity + MaxAttempts <= FailsToBlock,
         LinkInv, LinkInv', SoundInv, SoundInv', CacheInv, FailureInv, Deliver
  PROVE  FailureInv'
<1> USE DEF LinkInv
<1>1. PICK i \in DOMAIN outbox :
         /\ G!Receive(SenderAddress, outbox[i].datagram)
         /\ outbox' = RemoveAt(outbox, i)
         /\ UNCHANGED <<sender, link>>
  BY DEF Deliver, DeliverTo
<1> DEFINE d == outbox[i].datagram
           posts == Cardinality(Posts)
           stale == Cardinality(Stale)
           owed == Owed
           f == Guarded.auth_failures
           posts2 == Cardinality(Posts')
           stale2 == Cardinality(Stale')
           owed2 == Owed'
           f2 == Guarded'.auth_failures
<1>2. d \in Sent
  BY DEF Packets, Sent
<1>3. UNCHANGED <<step, request, attempt, issued>>
  BY <1>1 DEF sender
<1>4. /\ mode = "listening" /\ mode' = mode /\ store'.key = store.key
      /\ Declines \/ (Takes(d) /\ reply'.body.tag = "OK")
      /\ reply' # S!NoReply /\ reply'.body.tag = "meta" => reply'.body.key = store.key
  BY <1>1, <1>2, Judged
<1>5. /\ posts \in Nat /\ stale \in Nat /\ IsFiniteSet(Stale)
      /\ owed \in Nat /\ f \in Nat
      /\ f + stale + owed < Capacity + MaxAttempts
  BY <1>4, CountsBounded, OwedBounded DEF CountsFit, OwedFits, FailureInv, IsGuard
<1>6. /\ posts2 \in Nat /\ stale2 \in Nat /\ stale2 <= posts2 /\ posts2 <= Len(outbox')
      /\ owed2 \in Nat /\ (~MetaComes' => owed2 < MaxAttempts)
  BY CountsBoundedNext, OwedBoundedNext DEF CountsFit, OwedFits
<1>7. Len(outbox') < Capacity /\ Len(outbox') \in Nat /\ Capacity \in Nat /\ MaxAttempts \in Nat
      /\ FailsToBlock \in Nat
  BY <1>1, RemoveEffect, LinkAssumption DEF ChannelInv, G!GuardAssumption
<1>8. posts2 < Capacity
  <2> HIDE DEF posts2
  <2> QED
    BY <1>6, <1>7
<1>9. Refusable(d) => f + 1 < FailsToBlock
  <2> SUFFICES ASSUME Refusable(d) PROVE f + 1 < FailsToBlock
    OBVIOUS
  <2>1. i \in Stale
    BY DEF Stale
  <2>2. stale # 0
    BY <1>5, <2>1, FS_EmptySet
  <2> HIDE DEF stale, owed, f
  <2> QED
    BY <1>5, <1>7, <2>2
<1>10. /\ guards' = [p \in Peers |-> Guarded'] /\ IsGuard(Guarded')
       /\ f2 <= f + (IF Refusable(d) THEN 1 ELSE 0)
       /\ accepted' # accepted => f2 = 0
  BY <1>1, <1>2, <1>9, Charged
<1>11. f2 \in Nat
  BY <1>10 DEF IsGuard
<1>12. f2 + stale2 + owed2 < Capacity + MaxAttempts
  <2>1. CASE Declines
    <3>1. SameJudgement
      BY <1>4, <2>1 DEF SameJudgement, Declines
    <3>2. Packets' \subseteq Packets
      BY <1>1, RemoveEffect
    <3>3. stale2 <= stale - (IF Refusable(d) THEN 1 ELSE 0)
      BY <1>1, <3>1, <3>2, CountsAfterRemoval
    <3>4. owed2 <= owed
      <4>1. Refusable(request)' = Refusable(request)
        BY <1>3, <3>1 DEF Refusable, SameJudgement
      <4>2. CASE step = "data" /\ Refusable(request)
        <5>1. owed2 = owed
          BY <1>3, <4>1, <4>2 DEF Owed
        <5> HIDE DEF owed, owed2
        <5> QED
          BY <1>5, <5>1
      <4>3. CASE ~(step = "data" /\ Refusable(request))
        <5>1. ~(MetaComes' /\ store'.key # Provisioned)
          BY <1>4 DEF MetaComes
        <5>2. owed2 = 0
          BY <1>3, <4>1, <4>3, <5>1 DEF Owed
        <5> HIDE DEF owed, owed2
        <5> QED
          BY <1>5, <5>2
      <4> QED
        BY <4>2, <4>3
    <3> DEFINE n == IF Refusable(d) THEN 1 ELSE 0
    <3>5. n \in Nat
      OBVIOUS
    <3>6. f2 <= f + n /\ stale2 <= stale - n
      BY <1>10, <3>3
    <3> HIDE DEF n, f, f2, stale, stale2, owed, owed2
    <3> QED
      BY <1>5, <1>6, <1>7, <1>11, <3>4, <3>5, <3>6
  <2>2. CASE Takes(d) /\ reply'.body.tag = "OK"
    <3>1. accepted' # accepted
      BY <1>2, <2>2, TakenIsNew
    <3>2. ~MetaComes'
      BY <2>2 DEF MetaComes
    <3>3. f2 = 0 /\ owed2 < MaxAttempts
      BY <1>6, <1>10, <3>1, <3>2
    <3> HIDE DEF f, f2, stale, stale2, owed, owed2, posts2
    <3> QED
      BY <1>6, <1>7, <1>8, <3>3
  <2> QED
    BY <1>4, <2>1, <2>2
<1> QED
  BY <1>4, <1>8, <1>10, <1>12 DEF FailureInv

LEMMA FailureStep ==
  ASSUME Capacity + MaxAttempts <= FailsToBlock
  PROVE  /\ LinkInv /\ LinkInv' /\ CounterInv /\ SoundInv /\ SoundInv' /\ TakenInv
         /\ CacheInv /\ FailureInv /\ [Next]_vars
         => FailureInv'
<1> SUFFICES ASSUME LinkInv, LinkInv', CounterInv, SoundInv, SoundInv', TakenInv,
                    CacheInv, FailureInv, [Next]_vars
             PROVE  FailureInv'
  OBVIOUS
<1>1. CASE SenderStep
  <2>1. S!Next /\ UNCHANGED <<store, mode, guards, taken>>
    BY <1>1 DEF SenderStep
  <2> QED
    BY <2>1, SenderEffect, FailureSender DEF LinkInv
<1>2. CASE Deliver
  BY <1>2, FailureDeliver
<1>3. CASE LoseDatagram
  <2>1. PICK i \in DOMAIN outbox : outbox' = RemoveAt(outbox, i)
    BY <1>3 DEF LoseDatagram
  <2>2. UNCHANGED <<step, request, attempt, reply, store, mode, guards>>
    BY <1>3 DEF LoseDatagram, sender, gateway
  <2>3. ChannelInv /\ ChannelInv' /\ SameJudgement /\ Packets' \subseteq Packets
    BY <2>1, <2>2, RemoveEffect DEF LinkInv, SameJudgement
  <2>4. /\ Cardinality(Posts') <= Cardinality(Posts)
        /\ Cardinality(Stale') <=
              Cardinality(Stale) - (IF Refusable(outbox[i].datagram) THEN 1 ELSE 0)
    BY <2>1, <2>3, CountsAfterRemoval
  <2>5. /\ Cardinality(Posts) \in Nat /\ Cardinality(Posts') \in Nat
        /\ Cardinality(Stale) \in Nat /\ Cardinality(Stale') \in Nat /\ Owed \in Nat
        /\ Capacity \in Nat
    BY <2>3, CountsBounded, CountsBoundedNext, OwedBounded, LinkAssumption DEF CountsFit, OwedFits
  <2>6. MetaComes' = MetaComes
    BY <2>2 DEF MetaComes
  <2>7. Refusable(request)' = Refusable(request)
    BY <2>2 DEF Refusable
  <2>8. Owed' = Owed
    BY <2>2, <2>6, <2>7 DEF Owed
  <2>9. MetaComes' => Cardinality(Posts') < Capacity
    <3>1. MetaComes => Cardinality(Posts) < Capacity
      BY DEF FailureInv
    <3> QED
      BY <2>4, <2>5, <2>6, <3>1
  <2>10. Cardinality(Stale') <= Cardinality(Stale) + 0 /\ Owed' + 0 <= Owed
    BY <2>4, <2>5, <2>8
  <2> QED
    BY <2>2, <2>3, <2>9, <2>10, GuardLeftAlone
<1>4. CASE GatewayPower
  BY <1>4, FailurePower
<1>5. CASE Idles
  BY <1>5, FailureSender DEF Idles
<1> QED
  BY <1>1, <1>2, <1>3, <1>4, <1>5, OtherSteps DEF Next

\* A sender whose saves work is never blocked by the gateway, however many
\* answers and posts are lost, late or repeated and however often either
\* board restarts, as long as a block needs more failures than the copies of
\* one message and the datagrams under way: a message that was taken, or was
\* sealed for a keypair that the gateway has lost, is refused as often as it
\* arrives, and the message after it is accepted and clears the failures, or
\* is not sent, because the metadata show another keypair.
THEOREM SenderIsNeverBlocked ==
  ASSUME ~FlashFaults, Capacity + MaxAttempts <= FailsToBlock
  PROVE  Spec => []NeverBlocked
<1>1. Spec => []LinkInv
  BY LinkInit, LinkStep, PTL DEF Spec
<1>2. Init => CounterInv /\ SoundInv /\ TakenInv /\ CacheInv /\ FailureInv
  BY CountedInit, FailureInit
<1>3. LinkInv /\ CounterInv /\ SoundInv /\ TakenInv /\ [Next]_vars
         => CounterInv' /\ SoundInv' /\ TakenInv'
  BY CountedStep
<1>4. LinkInv /\ SoundInv /\ TakenInv /\ CacheInv /\ [Next]_vars => CacheInv'
  BY CacheStep
<1>5. /\ LinkInv /\ LinkInv' /\ CounterInv /\ SoundInv /\ SoundInv' /\ TakenInv
      /\ CacheInv /\ FailureInv /\ [Next]_vars
      => FailureInv'
  BY FailureStep
<1>6. FailureInv => NeverBlocked
  BY DEF FailureInv, IsGuard, Guarded, NeverBlocked
<1> QED
  BY <1>1, <1>2, <1>3, <1>4, <1>5, <1>6, PTL DEF Spec
-----------------------------------------------------------------------------
(***************************************************************************)
(* Types.  GatewayProofs shows those of the gateway, which does here what  *)
(* it does in Gateway but for its clock.  The prover takes G!Receive and   *)
(* GP!Receive for two definitions; the lemmas say that they are the same.  *)
(***************************************************************************)
GP == INSTANCE GatewayProofs

LEMMA SameGuards ==
  /\ G!EmptySlot = GP!EmptySlot
  /\ \A gs, p, t : G!GuardGet(gs, p, t) = GP!GuardGet(gs, p, t)
  /\ \A g, k, t : G!CountRequest(g, k, t) = GP!CountRequest(g, k, t)
  /\ \A g, k : G!WithinLimit(g, k) <=> GP!WithinLimit(g, k)
  /\ \A g, t : G!IsBlocked(g, t) <=> GP!IsBlocked(g, t)
  /\ \A g, t : G!RecordFailure(g, t) = GP!RecordFailure(g, t)
  /\ \A g : G!RecordSuccess(g) = GP!RecordSuccess(g)
<1>1. G!EmptySlot = GP!EmptySlot
  BY DEF G!EmptySlot, G!NoRequests, GP!EmptySlot, GP!NoRequests
<1>2. \A X : G!Cardinality(X) = GP!Cardinality(X)
  BY DEF G!Cardinality, GP!Cardinality
<1>3. \A gs, p, t : G!GuardGet(gs, p, t) = GP!GuardGet(gs, p, t)
  BY <1>1, <1>2 DEF G!GuardGet, G!HasFreeSlot, GP!GuardGet, GP!HasFreeSlot
<1>4. \A g, k, t : G!CountRequest(g, k, t) = GP!CountRequest(g, k, t)
  BY DEF G!CountRequest, G!RollWindow, G!Since, G!NoRequests,
         GP!CountRequest, GP!RollWindow, GP!Since, GP!NoRequests
<1>5. \A g, k : G!WithinLimit(g, k) <=> GP!WithinLimit(g, k)
  BY DEF G!WithinLimit, GP!WithinLimit
<1>6. \A g, t : G!IsBlocked(g, t) <=> GP!IsBlocked(g, t)
  BY DEF G!IsBlocked, G!PositiveSigned, G!Since, GP!IsBlocked, GP!PositiveSigned, GP!Since
<1>7. \A g, t : G!RecordFailure(g, t) = GP!RecordFailure(g, t)
  BY DEF G!RecordFailure, GP!RecordFailure
<1>8. \A g : G!RecordSuccess(g) = GP!RecordSuccess(g)
  BY DEF G!RecordSuccess, GP!RecordSuccess
<1> QED
  BY <1>1, <1>3, <1>4, <1>5, <1>6, <1>7, <1>8

LEMMA SameStores ==
  /\ \A s : G!MetaUpdate(s) = GP!MetaUpdate(s)
  /\ \A s : G!BootStore(s) = GP!BootStore(s)
  /\ \A s, d : G!Consumed(s, d) = GP!Consumed(s, d)
  /\ \A s : G!NeedsRotation(s) <=> GP!NeedsRotation(s)
  /\ \A k : G!NewStore(k) = GP!NewStore(k)
<1>1. \A s : G!MetaUpdate(s) = GP!MetaUpdate(s)
  BY DEF G!MetaUpdate, GP!MetaUpdate
<1>2. \A s : G!BootStore(s) = GP!BootStore(s)
  BY <1>1 DEF G!BootStore, GP!BootStore
<1>3. \A s, d : G!Consumed(s, d) = GP!Consumed(s, d)
  BY <1>1 DEF G!Consumed, GP!Consumed
<1>4. \A s : G!NeedsRotation(s) <=> GP!NeedsRotation(s)
  BY DEF G!NeedsRotation, GP!NeedsRotation
<1>5. \A k : G!NewStore(k) = GP!NewStore(k)
  BY DEF G!NewStore, GP!NewStore
<1> QED
  BY <1>1, <1>2, <1>3, <1>4, <1>5

LEMMA SameReceive == \A p, d : G!Receive(p, d) => GP!Receive(p, d)
<1> SUFFICES ASSUME NEW p, NEW d, G!Receive(p, d) PROVE GP!Receive(p, d)
  OBVIOUS
<1> USE SameGuards, SameStores
    DEF G!Rest, GP!Rest, G!Accepts, GP!Accepts, G!SetGuard, GP!SetGuard, G!GuardOf, GP!GuardOf,
        G!Counted, GP!Counted, G!Answer, GP!Answer, G!Text, GP!Text, G!KeyId, GP!KeyId,
        G!NoReply, GP!NoReply, G!Admitted, GP!Admitted, G!Dispatched, GP!Dispatched
<1>1. \A x, c : G!Fails(x, c) <=> GP!Fails(x, c)
  BY DEF G!Fails, GP!Fails, G!NonceSeen, GP!NonceSeen
<1>2. G!CheckOrder = GP!CheckOrder
  BY DEF G!CheckOrder, GP!CheckOrder
<1>3. CASE G!Malformed(p, d)
  BY <1>3 DEF G!Malformed, GP!Malformed, GP!Receive
<1>4. CASE G!Refused(p, d)
  BY <1>4 DEF G!Refused, GP!Refused, GP!Receive
<1>5. CASE G!BadHeader(p, d)
  BY <1>5 DEF G!BadHeader, GP!BadHeader, GP!Receive
<1>6. CASE G!NotFound(p, d)
  BY <1>6 DEF G!NotFound, GP!NotFound, GP!Receive
<1>7. CASE G!Throttled(p, d)
  BY <1>7 DEF G!Throttled, GP!Throttled, GP!Receive
<1>8. CASE G!ServeMeta(p, d)
  BY <1>8 DEF G!ServeMeta, GP!ServeMeta, GP!Receive
<1>9. CASE G!ServePk(p, d)
  BY <1>9 DEF G!ServePk, GP!ServePk, GP!Receive
<1>10. CASE G!PostToSpentKey(p, d)
  BY <1>10 DEF G!PostToSpentKey, GP!PostToSpentKey, GP!Receive
<1>11. CASE G!PostRejected(p, d)
  BY <1>1, <1>2, <1>11 DEF G!PostRejected, GP!PostRejected, GP!Receive
<1>12. CASE G!PostAccepted(p, d)
  BY <1>1, <1>2, <1>12 DEF G!PostAccepted, GP!PostAccepted, GP!Receive, G!MaySave, GP!MaySave,
                          G!RememberNonce, GP!RememberNonce
<1> QED
  BY <1>3, <1>4, <1>5, <1>6, <1>7, <1>8, <1>9, <1>10, <1>11, <1>12 DEF G!Receive

LEMMA SamePower == G!Power => GP!Power
<1> SUFFICES ASSUME G!Power PROVE GP!Power
  OBVIOUS
<1> USE SameGuards, SameStores DEF G!ram, GP!ram, G!tally, GP!tally, G!NoStore, GP!NoStore,
                                  G!MaySave, GP!MaySave
<1>1. CASE G!BootFromFlash
  BY <1>1 DEF G!BootFromFlash, GP!BootFromFlash, GP!Power
<1>2. CASE G!BootWithNewKey
  BY <1>2 DEF G!BootWithNewKey, GP!BootWithNewKey, GP!Power
<1>3. CASE G!BootFails
  BY <1>3 DEF G!BootFails, GP!BootFails, GP!Power
<1>4. CASE G!PowerCycle
  <2>1. G!ClearRam => GP!ClearRam
    BY DEF G!ClearRam, GP!ClearRam
  <2> QED
    BY <1>4, <2>1 DEF G!PowerCycle, GP!PowerCycle, GP!Power, G!Unsaved, GP!Unsaved
<1>5. CASE G!FlashLost
  BY <1>5 DEF G!FlashLost, GP!FlashLost, GP!Power
<1> QED
  BY <1>1, <1>2, <1>3, <1>4, <1>5 DEF G!Power

LEMMA SameTypes == G!TypeOK <=> GP!TypeOK
BY DEF G!TypeOK, G!Store, G!NoStore, G!Guard, G!Time, G!Nonces, G!Keypairs, G!Statuses,
       GP!TypeOK, GP!Store, GP!NoStore, GP!Guard, GP!Time, GP!Nonces, GP!Keypairs, GP!Statuses

LEMMA SameInit == G!Init => GP!Init
BY SameGuards DEF G!Init, GP!Init, G!NoStore, GP!NoStore, G!NoReply, GP!NoReply,
                  G!Keypairs, GP!Keypairs

LEMMA SameConstants == GP!GuardAssumption /\ GP!GatewayAssumption
BY LinkAssumption
   DEF G!GuardAssumption, GP!GuardAssumption, G!GatewayAssumption, GP!GatewayAssumption,
       G!Time, GP!Time, G!DatagramKinds, GP!DatagramKinds

-----------------------------------------------------------------------------
(* The sender's types                                                      *)

AddressOrNone == Addresses \cup {NoAddress}

\* A saved state has a counter no higher than the next one of the sender.
IsProper(s, n) ==
    /\ s \in [next_counter: 0..(MaxIssued + 1), last_gateway_ip: AddressOrNone]
    /\ s.next_counter <= n + 1
    /\ s # S!NoState => s.next_counter > 0

SenderTyped ==
    /\ issued \in 0..MaxIssued
    /\ step \in S!Steps
    /\ IsProper(state, issued)
    /\ IsProper(saved, issued)
    /\ step \notin {"off", "stopped"} => state.next_counter > 0
    /\ gw \in AddressOrNone
    /\ failures \in 0..(RefreshAfter - 1)
    /\ attempt \in 0..MaxAttempts
    /\ step \in Waiting => request.msg_id > 0 /\ attempt > 0
    /\ step = "data" => request.nonce = issued
    /\ confirmed \subseteq 1..issued

LinkTyped ==
    /\ SenderTyped
    /\ GP!TypeOK
    /\ address \in Addresses
    /\ moves \in 0..MaxMoves
    /\ taken \subseteq 1..issued

LEMMA ProperStates ==
  ASSUME NEW n \in 0..MaxIssued
  PROVE  IsProper(S!NoState, n) /\ IsProper(S!FirstState, n) /\ S!FirstState.next_counter > 0
BY LinkAssumption DEF IsProper, S!NoState, S!FirstState, AddressOrNone

LEMMA SaveProper ==
  ASSUME NEW n \in 0..MaxIssued, IsProper(saved, n), NEW s, IsProper(s, n), S!Save(s)
  PROVE  IsProper(saved', n)
BY ProperStates DEF S!Save

\* A new request has an id, and has been sent once.
LEMMA AskTypes ==
  ASSUME ChannelInv, NEW where \in S!Steps \ {"data"}, NEW to, NEW what, S!Ask(where, to, S!Get(what))
  PROVE  /\ step' = where
         /\ request'.msg_id > 0
         /\ attempt' = 1 /\ attempt' \in 0..MaxAttempts
<1>1. S!FreshId > 0
  BY FreshIdEffect
<1> QED
  BY <1>1, LinkAssumption DEF S!Ask, S!Get

LEMMA IdleTypes ==
  ASSUME S!Idle PROVE step' = "idle" /\ attempt' \in 0..MaxAttempts
BY LinkAssumption DEF S!Idle

LEMMA CycleFailsTypes ==
  ASSUME ChannelInv, SenderTyped, step \in Waiting, S!CycleFails,
         UNCHANGED <<gw, issued, confirmed>>
  PROVE  SenderTyped'
<1> USE DEF SenderTyped
<1>1. /\ RefreshAfter \in Nat \ {0}
      /\ state.next_counter > 0 /\ issued' = issued /\ gw' \in AddressOrNone
      /\ confirmed' \subseteq 1..issued'
  BY LinkAssumption DEF Waiting, S!Asking, S!Discovering
<1>2. CASE failures + 1 < RefreshAfter
  <2>1. failures' = failures + 1 /\ S!Idle /\ UNCHANGED <<state, saved>>
    BY <1>2 DEF S!CycleFails
  <2>2. step' = "idle" /\ attempt' \in 0..MaxAttempts
    BY <2>1, IdleTypes
  <2>3. failures' \in 0..(RefreshAfter - 1)
    BY <1>1, <1>2, <2>1
  <2> QED
    BY <1>1, <2>1, <2>2, <2>3 DEF S!Steps, Waiting, S!Asking, S!Discovering
<1>3. CASE ~(failures + 1 < RefreshAfter)
  <2>1. /\ failures' = 0
        /\ state' = [state EXCEPT !.last_gateway_ip = NoAddress]
        /\ S!Save(state') /\ S!Ask("refresh", Broadcast, S!Get("meta"))
    BY <1>3 DEF S!CycleFails, S!Discover
  <2>2. IsProper(state', issued) /\ state'.next_counter > 0
    <3>1. /\ state' \in [next_counter: 0..(MaxIssued + 1), last_gateway_ip: AddressOrNone]
          /\ state'.next_counter = state.next_counter
      BY <2>1 DEF IsProper, AddressOrNone
    <3> QED
      BY <1>1, <3>1 DEF IsProper
  <2>3. IsProper(saved', issued)
    BY <2>1, <2>2, SaveProper
  <2>4. step' = "refresh" /\ request'.msg_id > 0 /\ attempt' = 1 /\ attempt' \in 0..MaxAttempts
    BY <2>1, AskTypes DEF S!Steps, S!Discovering
  <2>5. failures' \in 0..(RefreshAfter - 1)
    BY <1>1, <2>1
  <2> QED
    BY <1>1, <2>2, <2>3, <2>4, <2>5 DEF S!Steps, S!Discovering
<1> QED
  BY <1>2, <1>3

LEMMA SealTypes ==
  ASSUME ChannelInv, SenderTyped, step = "meta", NEW meta, S!Seal(meta),
         UNCHANGED <<gw, failures, confirmed>>
  PROVE  SenderTyped'
<1> USE DEF SenderTyped
<1>1. /\ issued < MaxIssued /\ issued' = issued + 1 /\ step' = "data" /\ attempt' = 1
      /\ state' = [next_counter |-> state.next_counter + 1, last_gateway_ip |-> gw]
      /\ S!Save(state')
      /\ request'.msg_id = S!FreshId /\ request'.nonce = issued'
  BY DEF S!Seal, S!Ask
<1>2. MaxIssued \in Nat /\ MaxAttempts \in Nat \ {0} /\ S!FreshId > 0 /\ issued \in Nat
  BY LinkAssumption, FreshIdEffect
<1>3. issued' \in 0..MaxIssued
  BY <1>1, <1>2
<1>4. state.next_counter \in Nat /\ state.next_counter <= issued + 1
  BY DEF IsProper
<1>5. IsProper(state', issued') /\ state'.next_counter > 0
  <2>1. state'.next_counter = state.next_counter + 1 /\ state'.last_gateway_ip = gw
    BY <1>1
  <2>2. state.next_counter + 1 \in 0..(MaxIssued + 1) /\ state.next_counter + 1 <= issued' + 1
    BY <1>1, <1>2, <1>4
  <2> QED
    BY <1>1, <1>4, <2>1, <2>2 DEF IsProper
<1>6. IsProper(saved', issued')
  <2>1. IsProper(saved, issued')
    BY <1>1, <1>2 DEF IsProper
  <2> QED
    BY <1>1, <1>3, <1>5, <2>1, SaveProper
<1>7. confirmed' \subseteq 1..issued'
  BY <1>1, <1>2
<1> QED
  BY <1>1, <1>2, <1>3, <1>5, <1>6, <1>7 DEF S!Steps, S!Asking, Waiting

LEMMA SenderTypes ==
  ASSUME LinkInv, LinkTyped, S!Next
  PROVE  SenderTyped' /\ issued <= issued'
<1> USE DEF LinkInv, LinkTyped
<1>0. address \in AddressOrNone
  BY DEF AddressOrNone
<1>1. CASE S!PowerOn
  <2>1. /\ state' = (IF saved # S!NoState THEN saved ELSE S!FirstState) /\ saved' = state'
        /\ S!Ask("resolve", Broadcast, S!Get("meta"))
        /\ UNCHANGED <<gw, failures, issued, confirmed>>
    BY <1>1 DEF S!PowerOn, S!history, S!Discover
  <2>2. IsProper(state', issued) /\ state'.next_counter > 0
    <3>1. IsProper(S!FirstState, issued) /\ S!FirstState.next_counter > 0
      BY ProperStates DEF SenderTyped
    <3>2. saved # S!NoState => saved.next_counter > 0
      BY DEF SenderTyped, IsProper
    <3> QED
      BY <2>1, <3>1, <3>2 DEF SenderTyped
  <2>3. step' = "resolve" /\ request'.msg_id > 0 /\ attempt' = 1 /\ attempt' \in 0..MaxAttempts
    BY <2>1, AskTypes DEF S!Steps, S!Discovering
  <2> QED
    BY <2>1, <2>2, <2>3 DEF SenderTyped, S!Steps, S!Discovering
<1>2. CASE S!DiscoveryTimesOut
  <2>1. /\ gw' = state.last_gateway_ip /\ UNCHANGED <<state, saved, failures, issued, confirmed>>
        /\ step \notin {"off", "stopped"}
        /\ (step' = "stopped" /\ attempt' = attempt) \/ S!Idle
    BY <1>2 DEF S!DiscoveryTimesOut, S!history, S!Discovering
  <2>2. gw' \in AddressOrNone
    BY <2>1 DEF SenderTyped, IsProper
  <2>3. step' \in {"idle", "stopped"} /\ attempt' \in 0..MaxAttempts
    BY <2>1, IdleTypes DEF SenderTyped
  <2> QED
    BY <2>1, <2>2, <2>3 DEF SenderTyped, S!Steps, Waiting, S!Asking, S!Discovering
<1>3. CASE S!StartCycle
  <2>1. /\ S!Ask("pk", gw, S!Get("pk")) /\ step = "idle"
        /\ UNCHANGED <<state, saved, gw, failures, issued, confirmed>>
    BY <1>3 DEF S!StartCycle, S!history
  <2>2. step' = "pk" /\ request'.msg_id > 0 /\ attempt' = 1 /\ attempt' \in 0..MaxAttempts
    BY <2>1, AskTypes DEF S!Steps, S!Asking
  <2> QED
    BY <2>1, <2>2 DEF SenderTyped, S!Steps, S!Asking
<1>4. CASE S!Resend
  <2>1. /\ attempt < MaxAttempts /\ attempt' = attempt + 1
        /\ UNCHANGED <<step, state, saved, gw, failures, request, issued, confirmed>>
    BY <1>4 DEF S!Resend, S!history
  <2>2. attempt' \in 0..MaxAttempts /\ attempt' > 0
    BY <2>1, LinkAssumption DEF SenderTyped
  <2> QED
    BY <2>1, <2>2 DEF SenderTyped
<1>5. CASE S!OutOfAttempts
  <2>1. step \in Waiting /\ S!CycleFails /\ UNCHANGED <<gw, issued, confirmed>>
    BY <1>5 DEF S!OutOfAttempts, S!history, Waiting
  <2> QED
    BY <2>1, CycleFailsTypes DEF SenderTyped
<1>6. CASE S!Discovered
  <2>1. /\ gw' = address /\ S!Idle /\ UNCHANGED <<state, saved, failures, issued, confirmed>>
        /\ step \notin {"off", "stopped"}
    BY <1>6 DEF S!Discovered, S!history, S!Discovering
  <2>2. step' = "idle" /\ attempt' \in 0..MaxAttempts
    BY <2>1, IdleTypes
  <2> QED
    BY <1>0, <2>1, <2>2 DEF SenderTyped, S!Steps, Waiting, S!Asking, S!Discovering
<1>7. CASE S!PkAnswered
  <2>1. step = "pk" /\ step \in Waiting /\ UNCHANGED <<gw, issued, confirmed>>
    BY <1>7 DEF S!PkAnswered, S!history, Waiting, S!Asking
  <2>2. CASE S!CycleFails
    BY <2>1, <2>2, CycleFailsTypes DEF SenderTyped
  <2>3. CASE S!Ask("meta", gw, S!Get("meta")) /\ UNCHANGED <<state, saved, failures>>
    <3>1. step' = "meta" /\ request'.msg_id > 0 /\ attempt' = 1 /\ attempt' \in 0..MaxAttempts
      BY <2>3, AskTypes DEF S!Steps, S!Asking
    <3> QED
      BY <2>1, <2>3, <3>1 DEF SenderTyped, S!Steps, S!Asking
  <2> QED
    BY <1>7, <2>2, <2>3 DEF S!PkAnswered
<1>8. CASE S!MetaRejected \/ S!DataRejected
  <2>1. step \in Waiting /\ S!CycleFails /\ UNCHANGED <<gw, issued, confirmed>>
    BY <1>8 DEF S!MetaRejected, S!DataRejected, S!history, Waiting, S!Asking
  <2> QED
    BY <2>1, CycleFailsTypes DEF SenderTyped
<1>9. CASE S!MetaAccepted
  <2>1. step = "meta" /\ step \in Waiting /\ UNCHANGED <<gw, confirmed>>
    BY <1>9 DEF S!MetaAccepted, Waiting, S!Asking
  <2>2. CASE S!CycleFails /\ UNCHANGED issued
    BY <2>1, <2>2, CycleFailsTypes DEF SenderTyped
  <2>3. CASE S!Seal(reply.body) /\ UNCHANGED failures
    <3>1. issued' = issued + 1 /\ issued \in Nat
      BY <2>3 DEF S!Seal, SenderTyped
    <3> QED
      BY <2>1, <2>3, <3>1, SealTypes
  <2> QED
    BY <1>9, <2>2, <2>3 DEF S!MetaAccepted
<1>10. CASE S!DataConfirmed
  <2>1. /\ step = "data" /\ failures' = 0 /\ S!Idle
        /\ confirmed' = confirmed \cup {request.nonce}
        /\ UNCHANGED <<state, saved, gw, issued>>
    BY <1>10 DEF S!DataConfirmed
  <2>2. step' = "idle" /\ attempt' \in 0..MaxAttempts
    BY <2>1, IdleTypes
  <2>3. request.nonce \in 1..issued
    BY <2>1 DEF ChannelInv, MessageInv, Sent
  <2>4. failures' \in 0..(RefreshAfter - 1)
    BY <2>1, LinkAssumption
  <2>5. confirmed' \subseteq 1..issued'
    BY <2>1, <2>3 DEF SenderTyped
  <2> QED
    BY <2>1, <2>2, <2>4, <2>5 DEF SenderTyped, S!Steps, Waiting, S!Asking, S!Discovering
<1>11. CASE S!Skip
  BY <1>11 DEF S!Skip, S!task, S!history, SenderTyped, Waiting
<1>12. CASE S!PowerOnFails
  BY <1>12 DEF S!PowerOnFails, S!history, SenderTyped, S!Steps, Waiting, S!Asking, S!Discovering
<1>13. CASE S!PowerCut
  <2>1. /\ step' = "off" /\ state' = S!NoState /\ gw' = NoAddress /\ failures' = 0 /\ attempt' = 0
        /\ UNCHANGED <<saved, issued, confirmed>>
    BY <1>13 DEF S!PowerCut, S!history
  <2>2. IsProper(state', issued)
    BY <2>1, ProperStates DEF SenderTyped
  <2>3. failures' \in 0..(RefreshAfter - 1) /\ attempt' \in 0..MaxAttempts
    BY <2>1, LinkAssumption
  <2> QED
    BY <2>1, <2>2, <2>3 DEF SenderTyped, S!Steps, Waiting, S!Asking, S!Discovering, AddressOrNone
<1> QED
  BY <1>1, <1>2, <1>3, <1>4, <1>5, <1>6, <1>7, <1>8, <1>9, <1>10, <1>11, <1>12, <1>13
     DEF S!Next, S!Waited, S!Answered
-----------------------------------------------------------------------------
(* Every step keeps the types *)

\* A datagram under way is one that the gateway can count.
LEMMA PostsAreTyped ==
  ASSUME LinkInv, SenderTyped, NEW d \in Sent
  PROVE  GP!Typed(d)
<1>1. issued \in 0..MaxIssued /\ MaxIssued \in Nat
  BY LinkAssumption DEF SenderTyped
<1>2. d.kind = "data" => d.nonce \in 1..MaxIssued
  BY <1>1 DEF LinkInv, MessageInv
<1>3. 1..MaxIssued \subseteq GP!Nonces
  <2> SUFFICES ASSUME NEW n \in 1..MaxIssued PROVE n \in GP!Nonces
    OBVIOUS
  <2> DEFINE post == [kind |-> "data", sequence |-> n, nonce |-> n]
  <2>1. post \in Datagrams /\ post.kind = "data" /\ post.nonce = n
    BY LinkAssumption
  <2> QED
    BY <2>1 DEF GP!Nonces
<1>4. IsGet(d) \/ IsPost(d)
  BY DEF LinkInv, ChannelInv, Sent, IsPacket
<1> QED
  BY <1>2, <1>3, <1>4 DEF GP!Typed, IsGet, IsPost

LEMMA LinkTypesInit == Init => LinkTyped
<1> SUFFICES ASSUME Init PROVE LinkTyped
  OBVIOUS
<1>1. /\ step = "off" /\ state = S!NoState /\ saved = S!NoState /\ gw = NoAddress /\ failures = 0
      /\ attempt = 0 /\ issued = 0 /\ confirmed = {} /\ address \in Addresses /\ moves = 0 /\ taken = {}
  BY DEF Init, S!Init
<1>2. /\ MaxIssued \in Nat /\ MaxMoves \in Nat /\ MaxAttempts \in Nat \ {0} /\ RefreshAfter \in Nat \ {0}
  BY LinkAssumption
<1>3. 0 \in 0..MaxIssued /\ 0 \in 0..MaxMoves /\ 0 \in 0..MaxAttempts /\ 0 \in 0..(RefreshAfter - 1)
  BY <1>2
<1>4. SenderTyped
  BY <1>1, <1>3, ProperStates DEF SenderTyped, S!Steps, Waiting, S!Asking, S!Discovering, AddressOrNone
<1>5. GP!TypeOK
  BY SameInit, SameConstants, GP!TypeInit DEF Init
<1> QED
  BY <1>1, <1>3, <1>4, <1>5 DEF LinkTyped

LEMMA LinkTypesStep == LinkInv /\ LinkTyped /\ [Next]_vars => LinkTyped'
<1> SUFFICES ASSUME LinkInv, LinkTyped, [Next]_vars PROVE LinkTyped'
  OBVIOUS
<1>1. ASSUME UNCHANGED sender PROVE SenderTyped'
  BY <1>1 DEF LinkTyped, SenderTyped, sender, Waiting
<1>2. ASSUME UNCHANGED <<mode, store, flash, cache, cache_next, guards, keys_made, accepted, uses, forgotten>>,
             now' \in GP!Time
      PROVE  GP!TypeOK'
  BY <1>2 DEF LinkTyped, GP!TypeOK
<1>3. now \in GP!Time
  BY DEF LinkTyped, GP!TypeOK
<1>4. CASE SenderStep
  <2>1. /\ S!Next /\ TimePasses
        /\ UNCHANGED <<mode, store, flash, cache, cache_next, guards, keys_made,
                       accepted, uses, forgotten, moves, taken>>
    BY <1>4 DEF SenderStep
  <2>2. SenderTyped' /\ issued <= issued'
    BY <2>1, SenderTypes
  <2>3. now' \in GP!Time
    <3>1. Modulus \in Nat \ {0}
      BY SameConstants DEF GP!GuardAssumption
    <3> QED
      BY <1>3, <2>1, <3>1 DEF TimePasses, GP!Time
  <2>4. GP!TypeOK'
    BY <1>2, <2>1, <2>3
  <2>5. address' = address
    BY <2>1 DEF S!Next, S!Waited, S!Answered, S!PowerOn, S!DiscoveryTimesOut, S!StartCycle, S!Resend,
           S!OutOfAttempts, S!Discovered, S!PkAnswered, S!MetaRejected, S!MetaAccepted, S!DataConfirmed,
           S!DataRejected, S!Skip, S!PowerOnFails, S!PowerCut, S!Receives
  <2>6. taken' \subseteq 1..issued'
    BY <2>1, <2>2 DEF LinkTyped, SenderTyped
  <2> QED
    BY <2>1, <2>2, <2>4, <2>5, <2>6 DEF LinkTyped
<1>5. CASE Deliver
  <2>1. PICK i \in DOMAIN outbox :
           /\ G!Receive(SenderAddress, outbox[i].datagram)
           /\ taken' = IF accepted' = accepted THEN taken ELSE taken \cup {outbox[i].datagram.nonce}
           /\ UNCHANGED <<sender, link>>
    BY <1>5 DEF Deliver, DeliverTo
  <2> DEFINE d == outbox[i].datagram
  <2>2. d \in Sent
    BY DEF Sent, Packets
  <2> HIDE DEF d
  <2>3. GP!Typed(d) /\ GP!Receive(SenderAddress, d) /\ SenderAddress \in Peers
    BY <2>1, <2>2, PostsAreTyped, SameReceive, LinkAssumption DEF LinkTyped, d
  <2>4. GP!TypeOK'
    BY <2>3, SameConstants, GP!TypeReceive DEF LinkTyped
  <2>5. taken' \subseteq 1..issued
    <3>1. Declines \/ Takes(d)
      BY <2>1, <2>2, ReceiveEffect DEF LinkInv, ChannelInv, Sent, IsPacket, d
    <3>2. Takes(d) => d.nonce \in 1..issued
      BY <2>2 DEF Takes, LinkInv, MessageInv
    <3> QED
      BY <2>1, <3>1, <3>2 DEF LinkTyped, Declines, d
  <2> QED
    BY <1>1, <2>1, <2>4, <2>5 DEF LinkTyped, sender, link
<1>6. CASE GatewayPower
  <2>1. GP!Power /\ UNCHANGED <<sender, link, taken>>
    BY <1>6, SamePower DEF GatewayPower
  <2>2. GP!TypeOK'
    BY <2>1, SameConstants, GP!TypePower DEF LinkTyped
  <2> QED
    BY <1>1, <2>1, <2>2 DEF LinkTyped, sender, link
<1>7. CASE Move
  <2>1. /\ moves < MaxMoves /\ moves' = moves + 1 /\ address' \in Addresses
        /\ UNCHANGED <<sender, gateway, taken>>
    BY <1>7 DEF Move
  <2>2. GP!TypeOK'
    BY <1>2, <1>3, <2>1 DEF gateway
  <2>3. moves' \in 0..MaxMoves
    BY <2>1, LinkAssumption DEF LinkTyped
  <2> QED
    BY <1>1, <2>1, <2>2, <2>3 DEF LinkTyped, sender
<1>8. CASE LoseDatagram \/ LoseReply \/ UNCHANGED vars
  <2>1. UNCHANGED <<sender, gateway, link, taken>>
    BY <1>8 DEF LoseDatagram, LoseReply, vars
  <2>2. GP!TypeOK'
    BY <1>2, <1>3, <2>1 DEF gateway
  <2> QED
    BY <1>1, <2>1, <2>2 DEF LinkTyped, sender, link
<1> QED
  BY <1>4, <1>5, <1>6, <1>7, <1>8 DEF Next

\* Both boards keep their types over a network that loses and reorders, and
\* with saves that fail: in particular no counter of the sender is ahead of
\* the messages that it has sealed, what it waits for has an id and was sent
\* at most MaxAttempts times, and the gateway takes messages that were sealed.
THEOREM LinkTypes == Spec => []TypeOK
<1>1. Spec => []LinkInv
  BY LinkInit, LinkStep, PTL DEF Spec
<1>2. LinkInv /\ LinkTyped => TypeOK
  <2> SUFFICES ASSUME LinkInv, LinkTyped PROVE TypeOK
    OBVIOUS
  <2>1. G!TypeOK
    BY SameTypes DEF LinkTyped
  <2>2. S!TypeOK
    BY DEF LinkTyped, SenderTyped, LinkInv, ChannelInv, S!TypeOK, IsProper, Waiting, AddressOrNone
  <2> QED
    BY <2>1, <2>2 DEF LinkTyped, TypeOK
<1> QED
  BY <1>1, <1>2, LinkTypesInit, LinkTypesStep, PTL DEF Spec
=============================================================================
