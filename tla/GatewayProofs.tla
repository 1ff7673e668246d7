---------------------------- MODULE GatewayProofs ----------------------------
(***************************************************************************)
(* Proofs about Gateway, for every number of sources, keypairs, cache      *)
(* slots and messages and every set of datagrams.                          *)
(***************************************************************************)
EXTENDS Gateway, SequenceTheorems, TLAPS

(***************************************************************************)
(* The guard functions return guards.                                      *)
(***************************************************************************)
LEMMA EmptySlotType == EmptySlot \in Guard
<1>1. 0 \in Time
  BY GuardAssumption DEF Time
<1> QED
  BY <1>1 DEF EmptySlot, Guard, NoRequests

LEMMA GuardGetType ==
  ASSUME NEW gs \in [Peers -> Guard], NEW p \in Peers, NEW t \in Time
  PROVE  GuardGet(gs, p, t) \in Guard
BY EmptySlotType DEF GuardGet, Guard

LEMMA CountRequestType ==
  ASSUME NEW g \in Guard, NEW k \in Kinds, NEW t \in Time
  PROVE  CountRequest(g, k, t) \in Guard
<1> DEFINE r == RollWindow(g, k, t)
<1>1. r \in Guard
  BY DEF RollWindow, Guard, NoRequests
<1>2. [r EXCEPT !.requests[k] = @ + 1] \in Guard
  BY <1>1 DEF Guard
<1> QED
  BY <1>1, <1>2 DEF CountRequest

LEMMA RecordFailureType ==
  ASSUME NEW g \in Guard, NEW t \in Time
  PROVE  RecordFailure(g, t) \in Guard
<1>1. (t + BlockMs) % Modulus \in Time
  BY GuardAssumption DEF Time
<1>2. [g EXCEPT !.auth_failures = 0,
                !.blocked_until = (t + BlockMs) % Modulus] \in Guard
  BY <1>1 DEF Guard
<1>3. [g EXCEPT !.auth_failures = @ + 1] \in Guard
  BY DEF Guard
<1> QED
  BY <1>2, <1>3 DEF RecordFailure

LEMMA RecordSuccessType ==
  ASSUME NEW g \in Guard
  PROVE  RecordSuccess(g) \in Guard
BY DEF RecordSuccess, Guard

(***************************************************************************)
(* Bringing the key's status up to date changes nothing else, and leaves   *)
(* the key usable only below its maximum.                                  *)
(***************************************************************************)
LEMMA MetaUpdateEffect ==
  ASSUME NEW s \in Store
  PROVE  /\ MetaUpdate(s) \in Store
         /\ MetaUpdate(s).key = s.key
         /\ MetaUpdate(s).message_count = s.message_count
         /\ MetaUpdate(s).last_sender_counter = s.last_sender_counter
         /\ ~NeedsRotation(MetaUpdate(s)) =>
                MaxMessages = 0 \/ s.message_count < MaxMessages
<1> DEFINE revoked == [s EXCEPT !.rotation_required = TRUE]
           spent == [s EXCEPT !.status = "ROTATION_REQUIRED", !.rotation_required = TRUE]
           active == [s EXCEPT !.status = "ACTIVE", !.rotation_required = FALSE]
           same(r) == /\ r \in Store
                      /\ r.key = s.key
                      /\ r.message_count = s.message_count
                      /\ r.last_sender_counter = s.last_sender_counter
<1>1. same(revoked)
  BY DEF Store
<1>2. same(spent)
  BY DEF Store, Statuses
<1>3. same(active)
  BY DEF Store, Statuses
<1>4. revoked.rotation_required /\ spent.rotation_required
  BY DEF Store
<1>5. MetaUpdate(s) \in {revoked, spent, active}
  BY DEF MetaUpdate
<1>6. ~(MaxMessages = 0 \/ s.message_count < MaxMessages) =>
        MetaUpdate(s) \in {revoked, spent}
  BY GatewayAssumption DEF MetaUpdate, Store
<1> QED
  BY <1>1, <1>2, <1>3, <1>4, <1>5, <1>6 DEF NeedsRotation

LEMMA BootStoreEffect ==
  ASSUME NEW s \in Store
  PROVE  /\ BootStore(s) \in Store
         /\ BootStore(s).key = s.key
         /\ BootStore(s).message_count = s.message_count
<1> DEFINE m == MetaUpdate(s)
<1>1. m \in Store /\ m.key = s.key /\ m.message_count = s.message_count
  BY MetaUpdateEffect
<1> HIDE DEF m
<1>2. /\ [m EXCEPT !.last_sender_counter = 0] \in Store
      /\ [m EXCEPT !.last_sender_counter = 0].key = m.key
      /\ [m EXCEPT !.last_sender_counter = 0].message_count = m.message_count
  BY <1>1 DEF Store
<1> QED
  BY <1>1, <1>2 DEF BootStore, m

LEMMA NewStoreType ==
  ASSUME NEW k \in Keypairs
  PROVE  /\ NewStore(k) \in Store
         /\ NewStore(k).key = k
         /\ NewStore(k).message_count = 0
BY DEF NewStore, Store, Statuses

LEMMA ConsumedEffect ==
  ASSUME NEW s \in Store, NEW d, d.sequence \in Nat
  PROVE  /\ Consumed(s, d) \in Store
         /\ Consumed(s, d).key = s.key
         /\ Consumed(s, d).message_count = s.message_count + 1
         /\ Consumed(s, d).last_sender_counter = d.sequence
<1> DEFINE b == [s EXCEPT !.last_sender_counter = d.sequence]
           c == [s EXCEPT !.last_sender_counter = d.sequence, !.message_count = @ + 1]
<1>0. s.message_count + 1 \in Nat
  BY DEF Store
<1>a. b \in Store /\ b.message_count = s.message_count
  BY <1>0 DEF Store
<1>1. c \in Store
  BY <1>0, <1>a DEF Store
<1>2. /\ c.key = s.key
      /\ c.message_count = s.message_count + 1
      /\ c.last_sender_counter = d.sequence
  BY DEF Store
<1> QED
  BY <1>1, <1>2, MetaUpdateEffect DEF Consumed

(***************************************************************************)
(* The store is a real one unless it is missing.                           *)
(***************************************************************************)
LEMMA NoStoreIsNone == NoStore \notin Store
BY DEF NoStore, Store, Keypairs

(***************************************************************************)
(* Every outcome of the loop but an accepted message leaves the replay     *)
(* state, the flash and the history alone, and at most brings the status   *)
(* of the key up to date.                                                  *)
(***************************************************************************)
Quiet ==
    /\ mode = "listening"
    /\ store' \in {store, MetaUpdate(store)}
    /\ guards' \in [Peers -> Guard]
    /\ UNCHANGED <<Accepts, Rest>>

LEMMA ReceiveEffect ==
  ASSUME TypeOK, NEW p \in Peers, NEW d, Receive(p, d)
  PROVE  Quiet \/ PostAccepted(p, d)
<1> DEFINE g == GuardOf(p)
           c == Counted(p, d)
<1>1. g \in Guard /\ RecordFailure(g, now) \in Guard
  BY GuardGetType, RecordFailureType DEF TypeOK, GuardOf
<1>2. d.kind \in Kinds => c \in Guard /\ RecordFailure(c, now) \in Guard
  BY <1>1, CountRequestType, RecordFailureType DEF TypeOK, Counted
<1>3. ASSUME NEW x \in Guard, SetGuard(p, x) PROVE guards' \in [Peers -> Guard]
  BY <1>3 DEF SetGuard, TypeOK
<1>4. CASE Malformed(p, d)
  BY <1>1, <1>3, <1>4 DEF Malformed, Quiet
<1>5. CASE Refused(p, d)
  BY <1>1, <1>3, <1>5 DEF Refused, Quiet
<1>6. CASE BadHeader(p, d)
  BY <1>1, <1>3, <1>6 DEF BadHeader, Quiet
<1>7. CASE NotFound(p, d)
  BY <1>1, <1>3, <1>7 DEF NotFound, Dispatched, Quiet
<1>8. CASE Throttled(p, d)
  BY <1>2, <1>3, <1>8 DEF Throttled, Dispatched, Quiet
<1>9. CASE ServeMeta(p, d)
  BY <1>2, <1>3, <1>9, GatewayAssumption DEF ServeMeta, Admitted, Dispatched, Quiet
<1>10. CASE ServePk(p, d)
  BY <1>2, <1>3, <1>10, GatewayAssumption DEF ServePk, Admitted, Dispatched, Quiet
<1>11. CASE PostToSpentKey(p, d)
  BY <1>2, <1>3, <1>11, GatewayAssumption DEF PostToSpentKey, Admitted, Dispatched, Quiet
<1>12. CASE PostRejected(p, d)
  BY <1>2, <1>3, <1>12, GatewayAssumption DEF PostRejected, Admitted, Dispatched, Quiet
<1> QED
  BY <1>4, <1>5, <1>6, <1>7, <1>8, <1>9, <1>10, <1>11, <1>12 DEF Receive

(***************************************************************************)
(* Power steps, by what they do to the store.                              *)
(***************************************************************************)
LEMMA BootFromFlashEffect ==
  ASSUME TypeOK, BootFromFlash
  PROVE  /\ flash \in Store
         /\ store' \in Store /\ flash' \in Store
         /\ store'.key = flash.key /\ store'.message_count = flash.message_count
         /\ flash'.key = flash.key /\ flash'.message_count = flash.message_count
<1>1. flash \in Store
  BY DEF TypeOK, BootFromFlash
<1> QED
  BY <1>1, BootStoreEffect DEF BootFromFlash, MaySave

LEMMA BootWithNewKeyEffect ==
  ASSUME TypeOK, BootWithNewKey
  PROVE  /\ keys_made + 1 \in Keypairs
         /\ store' \in Store /\ flash' = store'
         /\ store'.key = keys_made + 1 /\ store'.message_count = 0
<1>1. keys_made + 1 \in Keypairs
  BY GatewayAssumption DEF TypeOK, BootWithNewKey, Keypairs
<1> QED
  BY <1>1, NewStoreType, BootStoreEffect DEF BootWithNewKey

LEMMA BootFailsEffect ==
  ASSUME TypeOK, BootFails
  PROVE  \/ /\ flash \in Store /\ flash' \in Store
            /\ flash'.key = flash.key /\ flash'.message_count = flash.message_count
            /\ UNCHANGED keys_made
         \/ /\ keys_made + 1 \in Keypairs /\ keys_made' = keys_made + 1
            /\ flash = NoStore /\ flash' \in Store
            /\ flash'.key = keys_made + 1 /\ flash'.message_count = 0
         \/ UNCHANGED <<flash, keys_made>>
<1>1. CASE flash # NoStore /\ MaySave(BootStore(flash)) /\ UNCHANGED keys_made
  <2>1. flash \in Store
    BY <1>1 DEF TypeOK
  <2> QED
    BY <1>1, <2>1, BootStoreEffect DEF MaySave
<1>2. CASE /\ flash = NoStore /\ keys_made < MaxKeys
           /\ keys_made' = keys_made + 1
           /\ flash' = NewStore(keys_made + 1)
  <2>1. keys_made + 1 \in Keypairs
    BY <1>2, GatewayAssumption DEF TypeOK, Keypairs
  <2> QED
    BY <1>2, <2>1, NewStoreType
<1> QED
  BY <1>1, <1>2 DEF BootFails

(***************************************************************************)
(* Type correctness.                                                       *)
(***************************************************************************)
LEMMA ClearRamType ==
  ASSUME ClearRam
  PROVE  /\ cache' \in [0..(CacheSize - 1) -> Nonces \cup {NoNonce}]
         /\ cache_next' \in 0..(CacheSize - 1)
         /\ guards' \in [Peers -> Guard]
         /\ now' \in Time
         /\ accepted' \in Seq([sequence: Nat, nonce: Nonces])
BY EmptySlotType, GuardAssumption, GatewayAssumption DEF ClearRam, Time

LEMMA TypeInit == Init => TypeOK
<1> SUFFICES ASSUME Init PROVE TypeOK
  OBVIOUS
<1>1. guards \in [Peers -> Guard]
  BY EmptySlotType DEF Init
<1> QED
  BY <1>1, GuardAssumption, GatewayAssumption DEF Init, TypeOK, Time

\* A datagram whose number and nonce are of the types that Datagrams has.
Typed(d) == d.kind = "data" => d.sequence \in Nat /\ d.nonce \in Nonces

LEMMA PostAcceptedType ==
  ASSUME TypeOK, NEW p \in Peers, NEW d, Typed(d), PostAccepted(p, d)
  PROVE  TypeOK'
<1>1. d.kind = "data" /\ mode = "listening" /\ store \in Store /\ flash \in Store
  BY DEF PostAccepted, Admitted, Dispatched, TypeOK
<1>2. d.sequence \in Nat /\ d.nonce \in Nonces
  BY <1>1 DEF Typed
<1>3. store' \in Store /\ flash' \in Store
  BY <1>1, <1>2, MetaUpdateEffect, ConsumedEffect DEF PostAccepted, MaySave
<1>4. guards' \in [Peers -> Guard]
  <2>1. Counted(p, d) \in Guard
    BY <1>1, GatewayAssumption, GuardGetType, CountRequestType
       DEF TypeOK, Counted, GuardOf
  <2>2. RecordSuccess(Counted(p, d)) \in Guard
    BY <2>1, RecordSuccessType
  <2> QED
    BY <2>2 DEF PostAccepted, SetGuard, TypeOK
<1>5. /\ cache' \in [0..(CacheSize - 1) -> Nonces \cup {NoNonce}]
      /\ cache_next' \in 0..(CacheSize - 1)
  BY <1>2, GatewayAssumption DEF PostAccepted, RememberNonce, TypeOK
<1>6. accepted' \in Seq([sequence: Nat, nonce: Nonces])
  BY <1>2 DEF PostAccepted, TypeOK
<1>7. uses' \in [Keypairs -> Nat]
  BY <1>1 DEF PostAccepted, TypeOK, Store
<1> QED
  BY <1>1, <1>3, <1>4, <1>5, <1>6, <1>7
     DEF PostAccepted, Admitted, Dispatched, Rest, TypeOK

LEMMA TypePower == ASSUME TypeOK, Power PROVE TypeOK'
<1>1. CASE BootFromFlash
  BY <1>1, BootFromFlashEffect DEF BootFromFlash, TypeOK, tally
<1>2. CASE BootWithNewKey
  BY <1>2, BootWithNewKeyEffect, GatewayAssumption
     DEF BootWithNewKey, TypeOK, Keypairs
<1>3. CASE BootFails
  BY <1>3, BootFailsEffect, GatewayAssumption DEF BootFails, TypeOK, Keypairs, ram
<1>4. CASE PowerCycle
  <2>1. forgotten' \in [Keypairs -> Nat]
    <3>1. CASE UNCHANGED forgotten
      BY <3>1 DEF TypeOK
    <3>2. CASE /\ Unsaved > 0
               /\ forgotten' = [forgotten EXCEPT ![store.key] = @ + Unsaved]
      <4>1. mode = "listening"
        BY <3>2 DEF Unsaved
      <4>2. store.key \in Keypairs /\ Unsaved \in Nat
        BY <3>2, <4>1 DEF Unsaved, TypeOK, Store
      <4> QED
        BY <3>2, <4>2 DEF TypeOK
    <3> QED
      BY <1>4, <3>1, <3>2 DEF PowerCycle
  <2>2. ClearRam
    BY <1>4 DEF PowerCycle
  <2> QED
    BY <1>4, <2>1, <2>2, ClearRamType DEF PowerCycle, TypeOK
<1>5. CASE FlashLost
  BY <1>5 DEF FlashLost, TypeOK, ram, tally
<1> QED
  BY <1>1, <1>2, <1>3, <1>4, <1>5 DEF Power

LEMMA TypeReceive ==
  ASSUME TypeOK, NEW p \in Peers, NEW d, Typed(d), Receive(p, d)
  PROVE  TypeOK'
<1>1. CASE Quiet
  BY <1>1, MetaUpdateEffect DEF Quiet, Accepts, Rest, TypeOK
<1>2. CASE PostAccepted(p, d)
  BY <1>2, PostAcceptedType
<1> QED
  BY <1>1, <1>2, ReceiveEffect

LEMMA TypeStep == TypeOK /\ [Next]_vars => TypeOK'
<1> SUFFICES ASSUME TypeOK, [Next]_vars PROVE TypeOK'
  OBVIOUS
<1>1. CASE Power
  BY <1>1, TypePower
<1>2. CASE Tick
  <2>1. now' \in Time
    BY <1>2, GatewayAssumption, GuardAssumption DEF Tick, TypeOK, Time
  <2> QED
    BY <1>2, <2>1 DEF Tick, TypeOK, tally
<1>3. ASSUME NEW p \in Peers, NEW d \in Datagrams, Receive(p, d)
      PROVE  TypeOK'
  <2>1. Typed(d)
    BY GatewayAssumption DEF Typed, Nonces
  <2> QED
    BY <1>3, <2>1, TypeReceive
<1>4. CASE UNCHANGED vars
  BY <1>4 DEF vars, ram, tally, TypeOK
<1> QED
  BY <1>1, <1>2, <1>3, <1>4 DEF Next

\* Every variable keeps its type: in particular a listening gateway has a
\* complete store in RAM and in flash, and the cursor of the nonce ring and
\* the clock of the guards stay in range.
THEOREM GatewayTypes == Spec => []TypeOK
BY TypeInit, TypeStep, PTL DEF Spec

(***************************************************************************)
(* Replay protection.                                                      *)
(***************************************************************************)

\* The j-th slot behind the cursor of the ring.
Behind(j) == IF j <= cache_next THEN cache_next - j ELSE cache_next - j + CacheSize

\* What makes AtMostOncePerBoot and NonceWindow inductive: the last counter
\* bounds every accepted sequence number, and the ring, read backwards from
\* its cursor, is the end of the accepted messages.
ReplayInv ==
    /\ mode # "listening" => accepted = <<>>
    /\ \A i \in DOMAIN accepted : accepted[i].sequence <= store.last_sender_counter
    /\ \A j \in 1..CacheSize :
        j <= Len(accepted) => cache[Behind(j)] = accepted[Len(accepted) + 1 - j].nonce
    /\ AtMostOncePerBoot
    /\ NonceWindow

LEMMA ReplayInit == Init => ReplayInv
BY DEF Init, ReplayInv, AtMostOncePerBoot, NonceWindow

\* The cursor walks round the ring.
LEMMA NextSlot ==
  ASSUME NEW c \in 0..(CacheSize - 1)
  PROVE  (c + 1) % CacheSize = IF c + 1 = CacheSize THEN 0 ELSE c + 1
BY GatewayAssumption

LEMMA ReplayFresh ==
  ASSUME accepted' = <<>>
  PROVE  ReplayInv'
BY DEF ReplayInv, AtMostOncePerBoot, NonceWindow

LEMMA ReplayKept ==
  ASSUME ReplayInv, mode' = mode, UNCHANGED <<accepted, cache, cache_next>>,
         store'.last_sender_counter = store.last_sender_counter
  PROVE  ReplayInv'
BY DEF ReplayInv, AtMostOncePerBoot, NonceWindow, Behind

LEMMA PostAcceptedReplay ==
  ASSUME TypeOK, TypeOK', ReplayInv,
         NEW p \in Peers, NEW d \in Datagrams, PostAccepted(p, d)
  PROVE  ReplayInv'
<1> DEFINE n == Len(accepted)
           m == [sequence |-> d.sequence, nonce |-> d.nonce]
<1>1. d.kind = "data" /\ mode = "listening" /\ mode' = mode /\ store \in Store
  BY DEF PostAccepted, Admitted, Dispatched, Rest, TypeOK
<1>2. d.sequence \in Nat /\ d.nonce # NoNonce
  BY <1>1, GatewayAssumption
<1>3. n \in Nat /\ accepted \in Seq([sequence: Nat, nonce: Nonces])
  BY DEF TypeOK
<1>4. accepted' = Append(accepted, m)
  BY DEF PostAccepted
<1>5. /\ Len(accepted') = n + 1
      /\ DOMAIN accepted' = 1..(n + 1)
      /\ DOMAIN accepted = 1..n
      /\ accepted'[n + 1] = m
      /\ \A i \in 1..n : accepted'[i] = accepted[i]
  BY <1>3, <1>4
<1>6. d.sequence > store.last_sender_counter
  <2>1. ~Fails(d, CheckOrder[7]) /\ CheckOrder[7] = "REPLAY_SEQ"
    BY DEF PostAccepted, CheckOrder
  <2> QED
    BY <1>1, <1>2, <2>1 DEF Fails, Store
<1>7. \A i \in 0..(CacheSize - 1) : cache[i] # d.nonce
  <2>1. ~Fails(d, CheckOrder[8]) /\ CheckOrder[8] = "REPLAY_NONCE"
    BY DEF PostAccepted, CheckOrder
  <2> QED
    BY <2>1 DEF Fails, NonceSeen
<1>8. store'.last_sender_counter = d.sequence
  BY <1>1, <1>2, MetaUpdateEffect, ConsumedEffect DEF PostAccepted
<1>9. \A i \in 1..n : /\ accepted[i].sequence \in Nat
                      /\ accepted[i].sequence <= store.last_sender_counter
  <2> TAKE i \in 1..n
  <2>1. accepted[i] \in [sequence: Nat, nonce: Nonces]
    BY <1>3, ElementOfSeq
  <2>2. accepted[i].sequence \in Nat
    BY <2>1
  <2> QED
    BY <1>5, <2>2 DEF ReplayInv
<1>10. /\ cache_next \in 0..(CacheSize - 1) /\ CacheSize \in Nat \ {0}
       /\ cache \in [0..(CacheSize - 1) -> Nonces \cup {NoNonce}]
       /\ cache' = [cache EXCEPT ![cache_next] = d.nonce]
       /\ cache_next' = IF cache_next + 1 = CacheSize THEN 0 ELSE cache_next + 1
  BY NextSlot, GatewayAssumption DEF PostAccepted, RememberNonce, TypeOK
<1>11. \A i \in 1..(n + 1) : accepted'[i].sequence <= store'.last_sender_counter
  BY <1>1, <1>2, <1>5, <1>6, <1>8, <1>9, <1>3 DEF Store
<1>12. AtMostOncePerBoot'
  BY <1>1, <1>2, <1>3, <1>5, <1>6, <1>9 DEF ReplayInv, AtMostOncePerBoot, Store
<1>13. \A j \in 1..CacheSize : j <= n => cache[Behind(j)] = accepted[n + 1 - j].nonce
  BY DEF ReplayInv
<1>14. \A j \in 1..CacheSize : Behind(j) \in 0..(CacheSize - 1)
  BY <1>10 DEF Behind
<1>15. \A j \in 1..CacheSize :
          j <= n + 1 => cache'[Behind(j)'] = accepted'[n + 2 - j].nonce
  <2> SUFFICES ASSUME NEW j \in 1..CacheSize, j <= n + 1
               PROVE  cache'[Behind(j)'] = accepted'[n + 2 - j].nonce
    OBVIOUS
  <2>1. CASE j = 1
    <3>1. Behind(j)' = cache_next
      BY <1>10, <2>1 DEF Behind
    <3> QED
      BY <1>3, <1>5, <1>10, <2>1, <3>1
  <2>2. CASE j # 1
    <3>1. j - 1 \in 1..CacheSize /\ j - 1 <= n
      BY <1>3, <1>10, <2>2
    <3>2. Behind(j)' = Behind(j - 1) /\ Behind(j - 1) # cache_next
      BY <1>10, <2>2 DEF Behind
    <3>3. cache'[Behind(j - 1)] = cache[Behind(j - 1)]
      BY <1>10, <1>14, <3>1, <3>2
    <3>4. n + 2 - j \in 1..n /\ n + 1 - (j - 1) = n + 2 - j
      BY <1>3, <1>10, <2>2
    <3> QED
      BY <1>5, <1>13, <3>1, <3>2, <3>3, <3>4
  <2> QED
    BY <2>1, <2>2
<1>16. NonceWindow'
  <2> SUFFICES ASSUME NEW i \in 1..(n + 1), NEW j \in 1..(n + 1), i < j, j - i <= CacheSize
               PROVE  accepted'[i].nonce # accepted'[j].nonce
    BY <1>5 DEF NonceWindow
  <2>1. CASE j <= n
    <3>1. i \in DOMAIN accepted /\ j \in DOMAIN accepted
      BY <1>3, <1>5, <2>1
    <3>2. accepted[i].nonce # accepted[j].nonce
      BY <3>1 DEF ReplayInv, NonceWindow
    <3> QED
      BY <1>5, <3>1, <3>2
  <2>2. CASE j = n + 1
    <3>1. n + 1 - i \in 1..CacheSize /\ n + 1 - i <= n /\ n + 1 - (n + 1 - i) = i /\ i \in 1..n
      BY <1>3, <1>10, <2>2
    <3>2. cache[Behind(n + 1 - i)] = accepted[i].nonce
      BY <1>13, <3>1
    <3> QED
      BY <1>5, <1>7, <1>14, <2>2, <3>1, <3>2
  <2> QED
    BY <1>3, <2>1, <2>2
<1> QED
  BY <1>1, <1>5, <1>11, <1>12, <1>15, <1>16, <1>3 DEF ReplayInv

LEMMA ReplayStep == TypeOK /\ TypeOK' /\ ReplayInv /\ [Next]_vars => ReplayInv'
<1> SUFFICES ASSUME TypeOK, TypeOK', ReplayInv, [Next]_vars PROVE ReplayInv'
  OBVIOUS
<1>1. CASE BootFromFlash \/ BootWithNewKey \/ BootFails
  <2>1. accepted' = <<>>
    BY <1>1 DEF BootFromFlash, BootWithNewKey, BootFails, ram, ReplayInv
  <2> QED
    BY <2>1, ReplayFresh
<1>2. CASE PowerCycle
  BY <1>2, ReplayFresh DEF PowerCycle, ClearRam
<1>3. CASE FlashLost
  BY <1>3, ReplayKept DEF FlashLost, ram
<1>4. CASE Tick
  BY <1>4, ReplayKept DEF Tick
<1>5. ASSUME NEW p \in Peers, NEW d \in Datagrams, Receive(p, d)
      PROVE  ReplayInv'
  <2>1. CASE Quiet
    <3>1. store \in Store
      BY <2>1 DEF Quiet, TypeOK
    <3> QED
      BY <2>1, <3>1, MetaUpdateEffect, ReplayKept DEF Quiet, Accepts, Rest
  <2>2. CASE PostAccepted(p, d)
    BY <2>2, PostAcceptedReplay
  <2> QED
    BY <1>5, <2>1, <2>2, ReceiveEffect
<1>6. CASE UNCHANGED vars
  BY <1>6, ReplayKept DEF vars, ram
<1> QED
  BY <1>1, <1>2, <1>3, <1>4, <1>5, <1>6 DEF Next, Power

LEMMA ReplayInvariant == Spec => []ReplayInv
BY TypeInit, TypeStep, ReplayInit, ReplayStep, PTL DEF Spec

\* No message is accepted twice between two boots, whatever its source, its
\* nonce and the datagrams refused in between.
THEOREM AtMostOnce == Spec => []AtMostOncePerBoot
BY ReplayInvariant, PTL DEF ReplayInv

\* No nonce is accepted twice among CacheSize + 1 accepted messages in a row.
THEOREM NoncesFresh == Spec => []NonceWindow
BY ReplayInvariant, PTL DEF ReplayInv

(***************************************************************************)
(* The account of the keypairs.                                            *)
(***************************************************************************)

\* What makes KeyAccount and KeyBudget inductive: the flash trails the RAM
\* copy of the same keypair, no count is above the maximum, and a keypair
\* that does not exist yet has no history.
AccountInv ==
    /\ mode = "listening" =>
        /\ flash.key = store.key
        /\ flash.message_count <= store.message_count
        /\ MaxMessages # 0 => store.message_count <= MaxMessages
    /\ flash # NoStore =>
        /\ flash.key <= keys_made
        /\ MaxMessages # 0 => flash.message_count <= MaxMessages
    /\ \A k \in Keypairs : k > keys_made => uses[k] = 0 /\ forgotten[k] = 0
    /\ KeyAccount
    /\ KeyBudget

LEMMA AccountInit == Init => AccountInv
<1> SUFFICES ASSUME Init PROVE AccountInv
  OBVIOUS
<1>1. \A k \in Keypairs : uses[k] = 0 /\ forgotten[k] = 0
  BY DEF Init
<1> QED
  BY <1>1, GatewayAssumption DEF Init, AccountInv, KeyAccount, KeyBudget

LEMMA AccountKept ==
  ASSUME TypeOK, AccountInv, mode' = mode,
         UNCHANGED <<flash, keys_made, uses, forgotten>>,
         store'.key = store.key, store'.message_count = store.message_count
  PROVE  AccountInv'
BY DEF AccountInv, KeyAccount, KeyBudget

LEMMA PostAcceptedAccount ==
  ASSUME TypeOK, AccountInv,
         NEW p \in Peers, NEW d \in Datagrams, PostAccepted(p, d)
  PROVE  AccountInv'
<1>1. /\ d.kind = "data" /\ mode = "listening" /\ mode' = "listening"
      /\ UNCHANGED <<keys_made, forgotten>>
      /\ store \in Store /\ flash \in Store
  BY DEF PostAccepted, Admitted, Dispatched, Rest, TypeOK
<1>2. /\ store'.key = store.key
      /\ store'.message_count = store.message_count + 1
      /\ flash' \in {flash, store'}
      /\ MaxMessages # 0 => store.message_count < MaxMessages
  <2>1. d.sequence \in Nat
    BY <1>1, GatewayAssumption
  <2> QED
    BY <1>1, <2>1, MetaUpdateEffect, ConsumedEffect DEF PostAccepted, MaySave
<1>3. /\ store.key \in Keypairs /\ store.message_count \in Nat
      /\ flash.message_count \in Nat /\ flash # NoStore
      /\ store.key <= keys_made /\ keys_made \in Nat
  BY <1>1, NoStoreIsNone, GatewayAssumption DEF Store, TypeOK, AccountInv
<1>4. /\ uses' = [uses EXCEPT ![store.key] = @ + 1]
      /\ uses \in [Keypairs -> Nat] /\ forgotten \in [Keypairs -> Nat]
  BY DEF PostAccepted, TypeOK
<1>5. uses[store.key] = store.message_count + forgotten[store.key]
  BY <1>1 DEF AccountInv, KeyAccount
<1>6. \A k \in Keypairs : k > keys_made => uses'[k] = 0 /\ forgotten'[k] = 0
  BY <1>1, <1>3, <1>4, GatewayAssumption DEF AccountInv, Keypairs
<1>7. KeyAccount'
  BY <1>1, <1>2, <1>3, <1>4, <1>5 DEF KeyAccount
<1>8. KeyBudget'
  <2> SUFFICES ASSUME NEW k \in Keypairs, MaxMessages # 0
               PROVE  uses'[k] <= MaxMessages + forgotten'[k]
    BY DEF KeyBudget
  <2>1. CASE k = store.key
    BY <1>1, <1>2, <1>3, <1>4, <1>5, <2>1, GatewayAssumption
  <2>2. CASE k # store.key
    BY <1>1, <1>4, <2>2 DEF AccountInv, KeyBudget
  <2> QED
    BY <2>1, <2>2
<1>9. /\ flash'.key = store'.key /\ flash'.message_count <= store'.message_count
      /\ MaxMessages # 0 => store'.message_count <= MaxMessages
      /\ flash'.key <= keys_made'
      /\ MaxMessages # 0 => flash'.message_count <= MaxMessages
  BY <1>1, <1>2, <1>3, GatewayAssumption DEF AccountInv
<1> QED
  BY <1>1, <1>6, <1>7, <1>8, <1>9 DEF AccountInv

LEMMA AccountStep == TypeOK /\ TypeOK' /\ AccountInv /\ [Next]_vars => AccountInv'
<1> SUFFICES ASSUME TypeOK, TypeOK', AccountInv, [Next]_vars PROVE AccountInv'
  OBVIOUS
<1>1. CASE BootFromFlash
  <2>1. /\ mode # "listening" /\ mode' = "listening"
        /\ UNCHANGED <<keys_made, uses, forgotten>> /\ flash # NoStore
    BY <1>1 DEF BootFromFlash, tally
  <2> QED
    BY <1>1, <2>1, BootFromFlashEffect DEF AccountInv, KeyAccount, KeyBudget, Store
<1>2. CASE BootWithNewKey
  <2>1. /\ mode' = "listening" /\ keys_made' = keys_made + 1 /\ keys_made \in Nat
        /\ UNCHANGED <<uses, forgotten>>
    BY <1>2 DEF BootWithNewKey, TypeOK
  <2>2. uses[keys_made + 1] = 0 /\ forgotten[keys_made + 1] = 0
    BY <1>2, <2>1, BootWithNewKeyEffect DEF AccountInv
  <2> QED
    BY <1>2, <2>1, <2>2, BootWithNewKeyEffect, GatewayAssumption
       DEF AccountInv, KeyAccount, KeyBudget, Keypairs
<1>3. CASE BootFails
  <2>1. /\ mode # "listening" /\ mode' # "listening" /\ keys_made \in Nat
        /\ UNCHANGED <<uses, forgotten>>
    BY <1>3 DEF BootFails, TypeOK
  <2>2. CASE UNCHANGED <<flash, keys_made>>
    BY <2>1, <2>2 DEF AccountInv, KeyAccount, KeyBudget
  <2>3. CASE /\ flash \in Store /\ flash' \in Store
             /\ flash'.key = flash.key /\ flash'.message_count = flash.message_count
             /\ UNCHANGED keys_made
    BY <2>1, <2>3, NoStoreIsNone DEF AccountInv, KeyAccount, KeyBudget
  <2>4. CASE /\ keys_made + 1 \in Keypairs /\ keys_made' = keys_made + 1
             /\ flash = NoStore /\ flash' \in Store
             /\ flash'.key = keys_made + 1 /\ flash'.message_count = 0
    <3>1. uses[keys_made + 1] = 0 /\ forgotten[keys_made + 1] = 0
      BY <2>1, <2>4 DEF AccountInv
    <3> QED
      BY <2>1, <2>4, <3>1, GatewayAssumption
         DEF AccountInv, KeyAccount, KeyBudget, Keypairs
  <2> QED
    BY <1>3, <2>2, <2>3, <2>4, BootFailsEffect
<1>4. CASE PowerCycle
  <2>1. /\ mode' = "off" /\ mode # "off"
        /\ UNCHANGED <<flash, keys_made, uses>>
        /\ keys_made \in Nat /\ forgotten \in [Keypairs -> Nat] /\ uses \in [Keypairs -> Nat]
    BY <1>4 DEF PowerCycle, TypeOK
  <2>2. CASE Unsaved = 0 /\ UNCHANGED forgotten
    <3>1. flash # NoStore /\ mode = "listening" =>
            uses[flash.key] = flash.message_count + forgotten[flash.key]
      BY <2>1, <2>2 DEF AccountInv, KeyAccount, Unsaved, TypeOK, Store
    <3> QED
      BY <2>1, <2>2, <3>1 DEF AccountInv, KeyAccount, KeyBudget
  <2>3. CASE /\ Unsaved > 0
             /\ forgotten' = [forgotten EXCEPT ![store.key] = @ + Unsaved]
    <3>1. /\ mode = "listening" /\ store \in Store /\ flash \in Store
          /\ Unsaved = store.message_count - flash.message_count
      BY <2>3 DEF Unsaved, TypeOK
    <3>2. /\ store.key \in Keypairs /\ store.message_count \in Nat
          /\ flash.message_count \in Nat /\ flash.key = store.key
          /\ store.key <= keys_made
      BY <3>1, NoStoreIsNone DEF Store, AccountInv
    <3>3. /\ forgotten'[store.key] = forgotten[store.key] + Unsaved
          /\ \A k \in Keypairs : k # store.key => forgotten'[k] = forgotten[k]
          /\ \A k \in Keypairs : forgotten'[k] \in Nat /\ forgotten'[k] >= forgotten[k]
      BY <2>1, <2>3, <3>1, <3>2
    <3>4. KeyAccount'
      BY <2>1, <3>1, <3>2, <3>3 DEF AccountInv, KeyAccount
    <3>5. KeyBudget'
      BY <2>1, <3>3, GatewayAssumption DEF AccountInv, KeyBudget
    <3>6. \A k \in Keypairs : k > keys_made => forgotten'[k] = 0
      BY <2>1, <3>2, <3>3, GatewayAssumption DEF AccountInv, Keypairs
    <3> QED
      BY <2>1, <3>4, <3>5, <3>6 DEF AccountInv
  <2> QED
    BY <1>4, <2>2, <2>3 DEF PowerCycle
<1>5. CASE FlashLost
  BY <1>5 DEF FlashLost, ram, tally, AccountInv, KeyAccount, KeyBudget
<1>6. CASE Tick
  BY <1>6, AccountKept DEF Tick, tally
<1>7. ASSUME NEW p \in Peers, NEW d \in Datagrams, Receive(p, d)
      PROVE  AccountInv'
  <2>1. CASE Quiet
    <3>1. store \in Store
      BY <2>1 DEF Quiet, TypeOK
    <3> QED
      BY <2>1, <3>1, MetaUpdateEffect, AccountKept DEF Quiet, Accepts, Rest
  <2>2. CASE PostAccepted(p, d)
    BY <2>2, PostAcceptedAccount
  <2> QED
    BY <1>7, <2>1, <2>2, ReceiveEffect
<1>8. CASE UNCHANGED vars
  BY <1>8, AccountKept DEF vars, ram, tally
<1> QED
  BY <1>1, <1>2, <1>3, <1>4, <1>5, <1>6, <1>7, <1>8 DEF Next, Power

LEMMA AccountInvariant == Spec => []AccountInv
BY TypeInit, TypeStep, AccountInit, AccountStep, PTL DEF Spec

\* The count of a keypair misses exactly the messages that power cuts
\* dropped between an accepted message and a save that reached the flash.
THEOREM KeyAccounting == Spec => []KeyAccount
BY AccountInvariant, PTL DEF AccountInv

\* No keypair takes more than its maximum, those messages aside.
THEOREM KeyBudgetHolds == Spec => []KeyBudget
BY AccountInvariant, PTL DEF AccountInv

LEMMA SpentStep ==
  TypeOK /\ AccountInv /\ [Next]_vars =>
    ((MaxMessages # 0 /\ flash # NoStore /\ flash.message_count >= MaxMessages)
        => uses' = uses)
<1> SUFFICES ASSUME TypeOK, AccountInv, [Next]_vars, MaxMessages # 0,
                    flash # NoStore, flash.message_count >= MaxMessages
             PROVE  uses' = uses
  OBVIOUS
<1>1. CASE Power
  BY <1>1 DEF Power, BootFromFlash, BootWithNewKey, BootFails, PowerCycle,
              FlashLost, tally
<1>2. CASE Tick
  BY <1>2 DEF Tick, tally
<1>3. ASSUME NEW p \in Peers, NEW d \in Datagrams, Receive(p, d)
      PROVE  uses' = uses
  <2>1. CASE Quiet
    BY <2>1 DEF Quiet, Accepts
  <2>2. CASE PostAccepted(p, d)
    <3>1. mode = "listening" /\ store \in Store /\ flash \in Store
      BY <2>2 DEF PostAccepted, Admitted, Dispatched, TypeOK
    <3>2. store.message_count < MaxMessages
      BY <2>2, <3>1, MetaUpdateEffect DEF PostAccepted
    <3> QED
      BY <3>1, <3>2, GatewayAssumption DEF AccountInv, Store
  <2> QED
    BY <1>3, <2>1, <2>2, ReceiveEffect
<1>4. CASE UNCHANGED vars
  BY <1>4 DEF vars, tally
<1> QED
  BY <1>1, <1>2, <1>3, <1>4 DEF Next

\* Once the exhausted count of a keypair is in flash, no boot, failure or
\* datagram makes the gateway take another message under it.
THEOREM SpentKeys == Spec => SpentKeyStaysSpent
<1>1. TypeOK /\ AccountInv /\ [Next]_vars =>
        [(MaxMessages # 0 /\ flash # NoStore /\ flash.message_count >= MaxMessages)
            => uses' = uses]_vars
  BY SpentStep
<1> QED
  BY <1>1, GatewayTypes, AccountInvariant, PTL DEF Spec, SpentKeyStaysSpent
=============================================================================
