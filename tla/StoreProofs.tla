----------------------------- MODULE StoreProofs -----------------------------
(***************************************************************************)
(* Proofs about GatewayStore, for any number of keypairs and messages: what*)
(* a save that reports success has done, which keypair a listening gateway *)
(* uses, and that the store is the register of KeyRegister.                *)
(***************************************************************************)
EXTENDS GatewayStore, TLAPS

\* Sequence numbers restart at every boot, the count of messages does not.
Ordered(body) == body.last_sender_counter <= body.message_count

TypeInv ==
    /\ TypeOK
    /\ Ordered(store)
    /\ Ordered(flash.body)

\* Where store holds a keypair.
Keyed == pc \in {"reset", "listening", "return"} \cup Saving

\* The checksum of a blob is that of a store with a keypair, so that a body
\* spoilt to nothing is not readable.
KeyInv ==
    /\ Keyed => store.key # 0
    /\ flash.head => flash.crc32.key # 0

\* What a save has written is the store or fails the read-back, unless the write
\* was dropped.
SaveInv ==
    /\ pc \in {"commit", "verify"} =>
          flash = Sealed(store) \/ ~Intact(flash) \/ damaged = "dropped"
    /\ pc \in Saving \cup {"return"} /\ caller = "first" =>
          made > 0 /\ store = [NoBody EXCEPT !.key = made]

\* The keypair in use is the one in flash.
SameKey == HasStore /\ damaged = "no" => Readable(flash) /\ flash.body.key = store.key

StoreInv == TypeInv /\ KeyInv /\ SaveInv /\ SaveTellsTruth /\ SameKey

-----------------------------------------------------------------------------
(* Blobs *)

LEMMA NoBodyType ==
  ASSUME StoreAssumption
  PROVE  NoBody \in Body /\ NoBody.key = 0 /\ Ordered(NoBody)
BY DEF StoreAssumption, NoBody, Body, Ordered

LEMMA SealedBlob ==
  ASSUME StoreAssumption, NEW b \in Body
  PROVE  Sealed(b) \in Blob /\ Sealed(b).body = b /\ Sealed(b).crc32 = b
         /\ Sealed(b).head /\ Readable(Sealed(b))
BY DEF Sealed, Blob, Readable, Intact

\* A fault leaves nothing that can be read of a blob made of a keypair.
LEMMA SpoiltBlob ==
  ASSUME StoreAssumption, NEW b \in Blob, NEW s \in Spoilt(b), b.head => b.crc32.key # 0
  PROVE  /\ s \in Blob
         /\ ~Readable(s)
         /\ b.head => ~Intact(s)
         /\ s.head => s.crc32.key # 0
         /\ Ordered(b.body) => Ordered(s.body)
BY NoBodyType DEF Spoilt, Blob, Readable, Intact, Ordered

LEMMA FirstBlobs ==
  ASSUME StoreAssumption, NEW b \in {NoBlob, Foreign}
  PROVE  b \in Blob /\ ~b.head /\ b.body = NoBody
<1> HIDE DEF NoBody, Body
<1>1. CASE b = NoBlob
  BY <1>1, NoBodyType DEF NoBlob, Blob
<1>2. CASE b = Foreign
  BY <1>2, NoBodyType DEF Foreign, Blob
<1> QED
  BY <1>1, <1>2

-----------------------------------------------------------------------------
(* The invariant *)

LEMMA StoreInit == ASSUME StoreAssumption PROVE Init => StoreInv
<1> SUFFICES ASSUME Init PROVE StoreInv
  OBVIOUS
<1>1. flash \in Blob /\ ~flash.head /\ flash.body = NoBody
  BY FirstBlobs DEF Init
<1>2. TypeOK
  <2>1. pc \in Steps /\ caller \in Callers /\ pc \notin Saving \cup {"return"}
    BY DEF Init, Steps, Callers, Saving
  <2>2. ready \in BOOLEAN /\ said \in BOOLEAN /\ damaged \in {"no", "write", "dropped", "later"}
    BY DEF Init
  <2>3. store \in Body /\ flash \in Blob
    BY <1>1, NoBodyType DEF Init
  <2>4. made \in 0..MaxKeys
    BY DEF Init, StoreAssumption
  <2> QED
    BY <2>1, <2>2, <2>3, <2>4 DEF TypeOK
<1>3. TypeInv
  BY <1>1, <1>2, NoBodyType DEF Init, TypeInv
<1> QED
  BY <1>1, <1>3 DEF Init, StoreInv, KeyInv, SaveInv, SaveTellsTruth, SameKey, HasStore, Keyed, Saving

LEMMA ContinueEffect ==
  ASSUME Continue
  PROVE  /\ pc = "return" /\ caller' = "none" /\ said' = FALSE
         /\ UNCHANGED <<ready, store, flash, made, damaged>>
         /\ \/ pc' = "stopped" /\ caller = "first" /\ ~said
            \/ pc' = "reset" /\ caller = "first" /\ said
            \/ pc' = "listening" /\ caller # "first"
<1>1. CASE caller = "first" /\ said
  <2>1. Proceeds
    BY <1>1 DEF Proceeds
  <2>2. pc' = "reset"
    BY <1>1, <2>1 DEF Continue
  <2> QED
    BY <1>1, <2>2 DEF Continue
<1>2. CASE caller = "first" /\ ~said
  <2>1. ~Proceeds
    BY <1>2 DEF Proceeds
  <2>2. pc' = "stopped"
    BY <2>1 DEF Continue
  <2> QED
    BY <1>2, <2>2 DEF Continue
<1>3. CASE caller # "first"
  <2>1. Proceeds
    BY <1>3 DEF Proceeds
  <2>2. pc' = "listening"
    BY <1>3, <2>1, Zenon DEF Continue
  <2> QED
    BY <1>3, <2>2 DEF Continue
<1> QED
  BY <1>1, <1>2, <1>3

LEMMA StoreStepInv == ASSUME StoreAssumption PROVE StoreInv /\ [Next]_vars => StoreInv'
<1> SUFFICES ASSUME StoreInv, [Next]_vars PROVE StoreInv'
  OBVIOUS
<1> USE DEF StoreInv
<1>1. /\ store \in Body /\ flash \in Blob /\ flash.body \in Body /\ flash.crc32 \in Body
      /\ Ordered(store) /\ Ordered(flash.body)
      /\ made \in 0..MaxKeys /\ MaxKeys \in Nat /\ MaxCount \in Nat
  BY DEF TypeInv, TypeOK, StoreAssumption, Blob
<1>2. NoBody \in Body /\ NoBody.key = 0 /\ Ordered(NoBody)
  BY NoBodyType
<1>3. CASE PowerOn
  BY <1>2, <1>3
     DEF PowerOn, TypeInv, TypeOK, KeyInv, SaveInv, SaveTellsTruth, SameKey, HasStore,
         Keyed, Saving, Steps
<1>4. CASE Load
  <2>1. store' = flash.body /\ flash.body.key # 0
    BY <1>4 DEF Load, Readable, Intact, KeyInv
  <2> QED
    BY <1>1, <1>4, <2>1
       DEF Load, TypeInv, TypeOK, KeyInv, SaveInv, SaveTellsTruth, SameKey, HasStore,
           Keyed, Saving, Steps
<1>5. CASE LoadFails
  BY <1>5
     DEF LoadFails, TypeInv, TypeOK, KeyInv, SaveInv, SaveTellsTruth, SameKey, HasStore,
         Keyed, Saving, Steps
<1>6. CASE Generate
  <2>1. /\ store' = [NoBody EXCEPT !.key = made'] /\ made' = made + 1 /\ made' \in 1..MaxKeys
        /\ pc' = "open" /\ caller' = "first"
        /\ UNCHANGED <<ready, flash, said, damaged>>
    BY <1>1, <1>6 DEF Generate, Save
  <2>2. store' \in Body /\ store'.key = made' /\ Ordered(store)'
    BY <1>1, <1>2, <2>1 DEF Body, NoBody, Ordered
  <2> QED
    BY <1>1, <2>1, <2>2
       DEF TypeInv, TypeOK, KeyInv, SaveInv, SaveTellsTruth, SameKey, HasStore,
           Keyed, Saving, Steps, Callers
<1>7. CASE GenerateFails
  BY <1>7
     DEF GenerateFails, TypeInv, TypeOK, KeyInv, SaveInv, SaveTellsTruth, SameKey, HasStore,
         Keyed, Saving, Steps
<1>8. CASE Reset \/ Accept
  <2>1. /\ store' \in Body /\ store'.key = store.key /\ Ordered(store)'
        /\ pc \in {"reset", "listening"} /\ pc' = "open" /\ caller' \in {"boot", "message"}
        /\ UNCHANGED <<ready, flash, said, made, damaged>>
    <3>1. CASE Reset
      BY <1>1, <3>1 DEF Reset, Save, Body, Ordered
    <3>2. CASE Accept
      <4>1. /\ store.message_count \in Nat /\ store.last_sender_counter \in Nat
            /\ store.message_count < MaxCount
            /\ store.last_sender_counter <= store.message_count
        BY <1>1, <3>2 DEF Accept, Body, Ordered
      <4>2. store' = [store EXCEPT !.message_count = store.message_count + 1,
                                   !.last_sender_counter = store.last_sender_counter + 1]
        BY <3>2 DEF Accept, Save
      <4>3. store' = [key |-> store.key, message_count |-> store.message_count + 1,
                      last_sender_counter |-> store.last_sender_counter + 1]
        BY <1>1, <4>2 DEF Body
      <4>4. store.message_count + 1 \in 0..MaxCount /\ store.last_sender_counter + 1 \in 0..MaxCount
            /\ store.last_sender_counter + 1 <= store.message_count + 1
            /\ store.key \in 0..MaxKeys
        BY <1>1, <4>1 DEF Body
      <4>5. store' \in Body /\ store'.key = store.key /\ Ordered(store)'
        BY <4>3, <4>4 DEF Body, Ordered
      <4> QED
        BY <3>2, <4>5 DEF Accept, Save
    <3> QED
      BY <1>8, <3>1, <3>2
  <2> QED
    BY <1>1, <2>1
       DEF TypeInv, TypeOK, KeyInv, SaveInv, SaveTellsTruth, SameKey, HasStore,
           Keyed, Saving, Steps, Callers
<1>9. CASE Open
  BY <1>9
     DEF Open, Return, TypeInv, TypeOK, KeyInv, SaveInv, SaveTellsTruth, SameKey, HasStore,
         Keyed, Saving, Steps
<1>10. CASE Set
  <2>1. /\ Sealed(store) \in Blob /\ Sealed(store).body = store /\ Sealed(store).crc32 = store
        /\ Sealed(store).head /\ Readable(Sealed(store))
    BY <1>1, SealedBlob
  <2>2. pc = "set" /\ store.key # 0 /\ UNCHANGED <<caller, ready, store, made>>
    BY <1>10 DEF Set, KeyInv, Keyed, Saving
  <2>3. flash.head => flash.crc32.key # 0
    BY DEF KeyInv
  <2>4. /\ pc' \in {"commit", "return"} /\ said' \in BOOLEAN
        /\ pc' = "return" => ~said'
        /\ \/ flash' = Sealed(store) /\ damaged' = "no"
           \/ flash' \in Spoilt(Sealed(store)) \cup Spoilt(flash) /\ damaged' = "write"
           \/ flash' = flash /\ damaged' = "dropped" /\ pc' = "commit"
           \/ flash' = flash /\ damaged' = damaged /\ pc' = "return"
        /\ \/ pc' = "return" \/ flash' = Sealed(store)
           \/ flash' \in Spoilt(Sealed(store)) \/ damaged' = "dropped"
    BY <1>10 DEF Set, Return, TypeInv, TypeOK
  <2>5. /\ flash' \in Blob /\ Ordered(flash.body)' /\ (flash'.head => flash'.crc32.key # 0)
        /\ flash' = Sealed(store) \/ pc' = "return" \/ ~Intact(flash') \/ damaged' = "dropped"
    BY <1>1, <2>1, <2>2, <2>3, <2>4, SpoiltBlob
  <2>6. TypeInv' /\ KeyInv'
    BY <1>1, <2>2, <2>4, <2>5 DEF TypeInv, TypeOK, KeyInv, Keyed, Saving, Steps
  <2>7. SaveInv' /\ SaveTellsTruth'
    BY <2>2, <2>4, <2>5 DEF SaveInv, SaveTellsTruth, Saving
  <2>8. SameKey'
    <3>1. ASSUME HasStore', damaged' = "no" PROVE HasStore
      BY <2>2, <2>4, <3>1 DEF HasStore, Saving
    <3> QED
      BY <2>1, <2>2, <2>4, <3>1 DEF SameKey
  <2> QED
    BY <2>6, <2>7, <2>8
<1>11. CASE Commit
  BY <1>11
     DEF Commit, Return, TypeInv, TypeOK, KeyInv, SaveInv, SaveTellsTruth, SameKey, HasStore,
         Keyed, Saving, Steps
<1>12. CASE Verify
  <2>1. /\ pc = "verify" /\ pc' = "return" /\ said' \in BOOLEAN
        /\ said' => Intact(flash) /\ (flash = Sealed(store) \/ damaged = "dropped")
        /\ UNCHANGED <<caller, ready, store, flash, made, damaged>>
    BY <1>12 DEF Verify, Return, ReadBackFits, Intact, SaveInv
  <2>2. said' /\ damaged = "no" => Readable(flash) /\ flash.body.key = store.key
    BY <1>1, <2>1, SealedBlob
  <2> QED
    BY <2>1, <2>2
       DEF TypeInv, TypeOK, KeyInv, SaveInv, SaveTellsTruth, SameKey, HasStore,
           Keyed, Saving, Steps
<1>13. CASE Continue
  <2>1. /\ pc = "return" /\ caller' = "none" /\ said' = FALSE
        /\ UNCHANGED <<ready, store, flash, made, damaged>>
        /\ \/ pc' = "stopped"
           \/ pc' = "reset" /\ caller = "first" /\ said
           \/ pc' = "listening" /\ caller # "first"
    BY <1>13, ContinueEffect
  <2>2. TypeInv'
    BY <2>1 DEF TypeInv, TypeOK, Saving, Steps, Callers
  <2>3. KeyInv'
    BY <2>1 DEF KeyInv, Keyed, Saving
  <2>4. SaveInv' /\ SaveTellsTruth'
    BY <2>1 DEF SaveInv, SaveTellsTruth, Saving
  <2>5. SameKey'
    BY <2>1 DEF SameKey, HasStore, Saving
  <2> QED
    BY <2>2, <2>3, <2>4, <2>5
<1>14. CASE PowerCut
  <2>1. flash' \in Blob /\ Ordered(flash.body)' /\ (flash'.head => flash'.crc32.key # 0)
    <3>1. flash.head => flash.crc32.key # 0
      BY DEF KeyInv
    <3>2. CASE flash' = flash
      BY <1>1, <3>1, <3>2
    <3>3. CASE pc = "set" /\ flash' = Sealed(store)
      BY <1>1, <3>3, SealedBlob DEF KeyInv, Keyed, Saving
    <3>4. CASE flash' \in Spoilt(flash)
      BY <1>1, <3>1, <3>4, SpoiltBlob
    <3> QED
      BY <1>14, <3>2, <3>3, <3>4 DEF PowerCut
  <2> QED
    BY <1>2, <1>14, <2>1
       DEF PowerCut, TypeInv, TypeOK, KeyInv, SaveInv, SaveTellsTruth, SameKey, HasStore,
           Keyed, Saving, Steps, Callers
<1>15. CASE Decay
  <2>1. /\ flash' \in Blob /\ ~Intact(flash') /\ Ordered(flash.body)'
        /\ (flash'.head => flash'.crc32.key # 0)
    BY <1>1, <1>15, SpoiltBlob DEF Decay, KeyInv, Readable
  <2> QED
    BY <1>15, <2>1
       DEF Decay, TypeInv, TypeOK, KeyInv, SaveInv, SaveTellsTruth, SameKey, HasStore,
           Keyed, Saving, Readable, Intact
<1>16. CASE UNCHANGED vars
  BY <1>16
     DEF vars, TypeInv, TypeOK, KeyInv, SaveInv, SaveTellsTruth, SameKey, HasStore, Keyed, Readable, Intact
<1> QED
  BY <1>3, <1>4, <1>5, <1>6, <1>7, <1>8, <1>9, <1>10, <1>11, <1>12, <1>13, <1>14, <1>15, <1>16
     DEF Next

LEMMA StoreInvariant == ASSUME StoreAssumption PROVE Spec => []StoreInv
BY StoreInit, StoreStepInv, PTL DEF Spec

\* A save that reports success has put the store of its caller into flash, or
\* left an intact older blob there if EasyFlash dropped the write
\* (gw_store_save).
THEOREM SavesTellTruth == ASSUME StoreAssumption PROVE Spec => []SaveTellsTruth
<1>1. StoreInv => SaveTellsTruth
  BY DEF StoreInv
<1> QED
  BY <1>1, StoreInvariant, PTL

\* A gateway that listens uses the keypair that its next boot will find
\* (gw_store_init_or_load).
THEOREM ListensWithStored == ASSUME StoreAssumption PROVE Spec => []ListensWithStoredKey
<1>1. StoreInv => ListensWithStoredKey
  BY DEF StoreInv, SameKey, HasStore, ListensWithStoredKey
<1> QED
  BY <1>1, StoreInvariant, PTL

-----------------------------------------------------------------------------
(* The register.  The four values that GatewayStore shows as one:          *)

ramStore == IF HasStore
            THEN [store EXCEPT !.last_sender_counter = IF pc = "reset" THEN 0 ELSE @]
            ELSE NoBody

flashStore == IF Readable(flash) THEN flash.body ELSE NoBody

LEMMA RegisterInit == ASSUME StoreAssumption PROVE Init => Register!Init
<1> SUFFICES ASSUME Init PROVE Register!Init
  OBVIOUS
<1>1. ~Readable(flash)
  BY FirstBlobs DEF Init, Readable
<1> QED
  BY <1>1 DEF Init, Register!Init, Register!Nothing, HasStore, Saving, NoBody

\* Outside of reset the register's store is the store itself.
LEMMA RamStore ==
  ASSUME store \in Body, HasStore, pc # "reset" \/ store.last_sender_counter = 0
  PROVE  ramStore = store
BY DEF ramStore, Body

LEMMA RegisterStep ==
  ASSUME StoreAssumption, StoreInv, StoreInv', [Next]_vars
  PROVE  [Register!Next]_<<HasStore, ramStore, flashStore, made>>
<1> USE DEF StoreInv
<1>1. /\ store \in Body /\ flash \in Blob /\ store' \in Body
      /\ made \in Nat /\ NoBody.key = 0 /\ NoBody = Register!Nothing
  BY NoBodyType DEF TypeInv, TypeOK, StoreAssumption, NoBody, Register!Nothing
<1>0. HasStore \in BOOLEAN /\ HasStore' \in BOOLEAN
  BY DEF HasStore, TypeInv, TypeOK
<1>2. /\ HasStore => store.key # 0
      /\ Readable(flash) => flash.body.key # 0 /\ flash.body # NoBody
  BY <1>1 DEF KeyInv, HasStore, Keyed, Saving, Readable, Intact
<1>3. CASE PowerOn \/ LoadFails \/ GenerateFails
  BY <1>3
     DEF PowerOn, LoadFails, GenerateFails, HasStore, ramStore, flashStore, Saving
<1>4. CASE Load
  <2>1. ~HasStore /\ HasStore' /\ flashStore = flash.body /\ flashStore # NoBody
    BY <1>2, <1>4 DEF Load, HasStore, flashStore, Saving
  <2>2. ramStore' = [flashStore EXCEPT !.last_sender_counter = 0]
    BY <1>4, <2>1 DEF Load, ramStore
  <2>3. UNCHANGED <<flashStore, made>>
    BY <1>4 DEF Load, flashStore
  <2> QED
    BY <1>1, <2>1, <2>2, <2>3 DEF Register!Next, Register!Load, ramStore, flashStore
<1>5. CASE Generate
  <2>1. ~HasStore /\ ~HasStore' /\ made' = made + 1 /\ flash' = flash
    BY <1>5 DEF Generate, Save, HasStore, Saving
  <2> QED
    BY <1>0, <2>1 DEF Register!Next, Register!Make, ramStore, flashStore
<1>6. CASE Reset
  <2>1. HasStore /\ HasStore' /\ UNCHANGED <<flashStore, made>>
    BY <1>6 DEF Reset, Save, HasStore, Saving, flashStore
  <2>2. ramStore = store' /\ ramStore' = store'
    BY <1>1, <1>6, <2>1 DEF Reset, Save, ramStore, Body
  <2> QED
    BY <2>1, <2>2
<1>7. CASE Accept
  <2>1. HasStore /\ HasStore' /\ UNCHANGED <<flashStore, made>>
    BY <1>7 DEF Accept, Save, HasStore, Saving, flashStore
  <2>2. /\ ramStore = store /\ ramStore' = store'
        /\ store' = [store EXCEPT !.message_count = @ + 1, !.last_sender_counter = @ + 1]
    BY <1>1, <1>7, <2>1 DEF Accept, Save, ramStore, Body
  <2> QED
    BY <2>1, <2>2 DEF Register!Next, Register!Accept, ramStore, flashStore
<1>8. CASE Open \/ Commit
  <2>1. HasStore' = HasStore
    BY <1>8 DEF Open, Commit, Return, HasStore, Saving, TypeInv, TypeOK
  <2> QED
    BY <1>8, <2>1 DEF Open, Commit, Return, ramStore, flashStore
<1>9. CASE Set
  <2>1. /\ pc = "set" /\ pc' \in {"commit", "return"} /\ (pc' = "return" => ~said')
        /\ UNCHANGED <<caller, store, made>>
        /\ flash' \in {flash, Sealed(store)} \cup Spoilt(Sealed(store)) \cup Spoilt(flash)
    BY <1>9 DEF Set, Return
  <2>2. HasStore' = HasStore /\ ramStore' = ramStore /\ (HasStore => ramStore = store)
    <3>1. HasStore' = HasStore
      BY <2>1 DEF HasStore, Saving
    <3> QED
      BY <1>1, <2>1, <3>1 DEF ramStore, Body
  <2>3. CASE flash' = flash
    BY <2>1, <2>2, <2>3 DEF flashStore
  <2>4. CASE flash' = Sealed(store)
    <3>1. flashStore' = store
      BY <1>1, <2>4, SealedBlob DEF flashStore
    <3>2. CASE HasStore
      BY <2>1, <2>2, <3>1, <3>2 DEF Register!Next, Register!Settle, ramStore, flashStore
    <3>3. CASE ~HasStore
      <4>1. caller = "first" /\ made > 0 /\ store = [NoBody EXCEPT !.key = made]
        BY <2>1, <3>3 DEF HasStore, Saving, SaveInv
      <4>2. store = Register!Fresh(made)
        BY <4>1 DEF NoBody, Register!Fresh
      <4> QED
        BY <2>1, <2>2, <3>1, <3>3, <4>1, <4>2
           DEF Register!Next, Register!Enter, ramStore, flashStore
    <3> QED
      BY <3>2, <3>3
  <2>5. CASE flash' \in Spoilt(Sealed(store)) \cup Spoilt(flash)
    <3>1. ~Readable(flash')
      <4>1. Sealed(store) \in Blob /\ Sealed(store).crc32.key # 0
        BY <1>1, <2>1, SealedBlob DEF KeyInv, Keyed, Saving
      <4> QED
        BY <1>1, <2>5, <4>1, SpoiltBlob DEF KeyInv
    <3>2. flashStore' = NoBody
      BY <3>1 DEF flashStore
    <3> QED
      BY <1>1, <2>1, <2>2, <3>2 DEF Register!Next, Register!Lose, ramStore, flashStore
  <2> QED
    BY <2>1, <2>3, <2>4, <2>5
<1>10. CASE Verify
  <2>1. /\ pc = "verify" /\ pc' = "return" /\ said' \in BOOLEAN
        /\ said' => flash = Sealed(store) \/ damaged = "dropped"
        /\ UNCHANGED <<caller, store, flash, made>>
    BY <1>10 DEF Verify, Return, ReadBackFits, Intact, SaveInv
  <2>2. CASE caller = "first" /\ said' /\ damaged # "dropped"
    <3>1. ~HasStore /\ HasStore' /\ UNCHANGED <<flashStore, made>>
      BY <2>1, <2>2 DEF HasStore, Saving, flashStore
    <3>2. flashStore = store /\ store.key # 0
      BY <1>1, <2>1, <2>2, SealedBlob DEF flashStore, KeyInv, Keyed, Saving
    <3>3. store.last_sender_counter = 0
      BY <2>1, <2>2 DEF SaveInv, Saving, NoBody
    <3>4. ramStore' = [flashStore EXCEPT !.last_sender_counter = 0]
      BY <1>1, <2>1, <3>1, <3>2, <3>3 DEF ramStore, Body
    <3> QED
      BY <1>1, <3>1, <3>2, <3>4 DEF Register!Next, Register!Load, ramStore, flashStore
  <2>4. CASE caller = "first" /\ said' /\ damaged = "dropped"
    <3>1. ~HasStore /\ HasStore' /\ UNCHANGED <<flashStore, made>>
      BY <2>1, <2>4 DEF HasStore, Saving, flashStore
    <3>2. made > 0 /\ store = [NoBody EXCEPT !.key = made]
      BY <2>1, <2>4 DEF SaveInv, Saving
    <3>3. store = Register!Fresh(made) /\ store.last_sender_counter = 0
      BY <3>2 DEF NoBody, Register!Fresh
    <3>4. ramStore' = Register!Fresh(made)
      BY <1>1, <2>1, <3>1, <3>3 DEF ramStore, Body
    <3> QED
      BY <1>0, <3>1, <3>2, <3>4 DEF Register!Next, Register!Trust, ramStore, flashStore
  <2>3. CASE ~(caller = "first" /\ said')
    <3>1. HasStore' = HasStore
      BY <2>1, <2>3 DEF HasStore, Saving
    <3> QED
      BY <2>1, <3>1 DEF ramStore, flashStore
  <2> QED
    BY <2>2, <2>3, <2>4
<1>11. CASE Continue
  <2>1. HasStore' = HasStore /\ UNCHANGED <<store, flashStore, made>>
    <3>1. /\ pc = "return" /\ caller \in Callers /\ said \in BOOLEAN /\ caller' = "none"
          /\ UNCHANGED <<store, flash, made>>
          /\ \/ pc' = "stopped" /\ caller = "first" /\ ~said
             \/ pc' = "reset" /\ caller = "first" /\ said
             \/ pc' = "listening" /\ caller # "first"
      BY <1>11, ContinueEffect DEF TypeInv, TypeOK
    <3>2. HasStore' <=> HasStore
      BY <3>1 DEF HasStore, Saving
    <3> QED
      BY <1>0, <3>1, <3>2 DEF flashStore
  <2>2. ramStore' = ramStore
    <3>1. CASE pc' = "reset"
      <4>1. store.last_sender_counter = 0
        BY <1>11, <3>1 DEF Continue, SaveInv, NoBody
      <4> QED
        BY <1>1, <1>11, <2>1, <3>1, <4>1 DEF Continue, ramStore, Body
    <3>2. CASE pc' # "reset"
      BY <1>11, <2>1, <3>2 DEF Continue, ramStore
    <3> QED
      BY <3>1, <3>2
  <2> QED
    BY <2>1, <2>2
<1>12. CASE PowerCut
  <2>1. ~HasStore' /\ ramStore' = NoBody /\ made' = made
    BY <1>12 DEF PowerCut, HasStore, Saving, ramStore
  <2>2. \/ flashStore' = flashStore
        \/ flashStore' = NoBody
        \/ pc = "set" /\ flashStore' = store
    <3>1. CASE flash' = flash
      BY <3>1 DEF flashStore
    <3>2. CASE pc = "set" /\ flash' = Sealed(store)
      BY <1>1, <3>2, SealedBlob DEF flashStore
    <3>3. CASE flash' \in Spoilt(flash)
      BY <1>1, <3>3, SpoiltBlob DEF KeyInv, flashStore
    <3> QED
      BY <1>12, <3>1, <3>2, <3>3 DEF PowerCut
  <2>3. CASE HasStore
    <3>1. pc = "set" => ramStore = store
      BY <1>1, <2>3 DEF ramStore, Body
    <3> QED
      BY <1>1, <1>0, <2>1, <2>2, <2>3, <3>1 DEF Register!Next, Register!Stop, ramStore, flashStore
  <2>4. CASE ~HasStore
    <3>1. ramStore = NoBody
      BY <2>4 DEF ramStore
    <3>2. CASE flashStore' = flashStore
      BY <1>0, <2>1, <2>4, <3>1, <3>2
    <3>3. CASE flashStore' = NoBody
      BY <1>1, <1>0, <2>1, <2>4, <3>1, <3>3 DEF Register!Next, Register!Lose, ramStore, flashStore
    <3>4. CASE pc = "set" /\ flashStore' = store
      <4>1. caller = "first" /\ made > 0 /\ store = [NoBody EXCEPT !.key = made]
        BY <2>4, <3>4 DEF HasStore, Saving, SaveInv
      <4>2. store = Register!Fresh(made)
        BY <4>1 DEF NoBody, Register!Fresh
      <4> QED
        BY <1>0, <2>1, <2>4, <3>1, <3>4, <4>1, <4>2
           DEF Register!Next, Register!Enter, ramStore, flashStore
    <3> QED
      BY <2>2, <3>2, <3>3, <3>4
  <2> QED
    BY <2>3, <2>4
<1>13. CASE Decay
  <2>1. HasStore' = HasStore /\ ramStore' = ramStore /\ made' = made
    BY <1>13 DEF Decay, HasStore, ramStore
  <2>2. flashStore' = NoBody
    BY <1>1, <1>13, SpoiltBlob DEF Decay, KeyInv, flashStore
  <2> QED
    BY <1>1, <2>1, <2>2 DEF Register!Next, Register!Lose, ramStore, flashStore
<1>14. CASE UNCHANGED vars
  BY <1>14 DEF vars, HasStore, ramStore, flashStore, Readable, Intact
<1> QED
  BY <1>3, <1>4, <1>5, <1>6, <1>7, <1>8, <1>9, <1>10, <1>11, <1>12, <1>13, <1>14 DEF Next

\* However calls fail and power is cut, the store in flash is a register that
\* holds a past value of the store in RAM, whole, or nothing
\* (gw_store_save, gw_store_load).
THEOREM StoreIsRegister == ASSUME StoreAssumption PROVE Spec => KeepsRegister
<1>1. StoreInv /\ StoreInv' /\ [Next]_vars
         => [Register!Next]_<<HasStore, ramStore, flashStore, made>>
  BY RegisterStep
<1>2. Init => Register!Init
  BY RegisterInit
<1> QED
  BY <1>1, <1>2, StoreInvariant, PTL
     DEF Spec, KeepsRegister, Register!Spec, ramStore, flashStore
=============================================================================
