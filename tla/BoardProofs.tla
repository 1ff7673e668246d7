----------------------------- MODULE BoardProofs -----------------------------
(***************************************************************************)
(* Proofs about GatewayBoard: its steps are steps of GatewayStore and of   *)
(* Telemetry, so that what is proved of the two holds of the board, where  *)
(* saves and reports take turns and a power cut ends both.                 *)
(***************************************************************************)
EXTENDS GatewayBoard, TLAPS

\* The modules with the proofs, under the names that the board has for the
\* variables.  The prover takes KP!Next and K!Next for two definitions; the
\* lemmas about the one and the other say that they are the same.
KP == INSTANCE StoreProofs WITH pc <- step, ready <- opened
TP == INSTANCE TelemetryProofs

-----------------------------------------------------------------------------
(* The key store *)

LEMMA SameStoreInit == Init => KP!Init
BY DEF Init, K!Init, KP!Init, K!NoBody, KP!NoBody, K!NoBlob, KP!NoBlob,
       K!Foreign, KP!Foreign

LEMMA SameStoreStep == [K!Next]_(K!vars) => [KP!Next]_(KP!vars)
BY DEF K!vars, KP!vars, K!Next, KP!Next, K!PowerOn, KP!PowerOn, K!Load, KP!Load,
       K!LoadFails, KP!LoadFails, K!Generate, KP!Generate, K!GenerateFails, KP!GenerateFails,
       K!Reset, KP!Reset, K!Accept, KP!Accept, K!Open, KP!Open, K!Set, KP!Set,
       K!Commit, KP!Commit, K!Verify, KP!Verify, K!Continue, KP!Continue,
       K!PowerCut, KP!PowerCut, K!Decay, KP!Decay, K!Save, KP!Save, K!Return, KP!Return,
       K!NoBody, KP!NoBody, K!Sealed, KP!Sealed, K!Spoilt, KP!Spoilt, K!Readable, KP!Readable,
       K!Intact, KP!Intact, K!ReadBackFits, KP!ReadBackFits, K!Proceeds, KP!Proceeds

LEMMA StoreStepOfBoard == [Next]_vars => [K!Next]_(K!vars)
<1> SUFFICES ASSUME [Next]_vars PROVE [K!Next]_(K!vars)
  OBVIOUS
<1>1. CASE StoreStep
  <2>1. K!Next
    BY <1>1 DEF StoreStep, K!Next
  <2> QED
    BY <2>1
<1>2. CASE PowerCut
  BY <1>2 DEF PowerCut, K!Next
<1>3. CASE EventStep
  BY <1>3 DEF EventStep, keystore, K!vars
<1>4. CASE Surroundings
  <2>1. K!Next \/ UNCHANGED K!vars
    BY <1>4 DEF Surroundings, keystore, K!vars, K!Next
  <2> QED
    BY <2>1
<1>5. CASE UNCHANGED vars
  BY <1>5 DEF vars, keystore, K!vars
<1> QED
  BY <1>1, <1>2, <1>3, <1>4, <1>5 DEF Next

\* A board does with its key store what GatewayStore does.
LEMMA BoardIsStore == Spec => KP!Spec
<1>1. [Next]_vars => [KP!Next]_(KP!vars)
  BY StoreStepOfBoard, SameStoreStep
<1> QED
  BY <1>1, SameStoreInit, PTL DEF Spec, KP!Spec

LEMMA StoreConstants == KP!StoreAssumption
BY BoardAssumption DEF K!StoreAssumption, KP!StoreAssumption

\* A save that reports success has put the store of its caller into flash, or
\* left an intact older blob there if the write was dropped, on a board that
\* reports to the PC between its saves (gw_store_save).
THEOREM BoardSavesTellTruth == Spec => []SaveTellsTruth
<1>1. KP!Spec => []KP!SaveTellsTruth
  BY StoreConstants, KP!SavesTellTruth
<1>2. KP!SaveTellsTruth => SaveTellsTruth
  BY DEF SaveTellsTruth, K!SaveTellsTruth, KP!SaveTellsTruth, K!Sealed, KP!Sealed,
         K!Intact, KP!Intact
<1> QED
  BY <1>1, <1>2, BoardIsStore, PTL

\* A board that listens uses the keypair that its next boot will find
\* (gw_store_init_or_load).
THEOREM BoardListensWithStored == Spec => []ListensWithStoredKey
<1>1. KP!Spec => []KP!ListensWithStoredKey
  BY StoreConstants, KP!ListensWithStored
<1>2. KP!ListensWithStoredKey => ListensWithStoredKey
  BY DEF ListensWithStoredKey, K!ListensWithStoredKey, KP!ListensWithStoredKey,
         K!Readable, KP!Readable, K!Intact, KP!Intact
<1> QED
  BY <1>1, <1>2, BoardIsStore, PTL

LEMMA SameRegisterInit == KP!Register!Init => K!Register!Init
BY DEF KP!Register!Init, K!Register!Init, KP!Register!Nothing, K!Register!Nothing,
       KP!HasStore, K!HasStore, KP!Saving, K!Saving, KP!Readable, K!Readable, KP!Intact, K!Intact,
       KP!NoBody, K!NoBody

\* The store in RAM as the register has it, in the names of either module.
ramK == IF K!HasStore
        THEN [store EXCEPT !.last_sender_counter = IF step = "reset" THEN 0 ELSE @]
        ELSE K!NoBody
ramKP == IF KP!HasStore
         THEN [store EXCEPT !.last_sender_counter = IF step = "reset" THEN 0 ELSE @]
         ELSE KP!NoBody
cellK == IF K!Readable(flash) THEN flash.body ELSE K!NoBody
cellKP == IF KP!Readable(flash) THEN flash.body ELSE KP!NoBody

LEMMA SameRegisterStep ==
    [KP!Register!Next]_<<KP!HasStore, ramKP, cellKP, made>>
    => [K!Register!Next]_<<K!HasStore, ramK, cellK, made>>
BY DEF ramK, ramKP, cellK, cellKP, KP!Register!Next, K!Register!Next,
       KP!Register!Make, K!Register!Make, KP!Register!Enter, K!Register!Enter,
       KP!Register!Load, K!Register!Load, KP!Register!Trust, K!Register!Trust,
       KP!Register!Accept, K!Register!Accept,
       KP!Register!Settle, K!Register!Settle, KP!Register!Lose, K!Register!Lose,
       KP!Register!Stop, K!Register!Stop, KP!Register!Nothing, K!Register!Nothing,
       KP!Register!Fresh, K!Register!Fresh, KP!HasStore, K!HasStore, KP!Saving, K!Saving,
       KP!Readable, K!Readable, KP!Intact, K!Intact, KP!NoBody, K!NoBody

LEMMA SameRegister == KP!KeepsRegister => KeepsRegister
BY SameRegisterInit, SameRegisterStep, PTL
   DEF KeepsRegister, KP!KeepsRegister, K!KeepsRegister, KP!Register!Spec, K!Register!Spec,
       ramK, ramKP, cellK, cellKP

\* However calls fail and power is cut, what a boot of the board can load is
\* a past value of its store, whole, or nothing (gw_store_save, gw_store_load).
THEOREM BoardKeepsRegister == Spec => KeepsRegister
<1>1. KP!Spec => KP!KeepsRegister
  BY StoreConstants, KP!StoreIsRegister
<1> QED
  BY <1>1, BoardIsStore, SameRegister, PTL

-----------------------------------------------------------------------------
(* Telemetry *)

LEMMA SameTelemetryInit == Init => TP!Init
BY DEF Init, T!Init, TP!Init

LEMMA SameTelemetryStep == [T!Next]_(T!vars) => [TP!Next]_(TP!vars)
BY DEF T!vars, TP!vars, T!client, TP!client, T!pc, TP!pc, T!Next, TP!Next,
       T!Client, TP!Client, T!Call, TP!Call, T!Answered, TP!Answered,
       T!Unanswered, TP!Unanswered, T!NotFound, TP!NotFound, T!Post, TP!Post,
       T!Found, TP!Found, T!Counted, TP!Counted, T!Lose, TP!Lose, T!LostCap, TP!LostCap,
       T!TooManyFails, TP!TooManyFails, T!Restart, TP!Restart, T!PC, TP!PC,
       T!Move, TP!Move, T!ServerStarts, TP!ServerStarts, T!ServerStops, TP!ServerStops,
       T!CollectorChanges, TP!CollectorChanges

LEMMA TelemetryStepOfBoard == [Next]_vars => [T!Next]_(T!vars)
<1> SUFFICES ASSUME [Next]_vars PROVE [T!Next]_(T!vars)
  OBVIOUS
<1> USE DEF telemetry, T!vars, T!client, T!pc
<1>1. CASE StoreStep
  BY <1>1 DEF StoreStep
<1>2. CASE PowerCut
  BY <1>2 DEF PowerCut, T!Next
<1>3. CASE EventStep
  BY <1>3 DEF EventStep, T!Next
<1>4. CASE Surroundings
  <2>1. T!Next \/ UNCHANGED T!vars
    BY <1>4 DEF Surroundings, T!Next
  <2> QED
    BY <2>1
<1>5. CASE UNCHANGED vars
  BY <1>5 DEF vars
<1> QED
  BY <1>1, <1>2, <1>3, <1>4, <1>5 DEF Next

\* A board does with its telemetry what Telemetry does.
LEMMA BoardIsTelemetry == Spec => TP!Spec
<1>1. [Next]_vars => [TP!Next]_(TP!vars)
  BY TelemetryStepOfBoard, SameTelemetryStep
<1> QED
  BY <1>1, SameTelemetryInit, PTL DEF Spec, TP!Spec

\* A PC that can be reached and is advertised under its address loses no more
\* events of the board in a row than the client's limit, although saves and
\* events hold each other up (splunk_send_event).
THEOREM BoardLossIsBounded == Spec => []LossBound
<1>1. TP!TelemetryAssumption
  BY BoardAssumption DEF T!TelemetryAssumption, TP!TelemetryAssumption
<1>2. TP!Spec => []TP!LossBound
  BY <1>1, TP!LossIsBounded
<1>3. TP!LossBound => LossBound
  BY DEF LossBound, T!LossBound, TP!LossBound, T!Reachable, TP!Reachable
<1> QED
  BY <1>2, <1>3, BoardIsTelemetry, PTL
-----------------------------------------------------------------------------
(* Both *)

\* The board's type invariant: each part keeps the types it has alone, what a
\* power cut leaves of either included.
THEOREM BoardTypes == Spec => []TypeOK
<1>1. TP!TelemetryAssumption
  BY BoardAssumption DEF T!TelemetryAssumption, TP!TelemetryAssumption
<1>2. KP!Spec => []KP!StoreInv
  BY StoreConstants, KP!StoreInvariant
<1>3. TP!Spec => []TP!TelemetryInv
  BY <1>1, TP!TelemetryInvariant
<1>4. KP!StoreInv => K!TypeOK
  BY DEF KP!StoreInv, KP!TypeInv, KP!TypeOK, K!TypeOK, KP!Steps, K!Steps, KP!Saving, K!Saving,
         KP!Callers, K!Callers, KP!Body, K!Body, KP!Blob, K!Blob
<1>5. TP!TelemetryInv => T!TypeOK
  BY DEF TP!TelemetryInv, TP!TypeOK, T!TypeOK, TP!Calls, T!Calls, TP!LostCap, T!LostCap
<1>6. KP!StoreInv /\ TP!TelemetryInv => TypeOK
  BY <1>4, <1>5 DEF TypeOK
<1> QED
  BY <1>2, <1>3, <1>6, BoardIsStore, BoardIsTelemetry, PTL
=============================================================================
