----------------------------- MODULE GatewayStore -----------------------------
(***************************************************************************)
(* The gateway's key store in flash, step by step: gw_store_load,          *)
(* gw_store_save with its read-back, and their three callers in            *)
(* task_gateway (the first save of a new keypair, the save at boot and the *)
(* save after each accepted message).  EasyFlash and the flash are external*)
(* and may fail at every call; the power may be cut between any two steps. *)
(* Gateway takes a save as one step; KeyRegister says why it may.          *)
(***************************************************************************)
EXTENDS Naturals

CONSTANTS
    MaxKeys,        \* bound on the keypairs made in a behaviour
    MaxCount        \* bound on the messages counted

StoreAssumption == MaxKeys \in Nat /\ MaxCount \in Nat

VARIABLES
    pc,             \* the next step of the task; see Steps
    caller,         \* whose save is running: "first", "boot" or "message"
    ready,          \* g_easyflash_ready
    store,          \* g_store, what of it is saved
    flash,          \* the blob under GW_KEM_ENV_KEY
    said,           \* what gw_store_save returned, while its caller has the result
    made,           \* keypairs made so far
    damaged         \* history: "write" if the last write went wrong, "dropped" if
                    \* it never took place, though no error was returned, "later"
                    \* if the flash failed since, else "no"

vars == <<pc, caller, ready, store, flash, said, made, damaged>>

Saving == {"open", "set", "commit", "verify"}
Steps == {"off", "load", "generate", "return", "reset", "listening", "stopped"} \cup Saving
Callers == {"none", "first", "boot", "message"}

Body == [key: 0..MaxKeys, message_count: 0..MaxCount, last_sender_counter: 0..MaxCount]
NoBody == [key |-> 0, message_count |-> 0, last_sender_counter |-> 0]

\* A blob is whole if it has the length that the code expects; head says that
\* magic numbers, version, variant and strength are the expected ones; crc32
\* stands for what it was computed of, all of the store: different contents have
\* different checksums, so that a spoilt head spoils the body here.
Blob == [whole: BOOLEAN, head: BOOLEAN, body: Body, crc32: Body]
NoBlob == [whole |-> FALSE, head |-> FALSE, body |-> NoBody, crc32 |-> NoBody]

\* What a firmware with another version, variant or strength has left.
Foreign == [whole |-> TRUE, head |-> FALSE, body |-> NoBody, crc32 |-> NoBody]

Sealed(body) == [whole |-> TRUE, head |-> TRUE, body |-> body, crc32 |-> body]

\* What a fault leaves of blob b: a short one, or one with changed contents.
Spoilt(b) ==
    {[b EXCEPT !.whole = FALSE], [b EXCEPT !.body = NoBody]}

\* The length and the blob's own checksum are right.
Intact(b) == b.whole /\ b.crc32 = b.body

\* Mutant of Readable: the checksum is not compared.
ReadableUnchecked(b) == b.whole /\ b.head

\* The checks of gw_store_load.
Readable(b) == b.head /\ Intact(b)

TypeOK ==
    /\ pc \in Steps
    /\ caller \in Callers
    /\ pc \in Saving \cup {"return"} => caller # "none"
    /\ {ready, said} \subseteq BOOLEAN
    /\ damaged \in {"no", "write", "dropped", "later"}
    /\ store \in Body
    /\ flash \in Blob
    /\ made \in 0..MaxKeys

Init ==
    /\ pc = "off"
    /\ caller = "none"
    /\ ready = FALSE
    /\ store = NoBody
    /\ flash \in {NoBlob, Foreign}
    /\ said = FALSE
    /\ made = 0
    /\ damaged = "no"

-----------------------------------------------------------------------------
(* Boot *)

PowerOn ==
    /\ pc = "off"
    /\ pc' = "load"
    /\ ready' = FALSE
    /\ store' = NoBody
    /\ UNCHANGED <<caller, flash, said, made, damaged>>

\* gw_store_load succeeds.  easyflash_init and the read may fail though the
\* blob is sound.
Load ==
    /\ pc = "load"
    /\ Readable(flash)
    /\ ready' = TRUE
    /\ store' = flash.body
    /\ pc' = "reset"
    /\ UNCHANGED <<caller, flash, said, made, damaged>>

LoadFails ==
    /\ pc = "load"
    /\ ready' \in BOOLEAN
    /\ pc' = "generate"
    /\ UNCHANGED <<caller, store, flash, said, made, damaged>>

\* gw_store_save is entered by the given caller with the store s.
Save(who, s) ==
    /\ store' = s
    /\ caller' = who
    /\ pc' = "open"

Generate ==
    /\ pc = "generate"
    /\ made < MaxKeys
    /\ made' = made + 1
    /\ Save("first", [NoBody EXCEPT !.key = made + 1])
    /\ UNCHANGED <<ready, flash, said, damaged>>

\* pqkem_keygen or the hash of the public key fails.
GenerateFails ==
    /\ pc = "generate"
    /\ pc' = "stopped"
    /\ UNCHANGED <<caller, ready, store, flash, said, made, damaged>>

\* The sequence numbers start again at every boot.
Reset ==
    /\ pc = "reset"
    /\ Save("boot", [store EXCEPT !.last_sender_counter = 0])
    /\ UNCHANGED <<ready, flash, said, made, damaged>>

Accept ==
    /\ pc = "listening"
    /\ store.message_count < MaxCount
    /\ Save("message", [store EXCEPT !.message_count = @ + 1, !.last_sender_counter = @ + 1])
    /\ UNCHANGED <<ready, flash, said, made, damaged>>

-----------------------------------------------------------------------------
(* gw_store_save *)

Return(result) ==
    /\ said' = result
    /\ pc' = "return"

\* easyflash_backend_init, which does nothing once it has succeeded.
Open ==
    /\ pc = "open"
    /\ \/ ready' = TRUE /\ pc' = "set" /\ UNCHANGED said
       \/ ~ready /\ Return(FALSE) /\ UNCHANGED ready
    /\ UNCHANGED <<caller, store, flash, made, damaged>>

\* ef_set_env_blob: the blob is written, written badly or not at all without a
\* word, or an error is returned, with the old blob, the new one or neither in
\* flash.
Set ==
    /\ pc = "set"
    /\ \/ /\ flash' \in {Sealed(store), flash} \cup Spoilt(Sealed(store))
          /\ pc' = "commit" /\ UNCHANGED said
       \/ flash' \in {flash, Sealed(store)} \cup Spoilt(flash) /\ Return(FALSE)
    /\ damaged' = IF flash' = Sealed(store) THEN "no"
                  ELSE IF flash' # flash THEN "write"
                  ELSE IF pc' = "commit" THEN "dropped"
                  ELSE damaged
    /\ UNCHANGED <<caller, ready, store, made>>

\* ef_save_env
Commit ==
    /\ pc = "commit"
    /\ \/ pc' = "verify" /\ UNCHANGED said
       \/ Return(FALSE)
    /\ UNCHANGED <<caller, ready, store, flash, made, damaged>>

\* Mutant of ReadBackFits: the checksum of the blob read back is not compared.
ReadBackFitsLength(b) == b.whole

\* The read-back checks the length and the blob's own checksum, but neither the
\* head nor that it is the blob just written.
ReadBackFits(b) == Intact(b)

Verify ==
    /\ pc = "verify"
    /\ \/ Return(ReadBackFits(flash))
       \/ Return(FALSE)
    /\ UNCHANGED <<caller, ready, store, flash, made, damaged>>

\* Mutant of Proceeds: the result of the first save is ignored like the others.
ProceedsAlways == TRUE

\* Only the first save of a new keypair must succeed.
Proceeds == caller = "first" => said

\* Back in the caller.
Continue ==
    /\ pc = "return"
    /\ pc' = CASE ~Proceeds -> "stopped"
               [] Proceeds /\ caller = "first" -> "reset"
               [] Proceeds /\ caller # "first" -> "listening"
    /\ caller' = "none" /\ said' = FALSE
    /\ UNCHANGED <<ready, store, flash, made, damaged>>

-----------------------------------------------------------------------------
(* Faults *)

\* A cut during the write may leave the new blob or a spoilt one as well.
PowerCut ==
    /\ pc # "off"
    /\ pc' = "off"
    /\ caller' = "none" /\ said' = FALSE
    /\ store' = NoBody
    /\ flash' \in {flash} \cup (IF pc = "set" THEN {Sealed(store)} \cup Spoilt(flash) ELSE {})
    /\ damaged' = IF flash' = flash THEN damaged ELSE "later"
    /\ UNCHANGED <<ready, made>>

\* The flash goes bad while nobody writes to it.
Decay ==
    /\ Readable(flash)
    /\ flash' \in Spoilt(flash)
    /\ damaged' = "later"
    /\ UNCHANGED <<pc, caller, ready, store, said, made>>

Next ==
    \/ PowerOn \/ Load \/ LoadFails \/ Generate \/ GenerateFails \/ Reset \/ Accept
    \/ Open \/ Set \/ Commit \/ Verify \/ Continue
    \/ PowerCut \/ Decay

Spec == Init /\ [][Next]_vars

-----------------------------------------------------------------------------
(* Properties *)

\* The task has its store once a blob was loaded or a new keypair was saved.
HasStore ==
    \/ pc \in {"reset", "listening"}
    \/ pc \in Saving \cup {"return"} /\ caller # "first"
    \/ pc = "return" /\ caller = "first" /\ said

Register == INSTANCE KeyRegister WITH
                on <- HasStore,
                store <- IF HasStore THEN [store EXCEPT !.last_sender_counter =
                                               IF pc = "reset" THEN 0 ELSE @]
                         ELSE NoBody,
                cell <- IF Readable(flash) THEN flash.body ELSE NoBody

\* However calls fail and power is cut, what a boot can load is a value that
\* the store really had, or a new keypair: the checks of gw_store_load never
\* let a torn or spoilt blob through (gw_store_load, gw_store_save).
KeepsRegister == Register!Spec

\* A save that reports success has put exactly the store of its caller into
\* flash, unless the flash failed since or EasyFlash dropped the write without
\* an error: the read-back, which compares a blob with its own checksum and not
\* with what was to be written, misses no torn or spoilt write, and it misses a
\* dropped one only where an older blob lies intact (gw_store_save).
SaveTellsTruth ==
    pc = "return" /\ said /\ damaged # "later" =>
        \/ flash = Sealed(store)
        \/ damaged = "dropped" /\ Intact(flash)

\* A gateway that listens uses a keypair that its next boot will find, unless
\* the flash fails or drops a write: no fingerprint is announced for a keypair
\* that exists in RAM only (gw_store_init_or_load).
ListensWithStoredKey ==
    pc = "listening" /\ damaged = "no" => Readable(flash) /\ flash.body.key = store.key

\* A keypair that is sound in flash is never replaced by another one, as the
\* README of the receiver has it: a new one is made only if there is none.
ExistingKeyKept ==
    [][Readable(flash) /\ Readable(flash') => flash'.body.key = flash.body.key]_vars
=============================================================================
