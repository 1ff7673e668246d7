----------------------------- MODULE KeyRegister -----------------------------
(***************************************************************************)
(* What the gateway task counts on from its key store: a register in flash *)
(* that holds a past value of the store in RAM, whole, or nothing.  There  *)
(* is no torn or invented value, and a keypair that was never made before  *)
(* is the only other thing that can appear in it.                          *)
(***************************************************************************)
EXTENDS Naturals

VARIABLES
    on,             \* whether the task has its store
    store,          \* the store in RAM, Nothing while the task has none
    cell,           \* the readable value in flash, or Nothing
    made            \* keypairs made so far

Nothing == [key |-> 0, message_count |-> 0, last_sender_counter |-> 0]
Fresh(k) == [key |-> k, message_count |-> 0, last_sender_counter |-> 0]

Init == on = FALSE /\ store = Nothing /\ cell = Nothing /\ made = 0

Make == ~on /\ made' = made + 1 /\ UNCHANGED <<on, store, cell>>

\* The newest keypair enters the register before it is used.
Enter == ~on /\ made > 0 /\ cell' = Fresh(made) /\ UNCHANGED <<on, store, made>>

\* A boot takes what the register holds, with the sequence numbers reset.
Load ==
    /\ ~on /\ cell # Nothing
    /\ on' = TRUE
    /\ store' = [cell EXCEPT !.last_sender_counter = 0]
    /\ UNCHANGED <<cell, made>>

\* The first write of the newest keypair was dropped without an error: the task
\* runs on what the register does not hold.
Trust == ~on /\ made > 0 /\ on' = TRUE /\ store' = Fresh(made) /\ UNCHANGED <<cell, made>>

Accept ==
    /\ on
    /\ store' = [store EXCEPT !.message_count = @ + 1, !.last_sender_counter = @ + 1]
    /\ UNCHANGED <<on, cell, made>>

Settle == on /\ cell' = store /\ UNCHANGED <<on, store, made>>

Lose == cell' = Nothing /\ UNCHANGED <<on, store, made>>

\* The end of the task may come in the middle of a write.
Stop ==
    /\ on /\ on' = FALSE
    /\ store' = Nothing
    /\ cell' \in {cell, store, Nothing}
    /\ UNCHANGED made

Next == Make \/ Enter \/ Load \/ Trust \/ Accept \/ Settle \/ Lose \/ Stop

Spec == Init /\ [][Next]_<<on, store, cell, made>>
=============================================================================
