------------------------------- MODULE Delivery -------------------------------
(***************************************************************************)
(* What the secure link promises: messages are issued one after another,   *)
(* the gateway takes each at most once for as long as it keeps running,    *)
(* and the sender holds for delivered only what the gateway has taken.     *)
(* Nothing promises that a message is taken, nor that the sender learns of *)
(* it.                                                                     *)
(***************************************************************************)
EXTENDS Naturals

VARIABLES
    issued,         \* the number of messages issued
    taken,          \* the messages taken since the gateway last started
    ever_taken,     \* the messages taken since the beginning
    confirmed       \* the messages the sender holds for delivered

vars == <<issued, taken, ever_taken, confirmed>>

Init ==
    /\ issued = 0
    /\ taken = {}
    /\ ever_taken = {}
    /\ confirmed = {}

Issue ==
    /\ issued' = issued + 1
    /\ UNCHANGED <<taken, ever_taken, confirmed>>

Take(m) ==
    /\ m \in (1..issued) \ taken
    /\ taken' = taken \cup {m}
    /\ ever_taken' = ever_taken \cup {m}
    /\ UNCHANGED <<issued, confirmed>>

Confirm(m) ==
    /\ m \in ever_taken
    /\ confirmed' = confirmed \cup {m}
    /\ UNCHANGED <<issued, taken, ever_taken>>

Restart ==
    /\ taken' = {}
    /\ UNCHANGED <<issued, ever_taken, confirmed>>

Next ==
    \/ Issue
    \/ Restart
    \/ \E m \in 1..issued : Take(m) \/ Confirm(m)

Spec == Init /\ [][Next]_vars
=============================================================================
