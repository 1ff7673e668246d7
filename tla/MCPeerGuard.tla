---------------------------- MODULE MCPeerGuard ----------------------------
(* A small instance of PeerGuard.  Modulus stands for 2^32 milliseconds.   *)
EXTENDS PeerGuard

GetAndPost == {"meta", "data"}

Windows == [k \in Kinds |-> 2]

\* as in the code, metadata has twice the limit of the other kinds
Limits == [k \in Kinds |-> IF k = "meta" THEN 2 ELSE 1]
=============================================================================
