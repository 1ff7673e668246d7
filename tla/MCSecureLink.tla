---------------------------- MODULE MCSecureLink ----------------------------
(* Small instances of SecureLink.  A unit of the gateway's clock is a wait  *)
(* of the sender, which is longer than the gateway's rate windows.          *)
EXTENDS SecureLink

CONSTANTS a1, a2

AllKinds == {"meta", "pk", "data"}
AllPosts == {[kind |-> "data", sequence |-> n, nonce |-> n] : n \in 1..MaxIssued}
NoTime == [k \in Kinds |-> 0]
AmpleLimits == [k \in Kinds |-> 2]
=============================================================================
