----------------------------- MODULE MCGateway -----------------------------
(* Small instances of Gateway and the datagrams that arrive in them.       *)
EXTENDS Gateway, TLC

CONSTANTS n1, n2, n3, other

Control(kinds) == [kind: kinds, msg_id: {0}]

\* A POST whose bytes pass every check but those on its own fields.
Post(sequences, nonces, keypairs) ==
    [kind: {"data"}, msg_id: {0}, form: {"ok"}, key_id: {KeyId},
     sender_id: {AllowedSender}, sequence: sequences, nonce: nonces,
     sealed: keypairs]

GenuinePost(s, n) ==
    [kind |-> "data", msg_id |-> 0, form |-> "ok", key_id |-> KeyId,
     sender_id |-> AllowedSender, sequence |-> s, nonce |-> n, sealed |-> 1]

\* Every pairing of sequence number and nonce for the first keypair, a message
\* for the second, and a datagram for each other path of the loop.
MessageTraffic ==
    Control({"meta"}) \cup Post(1..3, {n1, n2, n3}, {1})
    \cup {[GenuinePost(s, n1) EXCEPT !.sealed = 2] : s \in {1, 3}}

Traffic ==
    Control({"malformed", "bad_header", "meta", "pk", "other"})
    \cup Post(1..3, {n1, n2, n3}, {1})
    \cup {GenuinePost(0, other),
          [GenuinePost(1, other) EXCEPT !.sealed = 2],
          [GenuinePost(2, other) EXCEPT !.form = "BAD_WIRELEN"]}

\* The nonces of the pairings are alike.
Alike == Permutations({n1, n2, n3})

Windows == [k \in Kinds |-> 1]
AmpleLimits == [k \in Kinds |-> 4]
MixedLimits == [k \in Kinds |-> IF k = "data" THEN 3 ELSE 1]
AllKinds == {"meta", "pk", "data"}
=============================================================================
