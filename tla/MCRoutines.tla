------------------------------ MODULE MCRoutines ------------------------------
(* Values for the constants of Routines: datagrams, streams and messages.  *)
EXTENDS Routines, FiniteSetsExt

(* Datagrams: all those of up to four bytes that matter to the parser, with *)
(* no token, a token and one too long.  Texts: segments, paths, payloads   *)
(* and room around every length that is treated in its own way.            *)

Bytes == {0, 1, 11, 176, 187, 221, 222, 238, 240, 255}

MCDatagrams ==
    [bytes : UNION {[1..n -> Bytes] : n \in 0..4}, token_len : {0, 1, 9}]

String(n) == [i \in 1..n |-> 97 + (i % 7)]
Lengths == {0, 1, 12, 13, 31, 32, 255, 269}

MCTexts ==
    {[segments |-> <<String(a), String(b)>>, payload |-> String(p), room |-> r] :
        a, b \in Lengths, p \in {0, 1, 40}, r \in {64, 1024}}
    \cup {[segments |-> <<String(a), String(b), String(c)>>, payload |-> String(1), room |-> 1024] :
        a, b, c \in {0, 1, 13, 14, 16, 30}}

-----------------------------------------------------------------------------
(* Streams for the seeds of ML-KEM: a number is made of the seed, and a    *)
(* generator of small period made of the number.                           *)

\* The seed of a keypair holds its coins, that of an encryption its message.
NumberOf(seed) ==
    LET x == seed[2][2]
    IN  IF seed[2][3][1] = "k" THEN x[2]
        ELSE FoldSet(LAMBDA i, number : (number * 7 + x[i] * (i + 3)) % 9973, 5, 0..31)

Stream(s, n) == (((s + 1) * ((n * n * 31 + 7 * n + 11) % 8191)) % 65521) \div 16

MCXof(seed, x, y) ==
    LET s == (NumberOf(seed) % 500) + 600 * x + 1300 * y
    IN  [n \in 0..255 |-> Stream(s, n) % 3329]

MCPrf(seed, nonce) ==
    LET s == (NumberOf(seed) % 500) + 500 * nonce
    IN  [n \in 0..191 |-> Stream(s, n) % 256]

MCMessages ==
    {[i \in 0..31 |-> 0], [i \in 0..31 |-> 255], [i \in 0..31 |-> (37 * i + 5) % 256]}

\* A byte of either part is changed.
MCChanges(c) == {[c EXCEPT !.b[0] = (@ + 1) % 256], [c EXCEPT !.v[127] = (@ + 1) % 256]}

-----------------------------------------------------------------------------
\* No bit, all bits, and some bits of each lane.
MCSamples ==
    {[l \in 0..24 |-> {}], [l \in 0..24 |-> 0..63],
     [l \in 0..24 |-> {(l * l + 7 * k) % 64 : k \in 0..(l % 6)}]}
=============================================================================
