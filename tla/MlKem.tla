------------------------------- MODULE MlKem -------------------------------
(***************************************************************************)
(* ML-KEM-512 as the boards build it: the gateway makes a keypair, the     *)
(* sender encapsulates to the public key it was given, the ciphertext may  *)
(* be changed on the way, and the gateway decapsulates with the keypair it *)
(* has by then.  A computation is a job that goes through the stages of    *)
(* indcpa.c; its polynomials are computed as the code computes them, while *)
(* hash values are terms.                                                  *)
(***************************************************************************)
EXTENDS KyberPoly

CONSTANTS
    Coins,              \* the random strings that keypairs are made from
    Messages,           \* those that secrets are made from, as 32 bytes
    Xof(_, _, _),       \* a polynomial sampled from a seed and two bytes
    Prf(_, _),          \* the 192 bytes for a seed and a nonce
    Changes(_),         \* what a ciphertext may become on the way
    MaxKeypairs         \* keypairs made

KemAssumption == \A m \in Messages : m \in [0..31 -> 0..255]

VARIABLES
    job,        \* the computation that is going on, or Idle
    keypair,    \* the gateway's pk and sk, or <<>>
    made,       \* keypairs made so far
    given,      \* the public key that the sender was given, or <<>>
    sent,       \* the ciphertext and the secret that the sender made, or <<>>
    ct,         \* the ciphertext on its way, or <<>>
    ss          \* the secret that the gateway found, or <<>>

vars == <<job, keypair, made, given, sent, ct, ss>>

Idle == [stage |-> "idle"]
None == <<>>

\* Terms for hashes and for the halves of a string of 64 bytes.
hash_h(x) == <<"h", x>>
hash_g(x, y) == <<"g", x, y>>
rkprf(z, c) == <<"rkprf", z, c>>
Left(x) == <<"left", x>>
Right(x) == <<"right", x>>

Init ==
    /\ job = Idle /\ keypair = None /\ made = 0
    /\ given = None /\ sent = None /\ ct = None /\ ss = None

\* Mutant of gen_matrix: the encryption takes the same matrix as the keypair.
gen_matrix_untransposed(seed, transposed) == [i \in Vec |-> [j \in Vec |-> Xof(seed, j, i)]]

\* The rows of the matrix, or of its transpose.
gen_matrix(seed, transposed) ==
    [i \in Vec |-> [j \in Vec |-> IF transposed THEN Xof(seed, i, j) ELSE Xof(seed, j, i)]]

-----------------------------------------------------------------------------
(* crypto_kem_keypair.                                                     *)

\* The coins are whatever randombytes leaves in its buffer: what it drew from
\* the generator, or, if that failed, what was there before.
KeypairNoise ==
    /\ job = Idle
    /\ made < MaxKeypairs
    /\ \E coins \in Coins :
         LET g == hash_g(Left(coins), <<"k">>)
         IN  job' = [stage |-> "keypair noise", seed |-> Left(g), z |-> Right(coins),
                     a |-> gen_matrix(Left(g), FALSE),
                     skpv |-> [i \in Vec |-> cbd3(Prf(Right(g), i))],
                     e |-> [i \in Vec |-> cbd3(Prf(Right(g), 2 + i))]]
    /\ made' = made + 1
    /\ UNCHANGED <<keypair, given, sent, ct, ss>>

KeypairNtt ==
    /\ job.stage = "keypair noise"
    /\ job' = [job EXCEPT !.stage = "keypair ntt",
                          !.skpv = polyvec_ntt(@), !.e = polyvec_ntt(@)]
    /\ UNCHANGED <<keypair, made, given, sent, ct, ss>>

\* The product with the matrix, and the packing of both keys.
KeypairPack ==
    /\ job.stage = "keypair ntt"
    /\ LET as == [i \in Vec |-> poly_tomont(polyvec_basemul_acc_montgomery(job.a[i], job.skpv))]
           pkpv == polyvec_reduce(polyvec_add(as, job.e))
           pk == [t |-> [i \in Vec |-> poly_tobytes(pkpv[i])], seed |-> job.seed]
       IN  keypair' = [pk |-> pk,
                       sk |-> [s |-> [i \in Vec |-> poly_tobytes(job.skpv[i])],
                               pk |-> pk, h |-> hash_h(pk), z |-> job.z]]
    /\ job' = Idle
    /\ ss' = None
    /\ UNCHANGED <<made, given, sent, ct>>

\* The public key reaches the sender (GET pqkem-pk).
Give ==
    /\ job = Idle
    /\ keypair # None
    /\ given' = keypair.pk
    /\ sent' = None /\ ct' = None /\ ss' = None
    /\ UNCHANGED <<job, keypair, made>>

-----------------------------------------------------------------------------
(* indcpa_enc, which both boards run: the sender on a message of its own,  *)
(* the gateway on the one that it decrypted.                               *)

\* kr is the secret and the coins of the encryption.
Encrypting(who, m, pk, h) ==
    LET kr == hash_g(m, h)
    IN  [stage |-> "enc noise", who |-> who, m |-> m, pk |-> pk, kr |-> kr,
         sp |-> [i \in Vec |-> cbd3(Prf(Right(kr), i))],
         ep |-> [i \in Vec |-> cbd2(Prf(Right(kr), 2 + i))],
         epp |-> cbd2(Prf(Right(kr), 4))]

\* crypto_kem_enc draws a message.
Encapsulate ==
    /\ job = Idle
    /\ given # None /\ sent = None
    /\ \E m \in Messages : job' = Encrypting("sender", m, given, hash_h(given))
    /\ UNCHANGED <<keypair, made, given, sent, ct, ss>>

EncNtt ==
    /\ job.stage = "enc noise"
    /\ job' = [job EXCEPT !.stage = "enc ntt", !.sp = polyvec_ntt(@)]
    /\ UNCHANGED <<keypair, made, given, sent, ct, ss>>

\* The products with the transposed matrix and with the key.
EncMultiply ==
    /\ job.stage = "enc ntt"
    /\ LET at == gen_matrix(job.pk.seed, TRUE)
           pkpv == [i \in Vec |-> poly_frombytes(job.pk.t[i])]
       IN  job' = [stage |-> "enc product", who |-> job.who, m |-> job.m, kr |-> job.kr,
                   ep |-> job.ep, epp |-> job.epp,
                   b |-> [i \in Vec |-> polyvec_basemul_acc_montgomery(at[i], job.sp)],
                   v |-> polyvec_basemul_acc_montgomery(pkpv, job.sp)]
    /\ UNCHANGED <<keypair, made, given, sent, ct, ss>>

EncInverse ==
    /\ job.stage = "enc product"
    /\ job' = [job EXCEPT !.stage = "enc inverse",
                          !.b = polyvec_invntt_tomont(@), !.v = invntt(@)]
    /\ UNCHANGED <<keypair, made, given, sent, ct, ss>>

\* Noise and message are added.
EncAdd ==
    /\ job.stage = "enc inverse"
    /\ job' = [job EXCEPT !.stage = "enc sum",
                          !.b = polyvec_reduce(polyvec_add(@, job.ep)),
                          !.v = poly_reduce(poly_add(poly_add(@, job.epp), poly_frommsg(job.m)))]
    /\ UNCHANGED <<keypair, made, given, sent, ct, ss>>

pack_ciphertext(b, v) == [b |-> polyvec_compress(b), v |-> poly_compress(v)]

\* Mutant of verify: the comparison ends with the first part.
verify_first_part(c, d) == c.b # d.b

\* Whether two ciphertexts differ.
verify(c, d) == c # d

\* The end of crypto_kem_enc at the sender and of crypto_kem_dec at the
\* gateway, where a ciphertext that differs from the one on its way makes a
\* pseudo-random secret; neither call fails.
EncPack ==
    /\ job.stage = "enc sum"
    /\ LET c == pack_ciphertext(job.b, job.v)
       IN  \/ /\ job.who = "sender"
              /\ sent' = [ct |-> c, ss |-> Left(job.kr)]
              /\ ct' = c
              /\ UNCHANGED ss
           \/ /\ job.who = "gateway"
              /\ ss' = IF verify(ct, c) THEN rkprf(keypair.sk.z, ct) ELSE Left(job.kr)
              /\ UNCHANGED <<sent, ct>>
    /\ job' = Idle
    /\ UNCHANGED <<keypair, made, given>>

\* Bytes of the ciphertext change on the way.
Change ==
    /\ job = Idle
    /\ ct # None /\ ct = sent.ct /\ ss = None
    /\ ct' \in Changes(ct)
    /\ UNCHANGED <<job, keypair, made, given, sent, ss>>

-----------------------------------------------------------------------------
(* indcpa_dec, the beginning of crypto_kem_dec.                            *)

Decapsulate ==
    /\ job = Idle
    /\ ct # None /\ ss = None
    /\ job' = [stage |-> "dec unpacked",
               b |-> polyvec_decompress(ct.b), v |-> poly_decompress(ct.v)]
    /\ UNCHANGED <<keypair, made, given, sent, ct, ss>>

DecNtt ==
    /\ job.stage = "dec unpacked"
    /\ job' = [job EXCEPT !.stage = "dec ntt", !.b = polyvec_ntt(@)]
    /\ UNCHANGED <<keypair, made, given, sent, ct, ss>>

DecMultiply ==
    /\ job.stage = "dec ntt"
    /\ LET skpv == [i \in Vec |-> poly_frombytes(keypair.sk.s[i])]
       IN  job' = [stage |-> "dec product", v |-> job.v,
                   mp |-> polyvec_basemul_acc_montgomery(skpv, job.b)]
    /\ UNCHANGED <<keypair, made, given, sent, ct, ss>>

DecSubtract ==
    /\ job.stage = "dec product"
    /\ job' = [stage |-> "dec message", mp |-> poly_reduce(poly_sub(job.v, invntt(job.mp)))]
    /\ UNCHANGED <<keypair, made, given, sent, ct, ss>>

\* The message is encrypted again with the hash that is kept in the key.
DecReencrypt ==
    /\ job.stage = "dec message"
    /\ job' = Encrypting("gateway", poly_tomsg(job.mp), keypair.sk.pk, keypair.sk.h)
    /\ UNCHANGED <<keypair, made, given, sent, ct, ss>>

Next ==
    \/ KeypairNoise \/ KeypairNtt \/ KeypairPack
    \/ Give
    \/ Encapsulate \/ EncNtt \/ EncMultiply \/ EncInverse \/ EncAdd \/ EncPack
    \/ Change
    \/ Decapsulate \/ DecNtt \/ DecMultiply \/ DecSubtract \/ DecReencrypt

Spec == Init /\ [][Next]_vars

-----------------------------------------------------------------------------
(* Properties *)

\* With the keypair that the public key belongs to, and a ciphertext that
\* arrives as it was sent, the gateway finds the secret that the sender has
\* (crypto_kem_enc against crypto_kem_dec, through every rounding between).
SecretsAgree ==
    ss # None /\ given = keypair.pk /\ ct = sent.ct => ss = sent.ss

\* With another keypair or another ciphertext it finds a secret that the
\* sender does not have, made from the z of its own keypair, though the call
\* succeeds (the comparison with the re-encryption and cmov in crypto_kem_dec).
RejectsImplicitly ==
    ss # None /\ (given # keypair.pk \/ ct # sent.ct) => ss = rkprf(keypair.sk.z, ct)

Within(p, bound) == \A j \in Index : p[j] \in -bound..bound

Eta1 == 3                   \* KYBER_ETA1, the magnitude of the noise
Half == (Q - 1) \div 2      \* of what is reduced
Less == Q - 1               \* of what comes out of invntt

\* The ranges that the arithmetic relies on: int16_t holds every sum on the
\* way because each stage begins and ends with coefficients as small as
\* these, whatever the seeds and the ciphertext (reduce.c, ntt.c, the calls
\* of poly_reduce in indcpa.c).
Reduced ==
    /\ job.stage = "keypair noise" => \A i \in Vec : Within(job.skpv[i], Eta1) /\ Within(job.e[i], Eta1)
    /\ job.stage = "keypair ntt" => \A i \in Vec : Within(job.skpv[i], Half) /\ Within(job.e[i], Half)
    /\ job.stage = "enc noise" => \A i \in Vec : Within(job.sp[i], Eta1)
    /\ job.stage = "enc ntt" => \A i \in Vec : Within(job.sp[i], Half)
    /\ job.stage \in {"enc product", "enc sum"} =>
          Within(job.v, Half) /\ \A i \in Vec : Within(job.b[i], Half)
    /\ job.stage = "enc inverse" =>
          Within(job.v, Less) /\ \A i \in Vec : Within(job.b[i], Less)
    /\ job.stage = "dec unpacked" =>
          Within(job.v, Q) /\ \A i \in Vec : Within(job.b[i], Q)
    /\ job.stage = "dec ntt" => \A i \in Vec : Within(job.b[i], Half)
    /\ job.stage \in {"dec product", "dec message"} => Within(job.mp, Half)
=============================================================================
