------------------------------ MODULE KyberPoly ------------------------------
(***************************************************************************)
(* Polynomials of 256 coefficients: the number-theoretic transform, the    *)
(* products in its domain, and how polynomials become bytes and back.      *)
(***************************************************************************)
EXTENDS KyberArith, Sequences

Index == 0..255

zetas == <<
  -1044,  -758,  -359, -1517,  1493,  1422,   287,   202,
   -171,   622,  1577,   182,   962, -1202, -1474,  1468,
    573, -1325,   264,   383,  -829,  1458, -1602,  -130,
   -681,  1017,   732,   608, -1542,   411,  -205, -1571,
   1223,   652,  -552,  1015, -1293,  1491,  -282, -1544,
    516,    -8,  -320,  -666, -1618, -1162,   126,  1469,
   -853,   -90,  -271,   830,   107, -1421,  -247,  -951,
   -398,   961, -1508,  -725,   448, -1065,   677, -1275,
  -1103,   430,   555,   843, -1251,   871,  1550,   105,
    422,   587,   177,  -235,  -291,  -460,  1574,  1653,
   -246,   778,  1159,  -147,  -777,  1483,  -602,  1119,
  -1590,   644,  -872,   349,   418,   329,  -156,   -75,
    817,  1097,   603,   610,  1322, -1285, -1465,   384,
  -1215,  -136,  1218, -1335,  -874,   220, -1187, -1659,
  -1185, -1530, -1278,   794, -1510,  -854,  -870,   478,
   -108,  -308,   996,   991,   958, -1460,  1522,  1628 >>

Zeta(k) == zetas[k + 1]

poly_add(a, b) == [j \in Index |-> Wrap16(a[j] + b[j])]
poly_sub(a, b) == [j \in Index |-> Wrap16(a[j] - b[j])]
poly_reduce(a) == [j \in Index |-> barrett_reduce(a[j])]

\* 1353 is 2^32 mod q.
poly_tomont(a) == [j \in Index |-> montgomery_reduce(a[j] * 1353)]

-----------------------------------------------------------------------------
(* The transform.  A layer pairs the coefficients that are len apart.      *)

Upper(j, len) == j % (2 * len) >= len
Block(j, len) == j \div (2 * len)

\* Layers of ntt go through the zetas upwards: 128/len of them are before.
NttLayer(r, len) ==
    [j \in Index |->
        LET zeta == Zeta(128 \div len + Block(j, len))
        IN  IF Upper(j, len) THEN Wrap16(r[j - len] - fqmul(zeta, r[j]))
            ELSE Wrap16(r[j] + fqmul(zeta, r[j + len]))]

ntt(r) ==
    NttLayer(NttLayer(NttLayer(NttLayer(NttLayer(NttLayer(NttLayer(r,
        128), 64), 32), 16), 8), 4), 2)

\* Layers of invntt go through them downwards.
InvNttLayer(r, len) ==
    [j \in Index |->
        LET zeta == Zeta(256 \div len - 1 - Block(j, len))
        IN  IF Upper(j, len) THEN fqmul(zeta, Wrap16(r[j] - r[j - len]))
            ELSE barrett_reduce(Wrap16(r[j] + r[j + len]))]

\* 1441 is 2^32/128 mod q.
invntt(r) ==
    LET s == InvNttLayer(InvNttLayer(InvNttLayer(InvNttLayer(InvNttLayer(InvNttLayer(
                InvNttLayer(r, 2), 4), 8), 16), 32), 64), 128)
    IN  [j \in Index |-> fqmul(s[j], 1441)]

poly_ntt(r) == poly_reduce(ntt(r))

\* The product of two pairs modulo X^2 - zeta, for the pair that j is in.
basemul(a, b, zeta, j) ==
    LET lo == j - (j % 2)
        hi == lo + 1
    IN  IF j = lo
        THEN Wrap16(fqmul(fqmul(a[hi], b[hi]), zeta) + fqmul(a[lo], b[lo]))
        ELSE Wrap16(fqmul(a[lo], b[hi]) + fqmul(a[hi], b[lo]))

poly_basemul_montgomery(a, b) ==
    [j \in Index |->
        LET zeta == Zeta(64 + j \div 4)
        IN  basemul(a, b, IF j % 4 < 2 THEN zeta ELSE -zeta, j)]

-----------------------------------------------------------------------------
(* Vectors of KYBER_K = 2 polynomials.                                     *)

Vec == 0..1

polyvec_ntt(v) == [i \in Vec |-> poly_ntt(v[i])]
polyvec_invntt_tomont(v) == [i \in Vec |-> invntt(v[i])]
polyvec_reduce(v) == [i \in Vec |-> poly_reduce(v[i])]
polyvec_add(v, w) == [i \in Vec |-> poly_add(v[i], w[i])]

polyvec_basemul_acc_montgomery(v, w) ==
    poly_reduce(poly_add(poly_basemul_montgomery(v[0], w[0]),
                         poly_basemul_montgomery(v[1], w[1])))

-----------------------------------------------------------------------------
(* Bytes.  A byte string is a function from 0.                             *)

\* Pairs of 12-bit coefficients in three bytes.
poly_tobytes(a) ==
    [n \in 0..383 |->
        LET t0 == Positive(a[2 * (n \div 3)])
            t1 == Positive(a[2 * (n \div 3) + 1])
        IN  CASE n % 3 = 0 -> t0 % 256
              [] n % 3 = 1 -> t0 \div 256 + ((t1 * 16) % 256)
              [] OTHER -> t1 \div 16]

poly_frombytes(s) ==
    [j \in Index |->
        LET n == 3 * (j \div 2)
        IN  IF j % 2 = 0 THEN (s[n] + 256 * s[n + 1]) % 4096
            ELSE s[n + 1] \div 16 + 16 * s[n + 2]]

\* Four 10-bit coefficients in five bytes.
polyvec_compress(v) ==
    [n \in 0..639 |->
        LET t == [k \in 0..3 |-> Compress10(v[n \div 320][(4 * ((n % 320) \div 5)) + k])]
        IN  CASE n % 5 = 0 -> t[0] % 256
              [] n % 5 = 1 -> t[0] \div 256 + ((t[1] * 4) % 256)
              [] n % 5 = 2 -> t[1] \div 64 + ((t[2] * 16) % 256)
              [] n % 5 = 3 -> t[2] \div 16 + ((t[3] * 64) % 256)
              [] OTHER -> t[3] \div 4]

polyvec_decompress(s) ==
    [i \in Vec |-> [j \in Index |->
        LET n == 320 * i + 5 * (j \div 4)
            k == j % 4
        IN  Decompress10((s[n + k] \div 4^k + 4^(4 - k) * s[n + k + 1]) % 1024)]]

\* Two 4-bit coefficients in a byte.
poly_compress(a) ==
    [n \in 0..127 |-> Compress4(a[2 * n]) + 16 * Compress4(a[2 * n + 1])]

poly_decompress(s) ==
    [j \in Index |->
        Decompress4(IF j % 2 = 0 THEN s[j \div 2] % 16 ELSE s[j \div 2] \div 16)]

Bit(s, n) == (s[n \div 8] \div 2^(n % 8)) % 2

poly_frommsg(msg) == [j \in Index |-> FromBit(Bit(msg, j))]

poly_tomsg(a) ==
    [n \in 0..31 |->
        LET b(i) == ToBit(a[8 * n + i]) * 2^i
        IN  b(0) + b(1) + b(2) + b(3) + b(4) + b(5) + b(6) + b(7)]

\* The difference of two sums of eta bits, for each coefficient: cbd2, cbd3.
cbd2(s) ==
    [j \in Index |-> Bit(s, 4 * j) + Bit(s, 4 * j + 1) - Bit(s, 4 * j + 2) - Bit(s, 4 * j + 3)]

cbd3(s) ==
    [j \in Index |-> Bit(s, 6 * j) + Bit(s, 6 * j + 1) + Bit(s, 6 * j + 2)
                     - Bit(s, 6 * j + 3) - Bit(s, 6 * j + 4) - Bit(s, 6 * j + 5)]
=============================================================================
