--------------------------- MODULE RoutineProofs ---------------------------
(***************************************************************************)
(* Proofs about the routines that the boards share, each for every input:  *)
(*   - ML-KEM: every coefficient that is packed or compressed is reduced,  *)
(*     through all the 16-bit arithmetic, the transforms and products      *)
(*     (the first third of the module), and the secret of the gateway is   *)
(*     that of the sender only for the same key and the same ciphertext;   *)
(*   - CoAP: coap_parse stays in its bounds and comes to an end, and reads *)
(*     what coap_build_simple wrote;                                       *)
(*   - rej_uniform: it samples in order, however the stream is cut;        *)
(*   - the sponge: its output does not depend on how input and output are  *)
(*     cut into calls, for any rate;                                       *)
(*   - the permutation: its unrolled rounds are those of FIPS 202;         *)
(*   - ML-KEM again: modulo q the transforms and products are exact, so    *)
(*     that a message comes back if and only if the noise is small enough, *)
(*     and both boards have the same secret (the last third).              *)
(* Each part bounds or rewrites the operators of its routine first, then   *)
(* gives the invariant, a lemma for each action, and the theorem.  A large *)
(* number is met only as a bound in an inequality or under a name: the     *)
(* provers do not survive a range that is spelt out.                       *)
(***************************************************************************)
EXTENDS Routines, SequenceTheorems, FiniteSetTheorems, TLAPS

-----------------------------------------------------------------------------
(* Arithmetic on one coefficient.                                          *)

\* What an int16_t holds.
Short(x) == x \in Int /\ -32768 <= x /\ x <= 32767

Between(x, b) == x \in Int /\ -b <= x /\ x <= b

\* An int16_t keeps what it is given, if that is small enough.
LEMMA Wrap16Fits == ASSUME NEW x, Short(x) PROVE Kem!Wrap16(x) = x
<1> DEFINE y == x + 32768
<1>1. y \in Int /\ 0 <= y /\ y < 65536 /\ x = y - 32768
  BY DEF Short
<1>2. Kem!Wrap16(x) = (y % 65536) - 32768
  BY DEF Kem!Wrap16
<1> HIDE DEF y
<1>3. y % 65536 = y
  BY <1>1
<1> QED
  BY <1>1, <1>2, <1>3

LEMMA Wrap16Range == ASSUME NEW x \in Int PROVE Short(Kem!Wrap16(x))
<1> DEFINE y == x + 32768
<1>1. y \in Int /\ Kem!Wrap16(x) = (y % 65536) - 32768
  BY DEF Kem!Wrap16
<1> HIDE DEF y
<1> DEFINE r == y % 65536
<1>2. r \in Int /\ 0 <= r /\ r < 65536 /\ Kem!Wrap16(x) = r - 32768
  BY <1>1
<1> HIDE DEF r
<1> QED
  BY <1>2 DEF Short

\* One turn more or less is not noticed.
LEMMA Wrap16Turns ==
  ASSUME NEW x, Short(x)
  PROVE  Kem!Wrap16(x + 65536) = x /\ Kem!Wrap16(x - 65536) = x
<1> DEFINE y == x + 32768
<1>1. y \in Int /\ 0 <= y /\ y < 65536 /\ x = y - 32768
  BY DEF Short
<1>2. /\ Kem!Wrap16(x + 65536) = ((x + 65536 + 32768) % 65536) - 32768
      /\ Kem!Wrap16(x - 65536) = ((x - 65536 + 32768) % 65536) - 32768
  BY DEF Kem!Wrap16
<1> HIDE DEF y
<1>3. (y + 65536) % 65536 = y /\ (y - 65536) % 65536 = y
  BY <1>1
<1>4. x + 65536 + 32768 = y + 65536 /\ x - 65536 + 32768 = y - 65536
  BY <1>1
<1> QED
  BY <1>1, <1>2, <1>3, <1>4

\* What a 16-bit difference loses, it loses twice.
LEMMA Wrap16Difference ==
  ASSUME NEW a \in Int, NEW x \in Int, -40000 <= x, x <= 40000, Short(a - x)
  PROVE  Kem!Wrap16(a - Kem!Wrap16(x)) = a - x
<1>1. CASE Short(x)
  BY <1>1, Wrap16Fits
<1>2. CASE x > 32767
  <2>1. Short(x - 65536)
    BY <1>2 DEF Short
  <2>2. Kem!Wrap16(x - 65536 + 65536) = x - 65536 /\ x - 65536 + 65536 = x
    BY <2>1, Wrap16Turns
  <2>3. Kem!Wrap16(x) = x - 65536
    BY <2>2
  <2>4. a - (x - 65536) = (a - x) + 65536
    OBVIOUS
  <2>5. Kem!Wrap16((a - x) + 65536) = a - x
    BY Wrap16Turns
  <2> QED
    BY <2>3, <2>4, <2>5
<1>3. CASE x < -32768
  <2>1. Short(x + 65536)
    BY <1>3 DEF Short
  <2>2. Kem!Wrap16(x + 65536 - 65536) = x + 65536 /\ x + 65536 - 65536 = x
    BY <2>1, Wrap16Turns
  <2>3. Kem!Wrap16(x) = x + 65536
    BY <2>2
  <2>4. a - (x + 65536) = (a - x) - 65536
    OBVIOUS
  <2>5. Kem!Wrap16((a - x) - 65536) = a - x
    BY Wrap16Turns
  <2> QED
    BY <2>3, <2>4, <2>5
<1> QED
  BY <1>1, <1>2, <1>3 DEF Short

\* barrett_reduce leaves a coefficient no larger than half of q, although the
\* multiple of q that it takes away may not fit in its 16 bits.
LEMMA BarrettTakes ==
  ASSUME NEW a, Short(a)
  PROVE  \E t \in Int : Kem!barrett_reduce(a) = a - t * 3329 /\ Between(a - t * 3329, 1664)
<1> DEFINE t == (20159 * a + 33554432) \div 67108864
<1>1. a \in Int /\ -32768 <= a /\ a <= 32767
  BY DEF Short
<1>2. t \in Int /\ 67108864 * t <= 20159 * a + 33554432 /\ 20159 * a + 33554432 < 67108864 * t + 67108864
  BY <1>1
<1>3. Kem!barrett_reduce(a) = Kem!Wrap16(a - Kem!Wrap16(t * 3329))
  BY DEF Kem!barrett_reduce, Kem!Q
<1> HIDE DEF t
<1>4. -10 <= t /\ t <= 10
  BY <1>1, <1>2
<1> DEFINE u == a - t * 3329
<1>5. u \in Int /\ a = u + t * 3329
  BY <1>1, <1>2
<1> HIDE DEF u
<1>6. -33558902 <= 20159 * u /\ 20159 * u <= 33558902
  BY <1>2, <1>4, <1>5
<1>7. -1664 <= u /\ u <= 1664
  BY <1>5, <1>6
<1> DEFINE x == t * 3329
<1>8. x \in Int /\ -40000 <= x /\ x <= 40000 /\ u = a - x
  BY <1>1, <1>2, <1>4 DEF u
<1> HIDE DEF x
<1>9. Short(a - x)
  BY <1>5, <1>7, <1>8 DEF Short
<1>10. Kem!Wrap16(a - Kem!Wrap16(x)) = a - x
  BY <1>1, <1>8, <1>9, Wrap16Difference
<1>11. Kem!barrett_reduce(a) = u
  BY <1>3, <1>8, <1>10 DEF x
<1>12. Kem!barrett_reduce(a) = a - t * 3329 /\ Between(a - t * 3329, 1664)
  BY <1>5, <1>7, <1>11 DEF Between, u
<1> QED
  BY <1>2, <1>12

LEMMA BarrettRange == ASSUME NEW a, Short(a) PROVE Between(Kem!barrett_reduce(a), 1664)
BY BarrettTakes

\* montgomery_reduce divides the magnitude by 2^16, up to half of q.
LEMMA MontgomeryRange ==
  ASSUME NEW c \in Nat, c <= 30000, NEW a, Between(a, 65536 * c)
  PROVE  Between(Kem!montgomery_reduce(a), c + 1665)
<1> DEFINE w == Kem!Wrap16(a)
           t == Kem!Wrap16(w * (-3327))
           n == a - t * 3329
           h == n \div 65536
<1>1. a \in Int /\ -(65536 * c) <= a /\ a <= 65536 * c
  BY DEF Between
<1>2. Kem!montgomery_reduce(a) = Kem!Wrap16(h)
  BY DEF Kem!montgomery_reduce, Kem!Q, Kem!QInv
<1>3. w \in Int
  BY <1>1, Wrap16Range DEF Short
<1> HIDE DEF w
<1>4. t \in Int /\ -32768 <= t /\ t <= 32767
  <2>1. w * (-3327) \in Int
    BY <1>3
  <2>2. Short(t)
    BY <2>1, Wrap16Range
  <2> QED
    BY <2>2 DEF Short
<1> HIDE DEF t
<1>5. n \in Int /\ n <= 65536 * c + 109084672 /\ n >= -(65536 * c) - 109084672
  BY <1>1, <1>4
<1> HIDE DEF n
<1>6. h \in Int /\ 65536 * h <= n /\ n < 65536 * h + 65536
  BY <1>5
<1> HIDE DEF h
<1>7. Between(h, c + 1665) /\ Short(h)
  BY <1>5, <1>6 DEF Between, Short
<1> QED
  BY <1>2, <1>7, Wrap16Fits

\* Any product comes out of it as an int16_t.
LEMMA MontgomeryShort == ASSUME NEW a \in Int PROVE Short(Kem!montgomery_reduce(a))
<1> DEFINE w == Kem!Wrap16(a)
           t == Kem!Wrap16(w * (-3327))
           h == (a - t * 3329) \div 65536
<1>1. Kem!montgomery_reduce(a) = Kem!Wrap16(h)
  BY DEF Kem!montgomery_reduce, Kem!Q, Kem!QInv
<1>2. w \in Int
  BY Wrap16Range DEF Short
<1> HIDE DEF w
<1>3. t \in Int
  <2>1. w * (-3327) \in Int
    BY <1>2
  <2> QED
    BY <2>1, Wrap16Range DEF Short
<1> HIDE DEF t
<1>4. h \in Int
  BY <1>3
<1> HIDE DEF h
<1> QED
  BY <1>1, <1>4, Wrap16Range

LEMMA FqmulShort == ASSUME NEW a \in Int, NEW b \in Int PROVE Short(Kem!fqmul(a, b))
<1> DEFINE p == a * b
<1>1. p \in Int /\ Kem!fqmul(a, b) = Kem!montgomery_reduce(p)
  BY DEF Kem!fqmul
<1> HIDE DEF p
<1> QED
  BY <1>1, MontgomeryShort

LEMMA FqmulInt == ASSUME NEW a \in Int, NEW b \in Int PROVE Kem!fqmul(a, b) \in Int
BY FqmulShort DEF Short

\* The constants of the transform.
LEMMA ZetaRange == \A k \in Int : 0 <= k /\ k <= 127 => Between(Kem!Zeta(k), 1659)
<1>1. \A k \in 1..128 : Kem!zetas[k] \in Int /\ -1659 <= Kem!zetas[k] /\ Kem!zetas[k] <= 1659
  BY DEF Kem!zetas
<1>2. \A k \in Int : 0 <= k /\ k <= 127 => k + 1 \in 1..128
  OBVIOUS
<1> QED
  BY <1>1, <1>2 DEF Between, Kem!Zeta

\* A product with one of them is less than q.
LEMMA FqmulZetaRange ==
  ASSUME NEW z, Between(z, 1659), NEW b, Short(b)
  PROVE  Between(Kem!fqmul(z, b), 2495)
<1> DEFINE p == z * b
<1>1. z \in Int /\ -1659 <= z /\ z <= 1659 /\ b \in Int /\ -32768 <= b /\ b <= 32767
  BY DEF Between, Short
<1>2. p \in Int /\ -54394880 <= p /\ p <= 54394880
  <2>1. CASE b >= 0
    <3>1. -1659 * b <= z * b /\ z * b <= 1659 * b
      BY <1>1, <2>1
    <3> QED
      BY <1>1, <3>1
  <2>2. CASE b < 0
    <3>1. 1659 * b <= z * b /\ z * b <= -1659 * b
      BY <1>1, <2>2
    <3> QED
      BY <1>1, <3>1
  <2> QED
    BY <1>1, <2>1, <2>2
<1>3. Kem!fqmul(z, b) = Kem!montgomery_reduce(p)
  BY DEF Kem!fqmul
<1> HIDE DEF p
<1>4. Between(p, 65536 * 830)
  BY <1>2 DEF Between
<1> QED
  BY <1>3, <1>4, MontgomeryRange DEF Between

-----------------------------------------------------------------------------
(* Polynomials.                                                            *)

IntPoly(p) == \A j \in Kem!Index : p[j] \in Int
ShortPoly(p) == \A j \in Kem!Index : Short(p[j])

LEMMA IndexMeans == \A j : j \in Kem!Index <=> j \in Int /\ 0 <= j /\ j <= 255
BY DEF Kem!Index

LEMMA WithinMeans ==
  ASSUME NEW p, NEW b \in Nat
  PROVE  Kem!Within(p, b) <=> \A j \in Kem!Index : Between(p[j], b)
BY DEF Kem!Within, Between

LEMMA WithinIsInt == ASSUME NEW p, NEW b \in Nat, Kem!Within(p, b) PROVE IntPoly(p)
BY WithinMeans DEF IntPoly, Between

LEMMA ShortIsInt == ASSUME NEW p, ShortPoly(p) PROVE IntPoly(p)
BY DEF IntPoly, ShortPoly, Short

LEMMA AddShort ==
  ASSUME NEW a, NEW b, IntPoly(a), IntPoly(b)
  PROVE  ShortPoly(Kem!poly_add(a, b)) /\ ShortPoly(Kem!poly_sub(a, b))
<1> SUFFICES ASSUME NEW j \in Kem!Index
             PROVE  Short(Kem!poly_add(a, b)[j]) /\ Short(Kem!poly_sub(a, b)[j])
  BY DEF ShortPoly
<1>1. a[j] \in Int /\ b[j] \in Int
  BY DEF IntPoly
<1>2. a[j] + b[j] \in Int /\ a[j] - b[j] \in Int
  BY <1>1
<1>3. /\ Kem!poly_add(a, b)[j] = Kem!Wrap16(a[j] + b[j])
      /\ Kem!poly_sub(a, b)[j] = Kem!Wrap16(a[j] - b[j])
  BY DEF Kem!poly_add, Kem!poly_sub
<1> QED
  BY <1>2, <1>3, Wrap16Range

LEMMA ReduceWithin ==
  ASSUME NEW a, ShortPoly(a)
  PROVE  Kem!Within(Kem!poly_reduce(a), 1664)
<1>1. \A j \in Kem!Index : Between(Kem!poly_reduce(a)[j], 1664)
  <2> SUFFICES ASSUME NEW j \in Kem!Index PROVE Between(Kem!poly_reduce(a)[j], 1664)
    OBVIOUS
  <2>1. Kem!poly_reduce(a)[j] = Kem!barrett_reduce(a[j])
    BY DEF Kem!poly_reduce
  <2> QED
    BY <2>1, BarrettRange DEF ShortPoly
<1> QED
  BY <1>1, WithinMeans

LEMMA TomontShort == ASSUME NEW a, IntPoly(a) PROVE ShortPoly(Kem!poly_tomont(a))
<1> SUFFICES ASSUME NEW j \in Kem!Index PROVE Short(Kem!poly_tomont(a)[j])
  BY DEF ShortPoly
<1>1. a[j] * 1353 \in Int
  BY DEF IntPoly
<1>2. Kem!poly_tomont(a)[j] = Kem!montgomery_reduce(a[j] * 1353)
  BY DEF Kem!poly_tomont
<1> QED
  BY <1>1, <1>2, MontgomeryShort

-----------------------------------------------------------------------------
(* The transform and its inverse.                                          *)

Lengths == {2, 4, 8, 16, 32, 64, 128}

\* A layer finds the other coefficient of each pair, and a zeta for it.
LEMMA LayerIndex ==
  ASSUME NEW len \in Lengths, NEW j \in Kem!Index
  PROVE  /\ Kem!Upper(j, len) => j - len \in Kem!Index
         /\ ~Kem!Upper(j, len) => j + len \in Kem!Index
         /\ Between(Kem!Zeta(128 \div len + Kem!Block(j, len)), 1659)
         /\ Between(Kem!Zeta(256 \div len - 1 - Kem!Block(j, len)), 1659)
<1> DEFINE up == 128 \div len + Kem!Block(j, len)
           down == 256 \div len - 1 - Kem!Block(j, len)
<1>1. j \in Int /\ 0 <= j /\ j <= 255
  BY IndexMeans
<1>2. CASE len = 2
  <2> DEFINE m == j % 4
             d == j \div 4
  <2>1. Kem!Upper(j, len) <=> m >= 2
    BY <1>2 DEF Kem!Upper
  <2>2. up = 64 + d /\ down = 127 - d
    BY <1>2 DEF Kem!Block
  <2>3. m \in Int /\ d \in Int /\ 0 <= m /\ m < 4 /\ j = 4 * d + m /\ 0 <= d /\ d <= 63
    BY <1>1
  <2> HIDE DEF m, d
  <2>4. /\ Kem!Upper(j, len) => j - 2 \in Int /\ 0 <= j - 2 /\ j - 2 <= 255
        /\ ~Kem!Upper(j, len) => j + 2 \in Int /\ 0 <= j + 2 /\ j + 2 <= 255
    BY <1>1, <2>1, <2>3
  <2>5. up \in Int /\ 0 <= up /\ up <= 127 /\ down \in Int /\ 0 <= down /\ down <= 127
    BY <2>2, <2>3
  <2> HIDE DEF up, down
  <2>6. Between(Kem!Zeta(up), 1659) /\ Between(Kem!Zeta(down), 1659)
    BY <2>5, ZetaRange
  <2> QED
    BY <1>2, <2>4, <2>6, IndexMeans DEF up, down
<1>3. CASE len = 4
  <2> DEFINE m == j % 8
             d == j \div 8
  <2>1. Kem!Upper(j, len) <=> m >= 4
    BY <1>3 DEF Kem!Upper
  <2>2. up = 32 + d /\ down = 63 - d
    BY <1>3 DEF Kem!Block
  <2>3. m \in Int /\ d \in Int /\ 0 <= m /\ m < 8 /\ j = 8 * d + m /\ 0 <= d /\ d <= 31
    BY <1>1
  <2> HIDE DEF m, d
  <2>4. /\ Kem!Upper(j, len) => j - 4 \in Int /\ 0 <= j - 4 /\ j - 4 <= 255
        /\ ~Kem!Upper(j, len) => j + 4 \in Int /\ 0 <= j + 4 /\ j + 4 <= 255
    BY <1>1, <2>1, <2>3
  <2>5. up \in Int /\ 0 <= up /\ up <= 127 /\ down \in Int /\ 0 <= down /\ down <= 127
    BY <2>2, <2>3
  <2> HIDE DEF up, down
  <2>6. Between(Kem!Zeta(up), 1659) /\ Between(Kem!Zeta(down), 1659)
    BY <2>5, ZetaRange
  <2> QED
    BY <1>3, <2>4, <2>6, IndexMeans DEF up, down
<1>4. CASE len = 8
  <2> DEFINE m == j % 16
             d == j \div 16
  <2>1. Kem!Upper(j, len) <=> m >= 8
    BY <1>4 DEF Kem!Upper
  <2>2. up = 16 + d /\ down = 31 - d
    BY <1>4 DEF Kem!Block
  <2>3. m \in Int /\ d \in Int /\ 0 <= m /\ m < 16 /\ j = 16 * d + m /\ 0 <= d /\ d <= 15
    BY <1>1
  <2> HIDE DEF m, d
  <2>4. /\ Kem!Upper(j, len) => j - 8 \in Int /\ 0 <= j - 8 /\ j - 8 <= 255
        /\ ~Kem!Upper(j, len) => j + 8 \in Int /\ 0 <= j + 8 /\ j + 8 <= 255
    BY <1>1, <2>1, <2>3
  <2>5. up \in Int /\ 0 <= up /\ up <= 127 /\ down \in Int /\ 0 <= down /\ down <= 127
    BY <2>2, <2>3
  <2> HIDE DEF up, down
  <2>6. Between(Kem!Zeta(up), 1659) /\ Between(Kem!Zeta(down), 1659)
    BY <2>5, ZetaRange
  <2> QED
    BY <1>4, <2>4, <2>6, IndexMeans DEF up, down
<1>5. CASE len = 16
  <2> DEFINE m == j % 32
             d == j \div 32
  <2>1. Kem!Upper(j, len) <=> m >= 16
    BY <1>5 DEF Kem!Upper
  <2>2. up = 8 + d /\ down = 15 - d
    BY <1>5 DEF Kem!Block
  <2>3. m \in Int /\ d \in Int /\ 0 <= m /\ m < 32 /\ j = 32 * d + m /\ 0 <= d /\ d <= 7
    BY <1>1
  <2> HIDE DEF m, d
  <2>4. /\ Kem!Upper(j, len) => j - 16 \in Int /\ 0 <= j - 16 /\ j - 16 <= 255
        /\ ~Kem!Upper(j, len) => j + 16 \in Int /\ 0 <= j + 16 /\ j + 16 <= 255
    BY <1>1, <2>1, <2>3
  <2>5. up \in Int /\ 0 <= up /\ up <= 127 /\ down \in Int /\ 0 <= down /\ down <= 127
    BY <2>2, <2>3
  <2> HIDE DEF up, down
  <2>6. Between(Kem!Zeta(up), 1659) /\ Between(Kem!Zeta(down), 1659)
    BY <2>5, ZetaRange
  <2> QED
    BY <1>5, <2>4, <2>6, IndexMeans DEF up, down
<1>6. CASE len = 32
  <2> DEFINE m == j % 64
             d == j \div 64
  <2>1. Kem!Upper(j, len) <=> m >= 32
    BY <1>6 DEF Kem!Upper
  <2>2. up = 4 + d /\ down = 7 - d
    BY <1>6 DEF Kem!Block
  <2>3. m \in Int /\ d \in Int /\ 0 <= m /\ m < 64 /\ j = 64 * d + m /\ 0 <= d /\ d <= 3
    BY <1>1
  <2> HIDE DEF m, d
  <2>4. /\ Kem!Upper(j, len) => j - 32 \in Int /\ 0 <= j - 32 /\ j - 32 <= 255
        /\ ~Kem!Upper(j, len) => j + 32 \in Int /\ 0 <= j + 32 /\ j + 32 <= 255
    BY <1>1, <2>1, <2>3
  <2>5. up \in Int /\ 0 <= up /\ up <= 127 /\ down \in Int /\ 0 <= down /\ down <= 127
    BY <2>2, <2>3
  <2> HIDE DEF up, down
  <2>6. Between(Kem!Zeta(up), 1659) /\ Between(Kem!Zeta(down), 1659)
    BY <2>5, ZetaRange
  <2> QED
    BY <1>6, <2>4, <2>6, IndexMeans DEF up, down
<1>7. CASE len = 64
  <2> DEFINE m == j % 128
             d == j \div 128
  <2>1. Kem!Upper(j, len) <=> m >= 64
    BY <1>7 DEF Kem!Upper
  <2>2. up = 2 + d /\ down = 3 - d
    BY <1>7 DEF Kem!Block
  <2>3. m \in Int /\ d \in Int /\ 0 <= m /\ m < 128 /\ j = 128 * d + m /\ 0 <= d /\ d <= 1
    BY <1>1
  <2> HIDE DEF m, d
  <2>4. /\ Kem!Upper(j, len) => j - 64 \in Int /\ 0 <= j - 64 /\ j - 64 <= 255
        /\ ~Kem!Upper(j, len) => j + 64 \in Int /\ 0 <= j + 64 /\ j + 64 <= 255
    BY <1>1, <2>1, <2>3
  <2>5. up \in Int /\ 0 <= up /\ up <= 127 /\ down \in Int /\ 0 <= down /\ down <= 127
    BY <2>2, <2>3
  <2> HIDE DEF up, down
  <2>6. Between(Kem!Zeta(up), 1659) /\ Between(Kem!Zeta(down), 1659)
    BY <2>5, ZetaRange
  <2> QED
    BY <1>7, <2>4, <2>6, IndexMeans DEF up, down
<1>8. CASE len = 128
  <2> DEFINE m == j % 256
             d == j \div 256
  <2>1. Kem!Upper(j, len) <=> m >= 128
    BY <1>8 DEF Kem!Upper
  <2>2. up = 1 + d /\ down = 1 - d
    BY <1>8 DEF Kem!Block
  <2>3. m \in Int /\ d \in Int /\ 0 <= m /\ m < 256 /\ j = 256 * d + m /\ 0 <= d /\ d <= 0
    BY <1>1
  <2> HIDE DEF m, d
  <2>4. /\ Kem!Upper(j, len) => j - 128 \in Int /\ 0 <= j - 128 /\ j - 128 <= 255
        /\ ~Kem!Upper(j, len) => j + 128 \in Int /\ 0 <= j + 128 /\ j + 128 <= 255
    BY <1>1, <2>1, <2>3
  <2>5. up \in Int /\ 0 <= up /\ up <= 127 /\ down \in Int /\ 0 <= down /\ down <= 127
    BY <2>2, <2>3
  <2> HIDE DEF up, down
  <2>6. Between(Kem!Zeta(up), 1659) /\ Between(Kem!Zeta(down), 1659)
    BY <2>5, ZetaRange
  <2> QED
    BY <1>8, <2>4, <2>6, IndexMeans DEF up, down
<1> QED
  BY <1>2, <1>3, <1>4, <1>5, <1>6, <1>7, <1>8 DEF Lengths

LEMMA NttLayerShort ==
  ASSUME NEW r, NEW len \in Lengths, ShortPoly(r)
  PROVE  ShortPoly(Kem!NttLayer(r, len))
<1> SUFFICES ASSUME NEW j \in Kem!Index PROVE Short(Kem!NttLayer(r, len)[j])
  BY DEF ShortPoly
<1> DEFINE zeta == Kem!Zeta(128 \div len + Kem!Block(j, len))
<1>1. Kem!NttLayer(r, len)[j] =
        IF Kem!Upper(j, len) THEN Kem!Wrap16(r[j - len] - Kem!fqmul(zeta, r[j]))
        ELSE Kem!Wrap16(r[j] + Kem!fqmul(zeta, r[j + len]))
  BY DEF Kem!NttLayer
<1>2. zeta \in Int
  BY LayerIndex DEF Between
<1> HIDE DEF zeta
<1>3. IntPoly(r) /\ r[j] \in Int
  BY ShortIsInt DEF IntPoly
<1>4. CASE Kem!Upper(j, len)
  <2>1. r[j - len] \in Int
    BY <1>3, <1>4, LayerIndex DEF IntPoly
  <2>2. Kem!fqmul(zeta, r[j]) \in Int
    BY <1>2, <1>3, FqmulInt
  <2>3. r[j - len] - Kem!fqmul(zeta, r[j]) \in Int
    BY <2>1, <2>2
  <2> QED
    BY <1>1, <1>4, <2>3, Wrap16Range
<1>5. CASE ~Kem!Upper(j, len)
  <2>1. r[j + len] \in Int
    BY <1>3, <1>5, LayerIndex DEF IntPoly
  <2>2. Kem!fqmul(zeta, r[j + len]) \in Int
    BY <1>2, <2>1, FqmulInt
  <2>3. r[j] + Kem!fqmul(zeta, r[j + len]) \in Int
    BY <1>3, <2>2
  <2> QED
    BY <1>1, <1>5, <2>3, Wrap16Range
<1> QED
  BY <1>4, <1>5

\* After its reduction a transform is as small as can be.
LEMMA NttWithin ==
  ASSUME NEW r, ShortPoly(r)
  PROVE  Kem!Within(Kem!poly_ntt(r), 1664)
<1> DEFINE r1 == Kem!NttLayer(r, 128)
           r2 == Kem!NttLayer(r1, 64)
           r3 == Kem!NttLayer(r2, 32)
           r4 == Kem!NttLayer(r3, 16)
           r5 == Kem!NttLayer(r4, 8)
           r6 == Kem!NttLayer(r5, 4)
           r7 == Kem!NttLayer(r6, 2)
<1>1. Kem!poly_ntt(r) = Kem!poly_reduce(r7)
  BY DEF Kem!poly_ntt, Kem!ntt
<1>2. {2, 4, 8, 16, 32, 64, 128} \subseteq Lengths
  BY DEF Lengths
<1>3. ShortPoly(r1)
  BY <1>2, NttLayerShort
<1> HIDE DEF r1
<1>4. ShortPoly(r2)
  BY <1>2, <1>3, NttLayerShort
<1> HIDE DEF r2
<1>5. ShortPoly(r3)
  BY <1>2, <1>4, NttLayerShort
<1> HIDE DEF r3
<1>6. ShortPoly(r4)
  BY <1>2, <1>5, NttLayerShort
<1> HIDE DEF r4
<1>7. ShortPoly(r5)
  BY <1>2, <1>6, NttLayerShort
<1> HIDE DEF r5
<1>8. ShortPoly(r6)
  BY <1>2, <1>7, NttLayerShort
<1> HIDE DEF r6
<1>9. ShortPoly(r7)
  BY <1>2, <1>8, NttLayerShort
<1> HIDE DEF r7
<1> QED
  BY <1>1, <1>9, ReduceWithin

LEMMA InvNttLayerWithin ==
  ASSUME NEW r, NEW len \in Lengths, IntPoly(r)
  PROVE  Kem!Within(Kem!InvNttLayer(r, len), 2495)
<1> SUFFICES ASSUME NEW j \in Kem!Index PROVE Between(Kem!InvNttLayer(r, len)[j], 2495)
  BY WithinMeans
<1> DEFINE zeta == Kem!Zeta(256 \div len - 1 - Kem!Block(j, len))
<1>1. Kem!InvNttLayer(r, len)[j] =
        IF Kem!Upper(j, len) THEN Kem!fqmul(zeta, Kem!Wrap16(r[j] - r[j - len]))
        ELSE Kem!barrett_reduce(Kem!Wrap16(r[j] + r[j + len]))
  BY DEF Kem!InvNttLayer
<1>2. Between(zeta, 1659)
  BY LayerIndex
<1> HIDE DEF zeta
<1>3. r[j] \in Int
  BY DEF IntPoly
<1>4. CASE Kem!Upper(j, len)
  <2>1. r[j] - r[j - len] \in Int
    BY <1>3, <1>4, LayerIndex DEF IntPoly
  <2>2. Short(Kem!Wrap16(r[j] - r[j - len]))
    BY <2>1, Wrap16Range
  <2> QED
    BY <1>1, <1>2, <1>4, <2>2, FqmulZetaRange
<1>5. CASE ~Kem!Upper(j, len)
  <2>1. r[j] + r[j + len] \in Int
    BY <1>3, <1>5, LayerIndex DEF IntPoly
  <2>2. Short(Kem!Wrap16(r[j] + r[j + len]))
    BY <2>1, Wrap16Range
  <2>3. Between(Kem!InvNttLayer(r, len)[j], 1664)
    BY <1>1, <1>5, <2>2, BarrettRange
  <2> QED
    BY <2>3 DEF Between
<1> QED
  BY <1>4, <1>5

\* The inverse is less than q in magnitude.
LEMMA InvNttWithin ==
  ASSUME NEW r, IntPoly(r)
  PROVE  Kem!Within(Kem!invntt(r), 3328)
<1> DEFINE r1 == Kem!InvNttLayer(r, 2)
           r2 == Kem!InvNttLayer(r1, 4)
           r3 == Kem!InvNttLayer(r2, 8)
           r4 == Kem!InvNttLayer(r3, 16)
           r5 == Kem!InvNttLayer(r4, 32)
           r6 == Kem!InvNttLayer(r5, 64)
           r7 == Kem!InvNttLayer(r6, 128)
<1>1. \A j \in Kem!Index : Kem!invntt(r)[j] = Kem!fqmul(r7[j], 1441)
  BY DEF Kem!invntt
<1>2. {2, 4, 8, 16, 32, 64, 128} \subseteq Lengths
  BY DEF Lengths
<1>3. IntPoly(r1)
  BY <1>2, InvNttLayerWithin, WithinIsInt
<1> HIDE DEF r1
<1>4. IntPoly(r2)
  BY <1>2, <1>3, InvNttLayerWithin, WithinIsInt
<1> HIDE DEF r2
<1>5. IntPoly(r3)
  BY <1>2, <1>4, InvNttLayerWithin, WithinIsInt
<1> HIDE DEF r3
<1>6. IntPoly(r4)
  BY <1>2, <1>5, InvNttLayerWithin, WithinIsInt
<1> HIDE DEF r4
<1>7. IntPoly(r5)
  BY <1>2, <1>6, InvNttLayerWithin, WithinIsInt
<1> HIDE DEF r5
<1>8. IntPoly(r6)
  BY <1>2, <1>7, InvNttLayerWithin, WithinIsInt
<1> HIDE DEF r6
<1>9. Kem!Within(r7, 2495)
  BY <1>2, <1>8, InvNttLayerWithin
<1> HIDE DEF r7
<1> SUFFICES ASSUME NEW j \in Kem!Index PROVE Between(Kem!invntt(r)[j], 3328)
  BY WithinMeans
<1>10. r7[j] \in Int /\ -2495 <= r7[j] /\ r7[j] <= 2495
  BY <1>9, WithinMeans DEF Between
<1> DEFINE p == r7[j] * 1441
<1>11. Between(p, 65536 * 55)
  BY <1>10 DEF Between
<1>12. Kem!invntt(r)[j] = Kem!montgomery_reduce(p)
  BY <1>1 DEF Kem!fqmul
<1> HIDE DEF p
<1>13. Between(Kem!montgomery_reduce(p), 55 + 1665)
  BY <1>11, MontgomeryRange
<1> QED
  BY <1>12, <1>13 DEF Between

-----------------------------------------------------------------------------
(* Products.                                                               *)

LEMMA BasemulShort ==
  ASSUME NEW a, NEW b, IntPoly(a), IntPoly(b), NEW zeta \in Int, NEW j \in Kem!Index
  PROVE  Short(Kem!basemul(a, b, zeta, j))
<1> DEFINE lo == j - (j % 2)
           hi == lo + 1
<1>1. lo \in Kem!Index /\ hi \in Kem!Index
  <2>1. j \in Int /\ 0 <= j /\ j <= 255
    BY IndexMeans
  <2>2. lo \in Int /\ 0 <= lo /\ lo <= 254
    BY <2>1
  <2> HIDE DEF lo
  <2> QED
    BY <2>2, IndexMeans
<1>2. Kem!basemul(a, b, zeta, j) =
        IF j = lo
        THEN Kem!Wrap16(Kem!fqmul(Kem!fqmul(a[hi], b[hi]), zeta) + Kem!fqmul(a[lo], b[lo]))
        ELSE Kem!Wrap16(Kem!fqmul(a[lo], b[hi]) + Kem!fqmul(a[hi], b[lo]))
  BY DEF Kem!basemul
<1> HIDE DEF lo, hi
<1>3. a[lo] \in Int /\ a[hi] \in Int /\ b[lo] \in Int /\ b[hi] \in Int
  BY <1>1 DEF IntPoly
<1>4. /\ Kem!fqmul(a[hi], b[hi]) \in Int /\ Kem!fqmul(a[lo], b[lo]) \in Int
      /\ Kem!fqmul(a[lo], b[hi]) \in Int /\ Kem!fqmul(a[hi], b[lo]) \in Int
  BY <1>3, FqmulInt
<1>5. Kem!fqmul(Kem!fqmul(a[hi], b[hi]), zeta) \in Int
  BY <1>4, FqmulInt
<1>6. CASE j = lo
  <2>1. Kem!fqmul(Kem!fqmul(a[hi], b[hi]), zeta) + Kem!fqmul(a[lo], b[lo]) \in Int
    BY <1>4, <1>5
  <2> QED
    BY <1>2, <1>6, <2>1, Wrap16Range
<1>7. CASE j # lo
  <2>1. Kem!fqmul(a[lo], b[hi]) + Kem!fqmul(a[hi], b[lo]) \in Int
    BY <1>4
  <2> QED
    BY <1>2, <1>7, <2>1, Wrap16Range
<1> QED
  BY <1>6, <1>7

LEMMA ProductShort ==
  ASSUME NEW a, NEW b, IntPoly(a), IntPoly(b)
  PROVE  ShortPoly(Kem!poly_basemul_montgomery(a, b))
<1> SUFFICES ASSUME NEW j \in Kem!Index PROVE Short(Kem!poly_basemul_montgomery(a, b)[j])
  BY DEF ShortPoly
<1> DEFINE k == 64 + j \div 4
           zeta == Kem!Zeta(k)
           signed == IF j % 4 < 2 THEN zeta ELSE -zeta
<1>1. k \in Int /\ 0 <= k /\ k <= 127
  BY IndexMeans
<1>2. Kem!poly_basemul_montgomery(a, b)[j] = Kem!basemul(a, b, signed, j)
  BY DEF Kem!poly_basemul_montgomery
<1> HIDE DEF k
<1>3. zeta \in Int
  BY <1>1, ZetaRange DEF Between
<1> HIDE DEF zeta
<1>4. signed \in Int
  BY <1>3
<1> HIDE DEF signed
<1> QED
  BY <1>2, <1>4, BasemulShort

IntVec(v) == \A i \in Kem!Vec : IntPoly(v[i])
VecWithin(v, b) == \A i \in Kem!Vec : Kem!Within(v[i], b)

\* A product of vectors is as small as can be, whatever its factors.
LEMMA AccWithin ==
  ASSUME NEW v, NEW w, IntVec(v), IntVec(w)
  PROVE  Kem!Within(Kem!polyvec_basemul_acc_montgomery(v, w), 1664)
<1> DEFINE p == Kem!poly_basemul_montgomery(v[0], w[0])
           q == Kem!poly_basemul_montgomery(v[1], w[1])
           s == Kem!poly_add(p, q)
<1>1. Kem!polyvec_basemul_acc_montgomery(v, w) = Kem!poly_reduce(s)
  BY DEF Kem!polyvec_basemul_acc_montgomery
<1>2. 0 \in Kem!Vec /\ 1 \in Kem!Vec
  BY DEF Kem!Vec
<1>3. IntPoly(p) /\ IntPoly(q)
  BY <1>2, ProductShort, ShortIsInt DEF IntVec
<1> HIDE DEF p, q
<1>4. ShortPoly(s)
  BY <1>3, AddShort
<1> HIDE DEF s
<1> QED
  BY <1>1, <1>4, ReduceWithin

-----------------------------------------------------------------------------
(* Bytes.                                                                  *)

Octet(x) == x \in Int /\ 0 <= x /\ x <= 255

\* The bytes 0 to last of a string.
Octets(s, last) == \A n \in Int : 0 <= n /\ n <= last => Octet(s[n])

LEMMA PowersOfTwo ==
  ASSUME NEW k \in Int, 0 <= k, k <= 7
  PROVE  2^k \in {1, 2, 4, 8, 16, 32, 64, 128}
<1>1. k = 0 => 2^k = 1
  OBVIOUS
<1>2. k = 1 => 2^k = 2
  OBVIOUS
<1>3. k = 2 => 2^k = 4
  OBVIOUS
<1>4. k = 3 => 2^k = 8
  OBVIOUS
<1>5. k = 4 => 2^k = 16
  OBVIOUS
<1>6. k = 5 => 2^k = 32
  OBVIOUS
<1>7. k = 6 => 2^k = 64
  OBVIOUS
<1>8. k = 7 => 2^k = 128
  OBVIOUS
<1>9. k \in {0, 1, 2, 3, 4, 5, 6, 7}
  OBVIOUS
<1> DEFINE p == 2^k
<1> HIDE DEF p
<1> QED
  BY <1>1, <1>2, <1>3, <1>4, <1>5, <1>6, <1>7, <1>8, <1>9 DEF p

LEMMA BitRange ==
  ASSUME NEW s, NEW n \in Int, 0 <= n, Octet(s[n \div 8])
  PROVE  Between(Kem!Bit(s, n), 1) /\ 0 <= Kem!Bit(s, n)
<1> DEFINE x == s[n \div 8]
           k == n % 8
           y == x \div 2^k
<1>1. Kem!Bit(s, n) = y % 2
  BY DEF Kem!Bit
<1>2. x \in Int /\ 0 <= x
  BY DEF Octet
<1> HIDE DEF x
<1>3. k \in Int /\ 0 <= k /\ k <= 7
  OBVIOUS
<1> HIDE DEF k
<1> DEFINE p == 2^k
<1>4. p \in {1, 2, 4, 8, 16, 32, 64, 128}
  BY <1>3, PowersOfTwo
<1>5. y = x \div p
  OBVIOUS
<1> HIDE DEF p
<1>6. y \in Int
  <2>1. /\ x \div 1 \in Int /\ x \div 2 \in Int /\ x \div 4 \in Int /\ x \div 8 \in Int
        /\ x \div 16 \in Int /\ x \div 32 \in Int /\ x \div 64 \in Int /\ x \div 128 \in Int
    BY <1>2
  <2> QED
    BY <1>4, <1>5, <2>1
<1> HIDE DEF y
<1> DEFINE b == y % 2
<1>7. b \in Int /\ 0 <= b /\ b <= 1
  BY <1>6
<1> HIDE DEF b
<1> QED
  BY <1>1, <1>7 DEF Between, b

\* The noise has the magnitudes that its distribution is named after.
LEMMA Cbd2Within == ASSUME NEW s, Octets(s, 191) PROVE Kem!Within(Kem!cbd2(s), 2)
<1> SUFFICES ASSUME NEW j \in Kem!Index PROVE Between(Kem!cbd2(s)[j], 2)
  BY WithinMeans
<1> DEFINE b(i) == Kem!Bit(s, 4 * j + i)
<1>1. Kem!cbd2(s)[j] = Kem!Bit(s, 4 * j) + b(1) - b(2) - b(3)
  BY DEF Kem!cbd2
<1>2. j \in Int /\ 0 <= j /\ j <= 255
  BY IndexMeans
<1>3. ASSUME NEW i \in Int, 0 <= i, i <= 3
      PROVE  Between(Kem!Bit(s, 4 * j + i), 1) /\ 0 <= Kem!Bit(s, 4 * j + i)
  <2> DEFINE n == 4 * j + i
  <2>1. n \in Int /\ 0 <= n /\ n <= 1023
    BY <1>2, <1>3
  <2> HIDE DEF n
  <2>2. n \div 8 \in Int /\ 0 <= n \div 8 /\ n \div 8 <= 191
    BY <2>1
  <2>3. Octet(s[n \div 8])
    BY <2>2 DEF Octets
  <2>4. Between(Kem!Bit(s, n), 1) /\ 0 <= Kem!Bit(s, n)
    BY <2>1, <2>3, BitRange
  <2> QED
    BY <2>4 DEF n
<1>4. Between(b(0), 1) /\ 0 <= b(0) /\ Between(b(1), 1) /\ 0 <= b(1)
  BY <1>3
<1>5. Between(b(2), 1) /\ 0 <= b(2) /\ Between(b(3), 1) /\ 0 <= b(3)
  BY <1>3
<1>6. b(0) = Kem!Bit(s, 4 * j)
  BY <1>2
<1> DEFINE b0 == b(0)   b1 == b(1)   b2 == b(2)   b3 == b(3)
<1>7. Kem!cbd2(s)[j] = b0 + b1 - b2 - b3
  BY <1>1, <1>6
<1>8. Between(b0, 1) /\ 0 <= b0 /\ Between(b1, 1) /\ 0 <= b1
  BY <1>4
<1>9. Between(b2, 1) /\ 0 <= b2 /\ Between(b3, 1) /\ 0 <= b3
  BY <1>5
<1> HIDE DEF b0, b1, b2, b3, b
<1> QED
  BY <1>7, <1>8, <1>9 DEF Between

LEMMA Cbd3Within == ASSUME NEW s, Octets(s, 191) PROVE Kem!Within(Kem!cbd3(s), 3)
<1> SUFFICES ASSUME NEW j \in Kem!Index PROVE Between(Kem!cbd3(s)[j], 3)
  BY WithinMeans
<1> DEFINE b(i) == Kem!Bit(s, 6 * j + i)
<1>1. Kem!cbd3(s)[j] = Kem!Bit(s, 6 * j) + b(1) + b(2) - b(3) - b(4) - b(5)
  BY DEF Kem!cbd3
<1>2. j \in Int /\ 0 <= j /\ j <= 255
  BY IndexMeans
<1>3. ASSUME NEW i \in Int, 0 <= i, i <= 5
      PROVE  Between(Kem!Bit(s, 6 * j + i), 1) /\ 0 <= Kem!Bit(s, 6 * j + i)
  <2> DEFINE n == 6 * j + i
  <2>1. n \in Int /\ 0 <= n /\ n <= 1535
    BY <1>2, <1>3
  <2> HIDE DEF n
  <2>2. n \div 8 \in Int /\ 0 <= n \div 8 /\ n \div 8 <= 191
    BY <2>1
  <2>3. Octet(s[n \div 8])
    BY <2>2 DEF Octets
  <2>4. Between(Kem!Bit(s, n), 1) /\ 0 <= Kem!Bit(s, n)
    BY <2>1, <2>3, BitRange
  <2> QED
    BY <2>4 DEF n
<1>4. Between(b(0), 1) /\ 0 <= b(0) /\ Between(b(1), 1) /\ 0 <= b(1)
  BY <1>3
<1>5. Between(b(2), 1) /\ 0 <= b(2) /\ Between(b(3), 1) /\ 0 <= b(3)
  BY <1>3
<1>6. Between(b(4), 1) /\ 0 <= b(4) /\ Between(b(5), 1) /\ 0 <= b(5)
  BY <1>3
<1>7. b(0) = Kem!Bit(s, 6 * j)
  BY <1>2
<1> DEFINE b0 == b(0)   b1 == b(1)   b2 == b(2)   b3 == b(3)   b4 == b(4)   b5 == b(5)
<1>8. Kem!cbd3(s)[j] = b0 + b1 + b2 - b3 - b4 - b5
  BY <1>1, <1>7
<1>9. Between(b0, 1) /\ 0 <= b0 /\ Between(b1, 1) /\ 0 <= b1
  BY <1>4
<1>10. Between(b2, 1) /\ 0 <= b2 /\ Between(b3, 1) /\ 0 <= b3
  BY <1>5
<1>11. Between(b4, 1) /\ 0 <= b4 /\ Between(b5, 1) /\ 0 <= b5
  BY <1>6
<1> HIDE DEF b0, b1, b2, b3, b4, b5, b
<1> QED
  BY <1>8, <1>9, <1>10, <1>11 DEF Between

LEMMA FrommsgInt == ASSUME NEW msg PROVE IntPoly(Kem!poly_frommsg(msg))
<1> SUFFICES ASSUME NEW j \in Kem!Index PROVE Kem!poly_frommsg(msg)[j] \in Int
  BY DEF IntPoly
<1>1. Kem!poly_frommsg(msg)[j] = IF Kem!Bit(msg, j) = 1 THEN (3329 + 1) \div 2 ELSE 0
  BY DEF Kem!poly_frommsg, Kem!FromBit, Kem!Q
<1> QED
  BY <1>1

-----------------------------------------------------------------------------
(* Packing.  The parts that a byte is put together from do not overlap.    *)

\* A coefficient that is less than q in magnitude becomes one of 12 bits.
LEMMA PositiveRange ==
  ASSUME NEW a, Between(a, 3328)
  PROVE  Kem!Positive(a) \in Int /\ 0 <= Kem!Positive(a) /\ Kem!Positive(a) <= 3328
BY DEF Between, Kem!Positive, Kem!Q

LEMMA TobytesOctets ==
  ASSUME NEW a, Kem!Within(a, 3328)
  PROVE  Octets(Kem!poly_tobytes(a), 383)
<1> SUFFICES ASSUME NEW n \in Int, 0 <= n, n <= 383
             PROVE  Octet(Kem!poly_tobytes(a)[n])
  BY DEF Octets
<1> DEFINE d == n \div 3
           m == n % 3
           t0 == Kem!Positive(a[2 * d])
           t1 == Kem!Positive(a[2 * d + 1])
<1>1. Kem!poly_tobytes(a)[n] =
        CASE m = 0 -> t0 % 256
          [] m = 1 -> t0 \div 256 + ((t1 * 16) % 256)
          [] OTHER -> t1 \div 16
  <2>1. n \in 0..383
    OBVIOUS
  <2> QED
    BY <2>1 DEF Kem!poly_tobytes
<1>2. d \in Int /\ 0 <= d /\ d <= 127
  OBVIOUS
<1> HIDE DEF d, m
<1>3. 2 * d \in Kem!Index /\ 2 * d + 1 \in Kem!Index
  BY <1>2, IndexMeans
<1>4. t0 \in Int /\ 0 <= t0 /\ t0 <= 3328 /\ t1 \in Int /\ 0 <= t1 /\ t1 <= 3328
  BY <1>3, PositiveRange, WithinMeans
<1> HIDE DEF t0, t1
<1> DEFINE x == t0 \div 256
           y == (t1 * 16) % 256
<1>5. Octet(t0 % 256) /\ Octet(t1 \div 16)
  BY <1>4 DEF Octet
<1>6. Octet(x + y)
  <2>1. x \in Int /\ 0 <= x /\ x <= 13
    BY <1>4
  <2>2. y \in Int /\ 0 <= y /\ y <= 240
    <3> DEFINE z == t1 % 16
    <3>1. y = 16 * z /\ z \in Int /\ 0 <= z /\ z <= 15
      BY <1>4
    <3> HIDE DEF y, z
    <3> QED
      BY <3>1
  <2> HIDE DEF x, y
  <2> QED
    BY <2>1, <2>2 DEF Octet
<1> QED
  BY <1>1, <1>5, <1>6

LEMMA FrombytesInt ==
  ASSUME NEW s, Octets(s, 383)
  PROVE  IntPoly(Kem!poly_frombytes(s))
<1> SUFFICES ASSUME NEW j \in Kem!Index PROVE Kem!poly_frombytes(s)[j] \in Int
  BY DEF IntPoly
<1> DEFINE n == 3 * (j \div 2)
<1>1. Kem!poly_frombytes(s)[j] =
        IF j % 2 = 0 THEN (s[n] + 256 * s[n + 1]) % 4096
        ELSE s[n + 1] \div 16 + 16 * s[n + 2]
  BY DEF Kem!poly_frombytes
<1>2. n \in Int /\ 0 <= n /\ n + 2 <= 383
  BY IndexMeans
<1> HIDE DEF n
<1>3. n + 1 \in Int /\ 0 <= n + 1 /\ n + 1 <= 383 /\ n + 2 \in Int /\ 0 <= n + 2 /\ n <= 383
  BY <1>2
<1>4. s[n] \in Int /\ s[n + 1] \in Int /\ s[n + 2] \in Int
  BY <1>2, <1>3 DEF Octets, Octet
<1>5. (s[n] + 256 * s[n + 1]) % 4096 \in Int /\ s[n + 1] \div 16 + 16 * s[n + 2] \in Int
  BY <1>4
<1> QED
  BY <1>1, <1>5

LEMMA ScaledDownInt ==
  ASSUME NEW a \in Int, NEW b \in Int, NEW s \in {4, 8}
  PROVE  Kem!ScaledDown(a, b, s) \in Int
<1> DEFINE a1 == a \div 4096   a0 == a % 4096
           b1 == b \div 4096   b0 == b % 4096
           c == a0 * b0
           mid == a1 * b0 + a0 * b1 + c \div 4096
           x == a1 * b1 + mid \div 4096
<1>1. Kem!ScaledDown(a, b, s) = x \div 2^s
  BY DEF Kem!ScaledDown
<1>2. a1 \in Int /\ a0 \in Int /\ b1 \in Int /\ b0 \in Int
  OBVIOUS
<1> HIDE DEF a1, a0, b1, b0
<1>3. c \in Int
  BY <1>2
<1> HIDE DEF c
<1>4. mid \in Int
  BY <1>2, <1>3
<1> HIDE DEF mid
<1>5. x \in Int
  BY <1>2, <1>4
<1> HIDE DEF x
<1>6. x \div 2^s = x \div 16 \/ x \div 2^s = x \div 256
  <2>1. s = 4 => x \div 2^s = x \div 16
    OBVIOUS
  <2>2. s = 8 => x \div 2^s = x \div 256
    OBVIOUS
  <2> QED
    BY <2>1, <2>2
<1>7. x \div 16 \in Int /\ x \div 256 \in Int
  BY <1>5
<1> QED
  BY <1>1, <1>6, <1>7

LEMMA Compress10Range ==
  ASSUME NEW u \in Int
  PROVE  Kem!Compress10(u) \in Int /\ 0 <= Kem!Compress10(u) /\ Kem!Compress10(u) <= 1023
<1> DEFINE x == Kem!ScaledDown(Kem!Positive(u) * 1024 + 1665, 1290167, 8)
           r == x % 1024
<1>1. Kem!Compress10(u) = r
  BY DEF Kem!Compress10
<1>2. Kem!Positive(u) * 1024 + 1665 \in Int
  BY DEF Kem!Positive, Kem!Q
<1>3. x \in Int
  BY <1>2, ScaledDownInt
<1> HIDE DEF x
<1>4. r \in Int /\ 0 <= r /\ r <= 1023
  BY <1>3
<1> HIDE DEF r
<1> QED
  BY <1>1, <1>4

LEMMA Compress4Range ==
  ASSUME NEW u \in Int
  PROVE  Kem!Compress4(u) \in Int /\ 0 <= Kem!Compress4(u) /\ Kem!Compress4(u) <= 15
<1> DEFINE x == Kem!ScaledDown(Kem!Positive(u) * 16 + 1665, 80635, 4)
           r == x % 16
<1>1. Kem!Compress4(u) = r
  BY DEF Kem!Compress4
<1>2. Kem!Positive(u) * 16 + 1665 \in Int
  BY DEF Kem!Positive, Kem!Q
<1>3. x \in Int
  BY <1>2, ScaledDownInt
<1> HIDE DEF x
<1>4. r \in Int /\ 0 <= r /\ r <= 15
  BY <1>3
<1> HIDE DEF r
<1> QED
  BY <1>1, <1>4

LEMMA CompressVecOctets ==
  ASSUME NEW v, \A i \in Kem!Vec : IntPoly(v[i])
  PROVE  Octets(Kem!polyvec_compress(v), 639)
<1> SUFFICES ASSUME NEW n \in Int, 0 <= n, n <= 639
             PROVE  Octet(Kem!polyvec_compress(v)[n])
  BY DEF Octets
<1> DEFINE i == n \div 320
           d == (n % 320) \div 5
           c(k) == Kem!Compress10(v[i][(4 * d) + k])
           m == n % 5
           t == [k \in 0..3 |-> c(k)]
<1>1. n \in 0..639
  OBVIOUS
<1>2. Kem!polyvec_compress(v)[n] =
        CASE m = 0 -> t[0] % 256
          [] m = 1 -> t[0] \div 256 + ((t[1] * 4) % 256)
          [] m = 2 -> t[1] \div 64 + ((t[2] * 16) % 256)
          [] m = 3 -> t[2] \div 16 + ((t[3] * 64) % 256)
          [] OTHER -> t[3] \div 4
  BY <1>1 DEF Kem!polyvec_compress
<1>3. i \in Kem!Vec
  <2>1. i \in Int /\ 0 <= i /\ i <= 1
    OBVIOUS
  <2> HIDE DEF i
  <2> QED
    BY <2>1 DEF Kem!Vec
<1>4. d \in Int /\ 0 <= d /\ d <= 63
  OBVIOUS
<1> HIDE DEF i, d, m
<1>5. ASSUME NEW k \in 0..3
      PROVE  t[k] \in Int /\ 0 <= t[k] /\ t[k] <= 1023
  <2> DEFINE at == (4 * d) + k
  <2>1. at \in Kem!Index
    BY <1>4, IndexMeans
  <2> HIDE DEF at
  <2>2. v[i][at] \in Int
    BY <1>3, <2>1 DEF IntPoly
  <2>3. t[k] = Kem!Compress10(v[i][at])
    BY DEF at
  <2> QED
    BY <2>2, <2>3, Compress10Range
<1> HIDE DEF c, t
<1> DEFINE t0 == t[0]   t1 == t[1]   t2 == t[2]   t3 == t[3]
<1>6. /\ t0 \in Int /\ 0 <= t0 /\ t0 <= 1023 /\ t1 \in Int /\ 0 <= t1 /\ t1 <= 1023
      /\ t2 \in Int /\ 0 <= t2 /\ t2 <= 1023 /\ t3 \in Int /\ 0 <= t3 /\ t3 <= 1023
  BY <1>5
<1>7. Kem!polyvec_compress(v)[n] =
        CASE m = 0 -> t0 % 256
          [] m = 1 -> t0 \div 256 + ((t1 * 4) % 256)
          [] m = 2 -> t1 \div 64 + ((t2 * 16) % 256)
          [] m = 3 -> t2 \div 16 + ((t3 * 64) % 256)
          [] OTHER -> t3 \div 4
  BY <1>2
<1> HIDE DEF t0, t1, t2, t3
<1>8. Octet(t0 % 256) /\ Octet(t3 \div 4)
  BY <1>6 DEF Octet
<1>9. Octet(t0 \div 256 + ((t1 * 4) % 256))
  <2> DEFINE x == t0 \div 256
             y == (t1 * 4) % 256
             z == t1 % 64
  <2>1. x \in Int /\ 0 <= x /\ x <= 3
    BY <1>6
  <2>2. y = 4 * z /\ z \in Int /\ 0 <= z /\ z <= 63
    BY <1>6
  <2> HIDE DEF x, y, z
  <2>3. Octet(x + y)
    BY <2>1, <2>2 DEF Octet
  <2> QED
    BY <2>3 DEF x, y
<1>10. Octet(t1 \div 64 + ((t2 * 16) % 256))
  <2> DEFINE x == t1 \div 64
             y == (t2 * 16) % 256
             z == t2 % 16
  <2>1. x \in Int /\ 0 <= x /\ x <= 15
    BY <1>6
  <2>2. y = 16 * z /\ z \in Int /\ 0 <= z /\ z <= 15
    BY <1>6
  <2> HIDE DEF x, y, z
  <2>3. Octet(x + y)
    BY <2>1, <2>2 DEF Octet
  <2> QED
    BY <2>3 DEF x, y
<1>11. Octet(t2 \div 16 + ((t3 * 64) % 256))
  <2> DEFINE x == t2 \div 16
             y == (t3 * 64) % 256
             z == t3 % 4
  <2>1. x \in Int /\ 0 <= x /\ x <= 63
    BY <1>6
  <2>2. y = 64 * z /\ z \in Int /\ 0 <= z /\ z <= 3
    BY <1>6
  <2> HIDE DEF x, y, z
  <2>3. Octet(x + y)
    BY <2>1, <2>2 DEF Octet
  <2> QED
    BY <2>3 DEF x, y
<1> QED
  BY <1>7, <1>8, <1>9, <1>10, <1>11

LEMMA CompressOctets ==
  ASSUME NEW a, IntPoly(a)
  PROVE  Octets(Kem!poly_compress(a), 127)
<1> SUFFICES ASSUME NEW n \in Int, 0 <= n, n <= 127
             PROVE  Octet(Kem!poly_compress(a)[n])
  BY DEF Octets
<1>1. n \in 0..127
  OBVIOUS
<1> DEFINE x == Kem!Compress4(a[2 * n])
           y == Kem!Compress4(a[2 * n + 1])
<1>2. Kem!poly_compress(a)[n] = x + 16 * y
  BY <1>1 DEF Kem!poly_compress
<1>3. 2 * n \in Kem!Index /\ 2 * n + 1 \in Kem!Index
  BY IndexMeans
<1>4. a[2 * n] \in Int /\ a[2 * n + 1] \in Int
  BY <1>3 DEF IntPoly
<1>5. x \in Int /\ 0 <= x /\ x <= 15 /\ y \in Int /\ 0 <= y /\ y <= 15
  BY <1>4, Compress4Range
<1> HIDE DEF x, y
<1> QED
  BY <1>2, <1>5 DEF Octet

\* What is unpacked is no larger than q, whatever the bytes.
LEMMA DecompressVecWithin ==
  ASSUME NEW s, Octets(s, 639), NEW i \in Kem!Vec
  PROVE  Kem!Within(Kem!polyvec_decompress(s)[i], 3329)
<1> SUFFICES ASSUME NEW j \in Kem!Index
             PROVE  Between(Kem!polyvec_decompress(s)[i][j], 3329)
  BY WithinMeans
<1> DEFINE n == 320 * i + 5 * (j \div 4)
           k == j % 4
           x == s[n + k] \div 4^k + 4^(4 - k) * s[n + k + 1]
           y == x % 1024
<1>1. Kem!polyvec_decompress(s)[i][j] = (y * 3329 + 512) \div 1024
  BY DEF Kem!polyvec_decompress, Kem!Decompress10, Kem!Q
<1>2. j \in Int /\ 0 <= j /\ j <= 255 /\ i \in Int /\ 0 <= i /\ i <= 1
  BY IndexMeans DEF Kem!Vec
<1>3. n \in Int /\ 0 <= n /\ n <= 635 /\ k \in Int /\ 0 <= k /\ k <= 3
  BY <1>2
<1> HIDE DEF n, k
<1>4. Octet(s[n + k]) /\ Octet(s[n + k + 1])
  <2> DEFINE a == n + k
  <2>1. a \in Int /\ 0 <= a /\ a + 1 <= 639
    BY <1>3
  <2> HIDE DEF a
  <2>2. Octet(s[a]) /\ Octet(s[a + 1])
    BY <2>1 DEF Octets
  <2> QED
    BY <2>2 DEF a
<1> DEFINE lo == s[n + k]
           hi == s[n + k + 1]
<1>5. lo \in Int /\ hi \in Int
  BY <1>4 DEF Octet
<1>6. x = lo \div 4^k + 4^(4 - k) * hi
  OBVIOUS
<1> HIDE DEF lo, hi, x
<1>7. x \in Int
  <2>1. k = 0 => x = lo \div 1 + 256 * hi
    BY <1>6
  <2>2. k = 1 => x = lo \div 4 + 64 * hi
    BY <1>6
  <2>3. k = 2 => x = lo \div 16 + 16 * hi
    BY <1>6
  <2>4. k = 3 => x = lo \div 64 + 4 * hi
    BY <1>6
  <2>5. /\ lo \div 1 + 256 * hi \in Int /\ lo \div 4 + 64 * hi \in Int
        /\ lo \div 16 + 16 * hi \in Int /\ lo \div 64 + 4 * hi \in Int
    BY <1>5
  <2> QED
    BY <1>3, <2>1, <2>2, <2>3, <2>4, <2>5
<1>8. y \in Int /\ 0 <= y /\ y <= 1023
  BY <1>7
<1> HIDE DEF y
<1> DEFINE z == (y * 3329 + 512) \div 1024
<1>9. z \in Int /\ 0 <= z /\ z <= 3329
  BY <1>8
<1> HIDE DEF z
<1> QED
  BY <1>1, <1>9 DEF Between, z

LEMMA DecompressWithin ==
  ASSUME NEW s, Octets(s, 127)
  PROVE  Kem!Within(Kem!poly_decompress(s), 3329)
<1> SUFFICES ASSUME NEW j \in Kem!Index
             PROVE  Between(Kem!poly_decompress(s)[j], 3329)
  BY WithinMeans
<1> DEFINE d == j \div 2
           x == IF j % 2 = 0 THEN s[d] % 16 ELSE s[d] \div 16
           z == (x * 3329 + 8) \div 16
<1>1. Kem!poly_decompress(s)[j] = z
  BY DEF Kem!poly_decompress, Kem!Decompress4, Kem!Q
<1>2. d \in Int /\ 0 <= d /\ d <= 127
  BY IndexMeans
<1> HIDE DEF d
<1>3. s[d] \in Int /\ 0 <= s[d] /\ s[d] <= 255
  BY <1>2 DEF Octets, Octet
<1>4. s[d] % 16 \in Int /\ 0 <= s[d] % 16 /\ s[d] % 16 <= 15
  BY <1>3
<1>5. s[d] \div 16 \in Int /\ 0 <= s[d] \div 16 /\ s[d] \div 16 <= 15
  BY <1>3
<1>6. x \in Int /\ 0 <= x /\ x <= 15
  BY <1>4, <1>5
<1> HIDE DEF x
<1>7. z \in Int /\ 0 <= z /\ z <= 3329
  BY <1>6
<1> HIDE DEF z
<1> QED
  BY <1>1, <1>7 DEF Between

-----------------------------------------------------------------------------
(* ML-KEM: every stage begins and ends with small coefficients.            *)

\* What the hash functions and the network give: SHAKE128 samples integers,
\* SHAKE256 gives bytes, and a ciphertext on its way remains bytes.
IsCiphertext(c) == Octets(c.b, 639) /\ Octets(c.v, 127)

SamplersTyped ==
    /\ \A seed, x, y : IntPoly(Xof(seed, x, y))
    /\ \A seed, nonce : Octets(Prf(seed, nonce), 191)
    /\ \A c : IsCiphertext(c) => \A d \in Changes(c) : IsCiphertext(d)

IsKey(t) == \A i \in Kem!Vec : Octets(t[i], 383)

IsKeypair(k) == IsKey(k.pk.t) /\ IsKey(k.sk.s) /\ IsKey(k.sk.pk.t)

\* What a job has at hand in each stage.
KeypairJob(j, bound) ==
    /\ {"stage", "skpv", "e"} \subseteq DOMAIN j
    /\ \A i \in Kem!Vec : IntVec(j.a[i])
    /\ VecWithin(j.skpv, bound) /\ VecWithin(j.e, bound)

NoiseJob(j, bound) ==
    /\ {"stage", "sp"} \subseteq DOMAIN j
    /\ IsKey(j.pk.t)
    /\ VecWithin(j.sp, bound)
    /\ IntVec(j.ep) /\ IntPoly(j.epp)

SumJob(j, bound) ==
    /\ {"stage", "b", "v"} \subseteq DOMAIN j
    /\ VecWithin(j.b, bound) /\ Kem!Within(j.v, bound)
    /\ IntVec(j.ep) /\ IntPoly(j.epp)

JobTyped(j) ==
    \/ j.stage = "idle"
    \/ j.stage = "keypair noise" /\ KeypairJob(j, Kem!Eta1)
    \/ j.stage = "keypair ntt" /\ KeypairJob(j, Kem!Half)
    \/ j.stage = "enc noise" /\ NoiseJob(j, Kem!Eta1)
    \/ j.stage = "enc ntt" /\ NoiseJob(j, Kem!Half)
    \/ j.stage = "enc product" /\ SumJob(j, Kem!Half)
    \/ j.stage = "enc inverse" /\ SumJob(j, Kem!Less)
    \/ j.stage = "enc sum" /\ SumJob(j, Kem!Half)
    \/ /\ j.stage = "dec unpacked"
       /\ {"stage", "b"} \subseteq DOMAIN j
       /\ VecWithin(j.b, Kem!Q) /\ Kem!Within(j.v, Kem!Q)
    \/ j.stage = "dec ntt" /\ VecWithin(j.b, Kem!Half) /\ IntPoly(j.v)
    \/ j.stage = "dec product" /\ Kem!Within(j.mp, Kem!Half) /\ IntPoly(j.v)
    \/ j.stage = "dec message" /\ Kem!Within(j.mp, Kem!Half)

\* Stages of the jobs that need no keypair.
Alone == {"idle", "keypair noise", "keypair ntt"}

\* The invariant that is inductive.
KemInv ==
    /\ JobTyped(job)
    /\ job.stage \notin Alone => IsKeypair(keypair)
    /\ keypair # <<>> => IsKeypair(keypair)
    /\ given # <<>> => IsKeypair(keypair) /\ IsKey(given.t)
    /\ ct # <<>> => IsKeypair(keypair) /\ IsCiphertext(ct)

LEMMA KemInvInit == Kem!Init => KemInv
BY DEF Kem!Init, Kem!Idle, Kem!None, KemInv, JobTyped, Alone

\* The stage tells what the job has.
LEMMA JobStage ==
  ASSUME NEW j, JobTyped(j)
  PROVE  /\ j.stage = "keypair noise" => KeypairJob(j, Kem!Eta1)
         /\ j.stage = "keypair ntt" => KeypairJob(j, Kem!Half)
         /\ j.stage = "enc noise" => NoiseJob(j, Kem!Eta1)
         /\ j.stage = "enc ntt" => NoiseJob(j, Kem!Half)
         /\ j.stage \in {"enc product", "enc sum"} => SumJob(j, Kem!Half)
         /\ j.stage = "enc inverse" => SumJob(j, Kem!Less)
         /\ j.stage = "dec unpacked" =>
               /\ {"stage", "b"} \subseteq DOMAIN j
               /\ VecWithin(j.b, Kem!Q) /\ Kem!Within(j.v, Kem!Q)
         /\ j.stage = "dec ntt" => VecWithin(j.b, Kem!Half) /\ IntPoly(j.v)
         /\ j.stage = "dec product" => Kem!Within(j.mp, Kem!Half) /\ IntPoly(j.v)
         /\ j.stage = "dec message" => Kem!Within(j.mp, Kem!Half)
BY Zenon DEF JobTyped

LEMMA KemInvReduced == KemInv => Kem!Reduced
<1> SUFFICES ASSUME JobTyped(job) PROVE Kem!Reduced
  BY DEF KemInv
<1> QED
  BY JobStage, Zenon DEF KeypairJob, NoiseJob, SumJob, VecWithin, Kem!Reduced

\* The magnitudes as numbers.
LEMMA Magnitudes == Kem!Eta1 = 3 /\ Kem!Half = 1664 /\ Kem!Less = 3328 /\ Kem!Q = 3329
<1>1. (3329 - 1) \div 2 = 1664
  OBVIOUS
<1> QED
  BY <1>1 DEF Kem!Eta1, Kem!Half, Kem!Less, Kem!Q

LEMMA MagnitudeBounds == \A b \in {Kem!Eta1, Kem!Half, Kem!Less, Kem!Q} : b \in Nat /\ b <= 3329
BY Magnitudes

(***************************************************************************)
(* A vector of small polynomials is one of integers, and short.            *)
(***************************************************************************)
Magnitude == {Kem!Eta1, Kem!Half, Kem!Less, Kem!Q}

LEMMA SmallIsInt ==
  ASSUME NEW p, NEW b \in Magnitude, Kem!Within(p, b) PROVE IntPoly(p)
BY MagnitudeBounds, WithinIsInt DEF Magnitude

LEMMA SmallIsShort ==
  ASSUME NEW p, NEW b \in Magnitude, Kem!Within(p, b) PROVE ShortPoly(p)
<1> SUFFICES ASSUME NEW j \in Kem!Index PROVE Short(p[j])
  BY DEF ShortPoly
<1>1. b \in Nat /\ b <= 3329
  BY MagnitudeBounds DEF Magnitude
<1>2. Between(p[j], b)
  BY <1>1, WithinMeans
<1> QED
  BY <1>1, <1>2 DEF Between, Short

LEMMA SmallVecIsInt ==
  ASSUME NEW v, NEW b \in Magnitude, VecWithin(v, b) PROVE IntVec(v)
BY SmallIsInt DEF VecWithin, IntVec

LEMMA ReduceHalf ==
  ASSUME NEW a, ShortPoly(a) PROVE Kem!Within(Kem!poly_reduce(a), Kem!Half)
BY ReduceWithin, Magnitudes

LEMMA VecNttHalf ==
  ASSUME NEW v, NEW b \in Magnitude, VecWithin(v, b)
  PROVE  VecWithin(Kem!polyvec_ntt(v), Kem!Half)
<1> SUFFICES ASSUME NEW i \in Kem!Vec PROVE Kem!Within(Kem!polyvec_ntt(v)[i], Kem!Half)
  BY DEF VecWithin
<1>1. Kem!polyvec_ntt(v)[i] = Kem!poly_ntt(v[i])
  BY DEF Kem!polyvec_ntt
<1>2. ShortPoly(v[i])
  BY SmallIsShort DEF VecWithin
<1>3. Kem!Within(Kem!poly_ntt(v[i]), Kem!Half)
  BY <1>2, NttWithin, Magnitudes
<1> QED
  BY <1>1, <1>3

LEMMA AccHalf ==
  ASSUME NEW v, NEW w, IntVec(v), IntVec(w)
  PROVE  Kem!Within(Kem!polyvec_basemul_acc_montgomery(v, w), Kem!Half)
BY AccWithin, Magnitudes

LEMMA InvNttLess ==
  ASSUME NEW r, IntPoly(r) PROVE Kem!Within(Kem!invntt(r), Kem!Less)
BY InvNttWithin, Magnitudes

LEMMA SumHalf ==
  ASSUME NEW v, NEW w, IntVec(v), IntVec(w)
  PROVE  VecWithin(Kem!polyvec_reduce(Kem!polyvec_add(v, w)), Kem!Half)
<1> SUFFICES ASSUME NEW i \in Kem!Vec
             PROVE  Kem!Within(Kem!polyvec_reduce(Kem!polyvec_add(v, w))[i], Kem!Half)
  BY DEF VecWithin
<1>1. Kem!polyvec_reduce(Kem!polyvec_add(v, w))[i] = Kem!poly_reduce(Kem!poly_add(v[i], w[i]))
  BY DEF Kem!polyvec_reduce, Kem!polyvec_add
<1>2. ShortPoly(Kem!poly_add(v[i], w[i]))
  BY AddShort DEF IntVec
<1> QED
  BY <1>1, <1>2, ReduceHalf

LEMMA KeyIsInt ==
  ASSUME NEW t, IsKey(t) PROVE IntVec([i \in Kem!Vec |-> Kem!poly_frombytes(t[i])])
BY FrombytesInt DEF IsKey, IntVec

\* Reduced coefficients are packed into bytes.
LEMMA PackedIsKey ==
  ASSUME NEW v, VecWithin(v, Kem!Half)
  PROVE  IsKey([i \in Kem!Vec |-> Kem!poly_tobytes(v[i])])
<1> SUFFICES ASSUME NEW i \in Kem!Vec PROVE Octets(Kem!poly_tobytes(v[i]), 383)
  BY DEF IsKey
<1>1. \A j \in Kem!Index : Between(v[i][j], 1664)
  BY WithinMeans, Magnitudes DEF VecWithin
<1>2. \A j \in Kem!Index : Between(v[i][j], 3328)
  BY <1>1 DEF Between
<1>3. Kem!Within(v[i], 3328)
  BY <1>2, WithinMeans
<1> QED
  BY <1>3, TobytesOctets

(***************************************************************************)
(* One stage after the other.                                              *)
(***************************************************************************)
LEMMA JobOnly ==
  ASSUME KemInv, JobTyped(job'), job'.stage \notin Alone => IsKeypair(keypair),
         keypair' = keypair, given' = given, ct' = ct
  PROVE  KemInv'
BY DEF KemInv

LEMMA MagnitudesAll ==
  Kem!Eta1 \in Magnitude /\ Kem!Half \in Magnitude /\ Kem!Less \in Magnitude /\ Kem!Q \in Magnitude
BY DEF Magnitude

\* What is sampled for a vector.
LEMMA MatrixInt ==
  ASSUME SamplersTyped, NEW seed, NEW transposed
  PROVE  \A i \in Kem!Vec : IntVec(Kem!gen_matrix(seed, transposed)[i])
<1> SUFFICES ASSUME NEW i \in Kem!Vec, NEW k \in Kem!Vec
             PROVE  IntPoly(Kem!gen_matrix(seed, transposed)[i][k])
  BY DEF IntVec
<1>1. Kem!gen_matrix(seed, transposed)[i][k] = IF transposed THEN Xof(seed, i, k) ELSE Xof(seed, k, i)
  BY DEF Kem!gen_matrix
<1>2. IntPoly(Xof(seed, i, k)) /\ IntPoly(Xof(seed, k, i))
  BY DEF SamplersTyped
<1> QED
  BY <1>1, <1>2

LEMMA NoiseSmall ==
  ASSUME SamplersTyped, NEW seed, NEW nonce
  PROVE  /\ Kem!Within(Kem!cbd3(Prf(seed, nonce)), Kem!Eta1)
         /\ IntPoly(Kem!cbd2(Prf(seed, nonce)))
<1>1. Octets(Prf(seed, nonce), 191)
  BY DEF SamplersTyped
<1>2. Kem!Within(Kem!cbd3(Prf(seed, nonce)), 3)
  BY <1>1, Cbd3Within
<1>3. IntPoly(Kem!cbd2(Prf(seed, nonce)))
  BY <1>1, Cbd2Within, WithinIsInt
<1> QED
  BY <1>2, <1>3, Magnitudes

LEMMA StepKeypairNoise ==
  ASSUME SamplersTyped, KemInv, Kem!KeypairNoise PROVE KemInv'
<1>1. PICK coins \in Coins :
        LET g == Kem!hash_g(Kem!Left(coins), <<"k">>)
        IN  job' = [stage |-> "keypair noise", seed |-> Kem!Left(g), z |-> Kem!Right(coins),
                    a |-> Kem!gen_matrix(Kem!Left(g), FALSE),
                    skpv |-> [i \in Kem!Vec |-> Kem!cbd3(Prf(Kem!Right(g), i))],
                    e |-> [i \in Kem!Vec |-> Kem!cbd3(Prf(Kem!Right(g), 2 + i))]]
  BY DEF Kem!KeypairNoise
<1> DEFINE g == Kem!hash_g(Kem!Left(coins), <<"k">>)
           seed == Kem!Left(g)
           a == Kem!gen_matrix(seed, FALSE)
           s == [i \in Kem!Vec |-> Kem!cbd3(Prf(Kem!Right(g), i))]
           e == [i \in Kem!Vec |-> Kem!cbd3(Prf(Kem!Right(g), 2 + i))]
<1>2. job' = [stage |-> "keypair noise", seed |-> seed, z |-> Kem!Right(coins),
              a |-> a, skpv |-> s, e |-> e]
  BY <1>1
<1>3. \A i \in Kem!Vec : IntVec(a[i])
  BY MatrixInt
<1>4. VecWithin(s, Kem!Eta1) /\ VecWithin(e, Kem!Eta1)
  BY NoiseSmall DEF VecWithin
<1> HIDE DEF g, seed, a, s, e
<1>5. job'.stage = "keypair noise" /\ KeypairJob(job', Kem!Eta1)
  BY <1>2, <1>3, <1>4 DEF KeypairJob
<1>6. JobTyped(job') /\ job'.stage \in Alone
  BY <1>5 DEF JobTyped, Alone
<1>7. keypair' = keypair /\ given' = given /\ ct' = ct
  BY DEF Kem!KeypairNoise
<1> QED
  BY <1>6, <1>7, JobOnly

LEMMA StepKeypairNtt ==
  ASSUME KemInv, Kem!KeypairNtt PROVE KemInv'
<1>1. KeypairJob(job, Kem!Eta1)
  BY JobStage DEF KemInv, Kem!KeypairNtt
<1>2. job' = [job EXCEPT !.stage = "keypair ntt",
                         !.skpv = Kem!polyvec_ntt(job.skpv), !.e = Kem!polyvec_ntt(job.e)]
  BY DEF Kem!KeypairNtt
<1> DEFINE s == Kem!polyvec_ntt(job.skpv)
           e == Kem!polyvec_ntt(job.e)
<1>3. VecWithin(s, Kem!Half) /\ VecWithin(e, Kem!Half)
  BY <1>1, VecNttHalf, MagnitudesAll DEF KeypairJob
<1> HIDE DEF s, e
<1>4. /\ {"stage", "skpv", "e"} \subseteq DOMAIN job'
      /\ job'.stage = "keypair ntt" /\ job'.skpv = s /\ job'.e = e /\ job'.a = job.a
  BY <1>1, <1>2 DEF KeypairJob, s, e
<1>5. KeypairJob(job', Kem!Half)
  BY <1>1, <1>3, <1>4 DEF KeypairJob
<1>6. JobTyped(job') /\ job'.stage \in Alone
  BY <1>4, <1>5 DEF JobTyped, Alone
<1>7. keypair' = keypair /\ given' = given /\ ct' = ct
  BY DEF Kem!KeypairNtt
<1> QED
  BY <1>6, <1>7, JobOnly

LEMMA StepKeypairPack ==
  ASSUME KemInv, Kem!KeypairPack PROVE KemInv'
<1>1. KeypairJob(job, Kem!Half)
  BY JobStage DEF KemInv, Kem!KeypairPack
<1> DEFINE as == [i \in Kem!Vec |->
                     Kem!poly_tomont(Kem!polyvec_basemul_acc_montgomery(job.a[i], job.skpv))]
           pkpv == Kem!polyvec_reduce(Kem!polyvec_add(as, job.e))
           t == [i \in Kem!Vec |-> Kem!poly_tobytes(pkpv[i])]
           pk == [t |-> t, seed |-> job.seed]
           s == [i \in Kem!Vec |-> Kem!poly_tobytes(job.skpv[i])]
<1>2. /\ keypair' = [pk |-> pk, sk |-> [s |-> s, pk |-> pk, h |-> Kem!hash_h(pk), z |-> job.z]]
      /\ job' = [stage |-> "idle"] /\ given' = given /\ ct' = ct
  BY DEF Kem!KeypairPack, Kem!Idle
<1>3. IntVec(as)
  <2> SUFFICES ASSUME NEW i \in Kem!Vec PROVE IntPoly(as[i])
    BY DEF IntVec
  <2>1. IntVec(job.a[i]) /\ IntVec(job.skpv)
    BY <1>1, SmallVecIsInt, MagnitudesAll DEF KeypairJob
  <2>2. IntPoly(Kem!polyvec_basemul_acc_montgomery(job.a[i], job.skpv))
    BY <2>1, AccHalf, SmallIsInt, MagnitudesAll
  <2> QED
    BY <2>2, TomontShort, ShortIsInt
<1> HIDE DEF as
<1>4. VecWithin(pkpv, Kem!Half)
  BY <1>1, <1>3, SumHalf, SmallVecIsInt, MagnitudesAll DEF KeypairJob
<1> HIDE DEF pkpv
<1>5. IsKey(t) /\ IsKey(s)
  BY <1>1, <1>4, PackedIsKey DEF KeypairJob
<1> HIDE DEF t, s
<1>6. IsKeypair(keypair')
  BY <1>2, <1>5 DEF IsKeypair
<1>7. JobTyped(job') /\ job'.stage \in Alone
  BY <1>2 DEF JobTyped, Alone
<1> QED
  BY <1>2, <1>6, <1>7 DEF KemInv

LEMMA StepGive ==
  ASSUME KemInv, Kem!Give PROVE KemInv'
<1>1. /\ keypair # <<>> /\ given' = keypair.pk /\ ct' = <<>>
      /\ job' = job /\ keypair' = keypair
  BY DEF Kem!Give, Kem!None
<1>2. IsKeypair(keypair)
  BY <1>1 DEF KemInv
<1>3. IsKey(given'.t)
  BY <1>1, <1>2 DEF IsKeypair
<1> QED
  BY <1>1, <1>2, <1>3 DEF KemInv

LEMMA EncryptingTyped ==
  ASSUME SamplersTyped, NEW who, NEW m, NEW pk, NEW h, IsKey(pk.t)
  PROVE  /\ Kem!Encrypting(who, m, pk, h).stage = "enc noise"
         /\ NoiseJob(Kem!Encrypting(who, m, pk, h), Kem!Eta1)
<1> DEFINE kr == Kem!hash_g(m, h)
           sp == [i \in Kem!Vec |-> Kem!cbd3(Prf(Kem!Right(kr), i))]
           ep == [i \in Kem!Vec |-> Kem!cbd2(Prf(Kem!Right(kr), 2 + i))]
           epp == Kem!cbd2(Prf(Kem!Right(kr), 4))
           new == Kem!Encrypting(who, m, pk, h)
<1>1. new = [stage |-> "enc noise", who |-> who, m |-> m, pk |-> pk, kr |-> kr,
             sp |-> sp, ep |-> ep, epp |-> epp]
  BY DEF Kem!Encrypting
<1>2. VecWithin(sp, Kem!Eta1) /\ IntVec(ep) /\ IntPoly(epp)
  BY NoiseSmall DEF VecWithin, IntVec
<1> HIDE DEF kr, sp, ep, epp, new
<1>3. new.stage = "enc noise" /\ NoiseJob(new, Kem!Eta1)
  BY <1>1, <1>2 DEF NoiseJob
<1> QED
  BY <1>3 DEF new

LEMMA StepEncapsulate ==
  ASSUME SamplersTyped, KemInv, Kem!Encapsulate PROVE KemInv'
<1>1. PICK m \in Messages : job' = Kem!Encrypting("sender", m, given, Kem!hash_h(given))
  BY DEF Kem!Encapsulate
<1>2. IsKeypair(keypair) /\ IsKey(given.t)
  BY DEF Kem!Encapsulate, Kem!None, KemInv
<1>3. job'.stage = "enc noise" /\ NoiseJob(job', Kem!Eta1)
  BY <1>1, <1>2, EncryptingTyped
<1>4. JobTyped(job')
  BY <1>3 DEF JobTyped
<1>5. keypair' = keypair /\ given' = given /\ ct' = ct
  BY DEF Kem!Encapsulate
<1> QED
  BY <1>2, <1>4, <1>5, JobOnly

LEMMA StepEncNtt ==
  ASSUME KemInv, Kem!EncNtt PROVE KemInv'
<1>1. NoiseJob(job, Kem!Eta1) /\ IsKeypair(keypair)
  BY JobStage DEF KemInv, Alone, Kem!EncNtt
<1> DEFINE sp == Kem!polyvec_ntt(job.sp)
<1>2. job' = [job EXCEPT !.stage = "enc ntt", !.sp = sp]
  BY DEF Kem!EncNtt
<1>3. VecWithin(sp, Kem!Half)
  BY <1>1, VecNttHalf, MagnitudesAll DEF NoiseJob
<1> HIDE DEF sp
<1>4. /\ {"stage", "sp"} \subseteq DOMAIN job'
      /\ job'.stage = "enc ntt" /\ job'.sp = sp
      /\ job'.pk = job.pk /\ job'.ep = job.ep /\ job'.epp = job.epp
  BY <1>1, <1>2 DEF NoiseJob
<1>5. NoiseJob(job', Kem!Half)
  BY <1>1, <1>3, <1>4 DEF NoiseJob
<1>6. JobTyped(job')
  BY <1>4, <1>5 DEF JobTyped
<1>7. keypair' = keypair /\ given' = given /\ ct' = ct
  BY DEF Kem!EncNtt
<1> QED
  BY <1>1, <1>6, <1>7, JobOnly

LEMMA StepEncMultiply ==
  ASSUME SamplersTyped, KemInv, Kem!EncMultiply PROVE KemInv'
<1>1. NoiseJob(job, Kem!Half) /\ IsKeypair(keypair)
  BY JobStage DEF KemInv, Alone, Kem!EncMultiply
<1> DEFINE at == Kem!gen_matrix(job.pk.seed, TRUE)
           pkpv == [i \in Kem!Vec |-> Kem!poly_frombytes(job.pk.t[i])]
           b == [i \in Kem!Vec |-> Kem!polyvec_basemul_acc_montgomery(at[i], job.sp)]
           v == Kem!polyvec_basemul_acc_montgomery(pkpv, job.sp)
<1>2. job' = [stage |-> "enc product", who |-> job.who, m |-> job.m, kr |-> job.kr,
              ep |-> job.ep, epp |-> job.epp, b |-> b, v |-> v]
  BY DEF Kem!EncMultiply
<1>3. IntVec(job.sp) /\ IntVec(pkpv)
  BY <1>1, SmallVecIsInt, MagnitudesAll, KeyIsInt DEF NoiseJob
<1> HIDE DEF pkpv
<1>4. \A i \in Kem!Vec : IntVec(at[i])
  BY MatrixInt
<1> HIDE DEF at
<1>5. VecWithin(b, Kem!Half) /\ Kem!Within(v, Kem!Half)
  BY <1>3, <1>4, AccHalf DEF VecWithin
<1> HIDE DEF b, v
<1>6. job'.stage = "enc product" /\ SumJob(job', Kem!Half)
  BY <1>1, <1>2, <1>5 DEF SumJob, NoiseJob
<1>7. JobTyped(job')
  BY <1>6 DEF JobTyped
<1>8. keypair' = keypair /\ given' = given /\ ct' = ct
  BY DEF Kem!EncMultiply
<1> QED
  BY <1>1, <1>7, <1>8, JobOnly

LEMMA StepEncInverse ==
  ASSUME KemInv, Kem!EncInverse PROVE KemInv'
<1>1. SumJob(job, Kem!Half) /\ IsKeypair(keypair)
  BY JobStage DEF KemInv, Alone, Kem!EncInverse
<1> DEFINE b == Kem!polyvec_invntt_tomont(job.b)
           v == Kem!invntt(job.v)
<1>2. job' = [job EXCEPT !.stage = "enc inverse", !.b = b, !.v = v]
  BY DEF Kem!EncInverse
<1>3. IntPoly(job.v) /\ IntVec(job.b)
  BY <1>1, SmallIsInt, SmallVecIsInt, MagnitudesAll DEF SumJob
<1>4. VecWithin(b, Kem!Less) /\ Kem!Within(v, Kem!Less)
  BY <1>3, InvNttLess DEF VecWithin, IntVec, Kem!polyvec_invntt_tomont
<1> HIDE DEF b, v
<1>5. /\ {"stage", "b", "v"} \subseteq DOMAIN job'
      /\ job'.stage = "enc inverse" /\ job'.b = b /\ job'.v = v
      /\ job'.ep = job.ep /\ job'.epp = job.epp
  BY <1>1, <1>2 DEF SumJob
<1>6. SumJob(job', Kem!Less)
  BY <1>1, <1>4, <1>5 DEF SumJob
<1>7. JobTyped(job')
  BY <1>5, <1>6 DEF JobTyped
<1>8. keypair' = keypair /\ given' = given /\ ct' = ct
  BY DEF Kem!EncInverse
<1> QED
  BY <1>1, <1>7, <1>8, JobOnly

LEMMA StepEncAdd ==
  ASSUME KemInv, Kem!EncAdd PROVE KemInv'
<1>1. SumJob(job, Kem!Less) /\ IsKeypair(keypair)
  BY JobStage DEF KemInv, Alone, Kem!EncAdd
<1> DEFINE b == Kem!polyvec_reduce(Kem!polyvec_add(job.b, job.ep))
           w == Kem!poly_add(job.v, job.epp)
           x == Kem!poly_add(w, Kem!poly_frommsg(job.m))
           v == Kem!poly_reduce(x)
<1>2. job' = [job EXCEPT !.stage = "enc sum", !.b = b, !.v = v]
  BY DEF Kem!EncAdd
<1>3. IntPoly(job.v) /\ IntVec(job.b)
  BY <1>1, SmallIsInt, SmallVecIsInt, MagnitudesAll DEF SumJob
<1>4. VecWithin(b, Kem!Half)
  BY <1>1, <1>3, SumHalf DEF SumJob
<1>5. Kem!Within(v, Kem!Half)
  <2>1. IntPoly(w)
    BY <1>1, <1>3, AddShort, ShortIsInt DEF SumJob
  <2> HIDE DEF w
  <2>2. ShortPoly(x)
    BY <2>1, FrommsgInt, AddShort
  <2> HIDE DEF x
  <2> QED
    BY <2>2, ReduceHalf
<1> HIDE DEF b, v
<1>6. /\ {"stage", "b", "v"} \subseteq DOMAIN job'
      /\ job'.stage = "enc sum" /\ job'.b = b /\ job'.v = v
      /\ job'.ep = job.ep /\ job'.epp = job.epp
  BY <1>1, <1>2 DEF SumJob
<1>7. SumJob(job', Kem!Half)
  BY <1>1, <1>4, <1>5, <1>6 DEF SumJob
<1>8. JobTyped(job')
  BY <1>6, <1>7 DEF JobTyped
<1>9. keypair' = keypair /\ given' = given /\ ct' = ct
  BY DEF Kem!EncAdd
<1> QED
  BY <1>1, <1>8, <1>9, JobOnly

LEMMA StepEncPack ==
  ASSUME KemInv, Kem!EncPack PROVE KemInv'
<1>1. SumJob(job, Kem!Half) /\ IsKeypair(keypair)
  BY JobStage DEF KemInv, Alone, Kem!EncPack
<1> DEFINE c == Kem!pack_ciphertext(job.b, job.v)
<1>2. /\ ct' = c \/ ct' = ct
      /\ job' = [stage |-> "idle"] /\ keypair' = keypair /\ given' = given
  BY DEF Kem!EncPack, Kem!Idle
<1>3. IsCiphertext(c)
  <2>1. IntPoly(job.v) /\ \A i \in Kem!Vec : IntPoly(job.b[i])
    BY <1>1, SmallIsInt, SmallVecIsInt, MagnitudesAll DEF SumJob, IntVec
  <2>2. Octets(Kem!polyvec_compress(job.b), 639) /\ Octets(Kem!poly_compress(job.v), 127)
    BY <2>1, CompressVecOctets, CompressOctets
  <2>3. c.b = Kem!polyvec_compress(job.b) /\ c.v = Kem!poly_compress(job.v)
    BY DEF Kem!pack_ciphertext
  <2> QED
    BY <2>2, <2>3 DEF IsCiphertext
<1> HIDE DEF c
<1>4. JobTyped(job') /\ job'.stage \in Alone
  BY <1>2 DEF JobTyped, Alone
<1> QED
  BY <1>1, <1>2, <1>3, <1>4 DEF KemInv

LEMMA StepChange ==
  ASSUME SamplersTyped, KemInv, Kem!Change PROVE KemInv'
<1>1. ct # <<>> /\ ct' \in Changes(ct) /\ job' = job /\ keypair' = keypair /\ given' = given
  BY DEF Kem!Change, Kem!None
<1>2. IsKeypair(keypair) /\ IsCiphertext(ct')
  BY <1>1 DEF KemInv, SamplersTyped
<1> QED
  BY <1>1, <1>2 DEF KemInv

LEMMA StepDecapsulate ==
  ASSUME KemInv, Kem!Decapsulate PROVE KemInv'
<1> DEFINE b == Kem!polyvec_decompress(ct.b)
           v == Kem!poly_decompress(ct.v)
<1>1. /\ ct # <<>> /\ job' = [stage |-> "dec unpacked", b |-> b, v |-> v]
      /\ keypair' = keypair /\ given' = given /\ ct' = ct
  BY DEF Kem!Decapsulate, Kem!None
<1>2. IsKeypair(keypair) /\ Octets(ct.b, 639) /\ Octets(ct.v, 127)
  BY <1>1 DEF KemInv, IsCiphertext
<1>3. VecWithin(b, Kem!Q) /\ Kem!Within(v, Kem!Q)
  BY <1>2, DecompressVecWithin, DecompressWithin, Magnitudes DEF VecWithin
<1> HIDE DEF b, v
<1>4. /\ {"stage", "b"} \subseteq DOMAIN job'
      /\ job'.stage = "dec unpacked" /\ job'.b = b /\ job'.v = v
  BY <1>1
<1>5. JobTyped(job')
  BY <1>3, <1>4 DEF JobTyped
<1> QED
  BY <1>1, <1>2, <1>5, JobOnly

LEMMA StepDecNtt ==
  ASSUME KemInv, Kem!DecNtt PROVE KemInv'
<1>1. /\ {"stage", "b"} \subseteq DOMAIN job
      /\ VecWithin(job.b, Kem!Q) /\ Kem!Within(job.v, Kem!Q) /\ IsKeypair(keypair)
  BY JobStage DEF KemInv, Alone, Kem!DecNtt
<1> DEFINE b == Kem!polyvec_ntt(job.b)
<1>2. job' = [job EXCEPT !.stage = "dec ntt", !.b = b]
  BY DEF Kem!DecNtt
<1>3. VecWithin(b, Kem!Half) /\ IntPoly(job.v)
  BY <1>1, VecNttHalf, SmallIsInt, MagnitudesAll
<1> HIDE DEF b
<1>4. job'.stage = "dec ntt" /\ job'.b = b /\ job'.v = job.v
  BY <1>1, <1>2
<1>5. JobTyped(job')
  BY <1>3, <1>4 DEF JobTyped
<1>6. keypair' = keypair /\ given' = given /\ ct' = ct
  BY DEF Kem!DecNtt
<1> QED
  BY <1>1, <1>5, <1>6, JobOnly

LEMMA StepDecMultiply ==
  ASSUME KemInv, Kem!DecMultiply PROVE KemInv'
<1>1. VecWithin(job.b, Kem!Half) /\ IntPoly(job.v) /\ IsKeypair(keypair)
  BY JobStage DEF KemInv, Alone, Kem!DecMultiply
<1> DEFINE skpv == [i \in Kem!Vec |-> Kem!poly_frombytes(keypair.sk.s[i])]
           mp == Kem!polyvec_basemul_acc_montgomery(skpv, job.b)
<1>2. job' = [stage |-> "dec product", v |-> job.v, mp |-> mp]
  BY DEF Kem!DecMultiply
<1>3. IntVec(skpv) /\ IntVec(job.b)
  BY <1>1, KeyIsInt, SmallVecIsInt, MagnitudesAll DEF IsKeypair
<1> HIDE DEF skpv
<1>4. Kem!Within(mp, Kem!Half)
  BY <1>3, AccHalf
<1> HIDE DEF mp
<1>5. job'.stage = "dec product" /\ job'.v = job.v /\ job'.mp = mp
  BY <1>2
<1>6. JobTyped(job')
  BY <1>1, <1>4, <1>5 DEF JobTyped
<1>7. keypair' = keypair /\ given' = given /\ ct' = ct
  BY DEF Kem!DecMultiply
<1> QED
  BY <1>1, <1>6, <1>7, JobOnly

LEMMA StepDecSubtract ==
  ASSUME KemInv, Kem!DecSubtract PROVE KemInv'
<1>1. Kem!Within(job.mp, Kem!Half) /\ IntPoly(job.v) /\ IsKeypair(keypair)
  BY JobStage DEF KemInv, Alone, Kem!DecSubtract
<1> DEFINE w == Kem!invntt(job.mp)
           x == Kem!poly_sub(job.v, w)
           mp == Kem!poly_reduce(x)
<1>2. job' = [stage |-> "dec message", mp |-> mp]
  BY DEF Kem!DecSubtract
<1>3. IntPoly(w)
  BY <1>1, SmallIsInt, InvNttLess, MagnitudesAll
<1> HIDE DEF w
<1>4. ShortPoly(x)
  BY <1>1, <1>3, AddShort
<1> HIDE DEF x
<1>5. Kem!Within(mp, Kem!Half)
  BY <1>4, ReduceHalf
<1> HIDE DEF mp
<1>6. job'.stage = "dec message" /\ job'.mp = mp
  BY <1>2
<1>7. JobTyped(job')
  BY <1>5, <1>6 DEF JobTyped
<1>8. keypair' = keypair /\ given' = given /\ ct' = ct
  BY DEF Kem!DecSubtract
<1> QED
  BY <1>1, <1>7, <1>8, JobOnly

LEMMA StepDecReencrypt ==
  ASSUME SamplersTyped, KemInv, Kem!DecReencrypt PROVE KemInv'
<1>1. IsKeypair(keypair)
  BY DEF KemInv, Alone, Kem!DecReencrypt
<1>2. job' = Kem!Encrypting("gateway", Kem!poly_tomsg(job.mp), keypair.sk.pk, keypair.sk.h)
  BY DEF Kem!DecReencrypt
<1>3. job'.stage = "enc noise" /\ NoiseJob(job', Kem!Eta1)
  BY <1>1, <1>2, EncryptingTyped DEF IsKeypair
<1>4. JobTyped(job')
  BY <1>3 DEF JobTyped
<1>5. keypair' = keypair /\ given' = given /\ ct' = ct
  BY DEF Kem!DecReencrypt
<1> QED
  BY <1>1, <1>4, <1>5, JobOnly

LEMMA KemInvStep ==
  ASSUME SamplersTyped PROVE KemInv /\ [Kem!Next]_kemVars => KemInv'
<1> SUFFICES ASSUME KemInv, [Kem!Next]_kemVars PROVE KemInv'
  OBVIOUS
<1>1. CASE Kem!Next
  BY <1>1, StepKeypairNoise, StepKeypairNtt, StepKeypairPack, StepGive, StepEncapsulate,
     StepEncNtt, StepEncMultiply, StepEncInverse, StepEncAdd, StepEncPack, StepChange,
     StepDecapsulate, StepDecNtt, StepDecMultiply, StepDecSubtract, StepDecReencrypt
     DEF Kem!Next
<1>2. CASE UNCHANGED kemVars
  BY <1>2 DEF kemVars, KemInv
<1> QED
  BY <1>1, <1>2

-----------------------------------------------------------------------------
(* A behaviour is one of a single routine.                                 *)

LEMMA KemMoves == [Next]_vars => [Kem!Next]_kemVars
BY DEF Next, vars, CoapStep, KemStep, SpongeStep, PermutationStep, SamplingStep

LEMMA KemAlways == ASSUME SamplersTyped PROVE Spec => []KemInv
<1>1. Init => KemInv
  BY KemInvInit DEF Init
<1>2. KemInv /\ [Next]_vars => KemInv'
  BY KemInvStep, KemMoves
<1> QED
  BY <1>1, <1>2, PTL DEF Spec

\* Whatever the seeds, the messages and the ciphertexts, every stage of
\* ML-KEM begins and ends with coefficients as small as the code relies on.
THEOREM CoefficientsAreReduced == ASSUME SamplersTyped PROVE Spec => []Reduced
<1>1. KemInv => Reduced
  BY KemInvReduced DEF Reduced
<1> QED
  BY <1>1, KemAlways, PTL

\* Keys and ciphertexts that are made are strings of bytes: the parts that a
\* byte is put together from never exceed it.
KemPacked ==
    /\ keypair # <<>> => IsKeypair(keypair)
    /\ ct # <<>> => IsCiphertext(ct)

THEOREM PackingGivesBytes == ASSUME SamplersTyped PROVE Spec => []KemPacked
<1>1. KemInv => KemPacked
  BY DEF KemInv, KemPacked
<1> QED
  BY <1>1, KemAlways, PTL

-----------------------------------------------------------------------------
(* What a secret binds, for all streams and messages.  Encryption is a     *)
(* function of message and public key; each of its stages has computed a   *)
(* part of it.                                                             *)

\* The secret and the coins of the encryption of m for pk.
Drawn(m, pk) == Kem!hash_g(m, Kem!hash_h(pk))

SpOf(kr) == [i \in Kem!Vec |-> Kem!cbd3(Prf(Kem!Right(kr), i))]
EpOf(kr) == [i \in Kem!Vec |-> Kem!cbd2(Prf(Kem!Right(kr), 2 + i))]
EppOf(kr) == Kem!cbd2(Prf(Kem!Right(kr), 4))

Encryption(who, m, pk) ==
    [stage |-> "enc noise", who |-> who, m |-> m, pk |-> pk, kr |-> Drawn(m, pk),
     sp |-> SpOf(Drawn(m, pk)), ep |-> EpOf(Drawn(m, pk)), epp |-> EppOf(Drawn(m, pk))]

Transformed(who, m, pk) ==
    [stage |-> "enc ntt", who |-> who, m |-> m, pk |-> pk, kr |-> Drawn(m, pk),
     sp |-> Kem!polyvec_ntt(SpOf(Drawn(m, pk))), ep |-> EpOf(Drawn(m, pk)), epp |-> EppOf(Drawn(m, pk))]

TimesMatrix(sp, pk) ==
    [i \in Kem!Vec |-> Kem!polyvec_basemul_acc_montgomery(Kem!gen_matrix(pk.seed, TRUE)[i], sp)]
TimesKey(sp, pk) ==
    Kem!polyvec_basemul_acc_montgomery([i \in Kem!Vec |-> Kem!poly_frombytes(pk.t[i])], sp)

Rest(stage, who, m, pk, b, v) ==
    [stage |-> stage, who |-> who, m |-> m, kr |-> Drawn(m, pk),
     ep |-> EpOf(Drawn(m, pk)), epp |-> EppOf(Drawn(m, pk)), b |-> b, v |-> v]

ProductOf(m, pk) ==
    [b |-> TimesMatrix(Kem!polyvec_ntt(SpOf(Drawn(m, pk))), pk),
     v |-> TimesKey(Kem!polyvec_ntt(SpOf(Drawn(m, pk))), pk)]
InverseOf(m, pk) ==
    [b |-> Kem!polyvec_invntt_tomont(ProductOf(m, pk).b), v |-> Kem!invntt(ProductOf(m, pk).v)]
SumOf(m, pk) ==
    [b |-> Kem!polyvec_reduce(Kem!polyvec_add(InverseOf(m, pk).b, EpOf(Drawn(m, pk)))),
     v |-> Kem!poly_reduce(Kem!poly_add(Kem!poly_add(InverseOf(m, pk).v, EppOf(Drawn(m, pk))),
                                        Kem!poly_frommsg(m)))]

CiphertextOf(m, pk) == Kem!pack_ciphertext(SumOf(m, pk).b, SumOf(m, pk).v)

Stages == {"enc noise", "enc ntt", "enc product", "enc inverse", "enc sum"}
Opening == {"dec unpacked", "dec ntt", "dec product", "dec message"}

\* The job j is a stage of the encryption of some message for pk.
IsStage(j, pk) ==
    \E who, m :
        /\ j.stage = "enc noise" => j = Encryption(who, m, pk)
        /\ j.stage = "enc ntt" => j = Transformed(who, m, pk)
        /\ j.stage = "enc product" =>
              j = Rest("enc product", who, m, pk, ProductOf(m, pk).b, ProductOf(m, pk).v)
        /\ j.stage = "enc inverse" =>
              j = Rest("enc inverse", who, m, pk, InverseOf(m, pk).b, InverseOf(m, pk).v)
        /\ j.stage = "enc sum" =>
              j = Rest("enc sum", who, m, pk, SumOf(m, pk).b, SumOf(m, pk).v)

KeyFits == keypair.sk.pk = keypair.pk /\ keypair.sk.h = Kem!hash_h(keypair.pk)

SentFits == \E m : sent.ss = Kem!Left(Drawn(m, given)) /\ sent.ct = CiphertextOf(m, given)

FoundFits ==
    \/ ss = Kem!rkprf(keypair.sk.z, ct)
    \/ \E m : ss = Kem!Left(Drawn(m, keypair.pk)) /\ ct = CiphertextOf(m, keypair.pk)

\* What the jobs are that go on to a stage with the same fields.
HasFields ==
    /\ job.stage = "keypair noise" =>
          \E seed, z, a, skpv, e : job = [stage |-> "keypair noise", seed |-> seed, z |-> z,
                                          a |-> a, skpv |-> skpv, e |-> e]
    /\ job.stage = "dec unpacked" => \E b, v : job = [stage |-> "dec unpacked", b |-> b, v |-> v]

BindInv ==
    /\ keypair # <<>> => KeyFits
    /\ given # <<>> => KeyFits
    /\ ct # <<>> => KeyFits /\ SentFits /\ sent # <<>>
    /\ ss # <<>> => ct # <<>> /\ FoundFits
    /\ job.stage \in Opening => ct # <<>>
    /\ job.stage \in Stages /\ job.who = "sender" => sent = <<>> /\ given # <<>> /\ IsStage(job, given)
    /\ job.stage \in Stages /\ job.who = "gateway" => ct # <<>> /\ IsStage(job, keypair.pk)
    /\ job.stage \in Stages => job.who \in {"sender", "gateway"}
    /\ HasFields

-----------------------------------------------------------------------------
LEMMA BindInit == Kem!Init => BindInv
BY DEF Kem!Init, Kem!Idle, Kem!None, BindInv, Opening, Stages, HasFields

\* A job that goes on to its next stage.
LEMMA BindStage ==
  ASSUME BindInv, job.stage \in Stages,
         \A pk : IsStage(job, pk) =>
            IsStage(job', pk) /\ job'.stage \in Stages /\ job'.who = job.who,
         UNCHANGED <<keypair, given, sent, ct, ss>>
  PROVE  BindInv'
<1>1. \E pk : IsStage(job, pk)
  BY DEF BindInv
<1>2. job'.stage \in Stages /\ job'.stage \notin Opening /\ job'.who = job.who /\ HasFields'
  BY <1>1 DEF Stages, Opening, HasFields
<1> QED
  BY <1>2 DEF BindInv, KeyFits, SentFits, FoundFits

\* A job of which nothing is known but that it is not one of encryption.
LEMMA BindOther ==
  ASSUME BindInv, job'.stage \notin Stages, job'.stage \in Opening => ct # <<>>, HasFields',
         UNCHANGED <<keypair, given, sent, ct, ss>>
  PROVE  BindInv'
BY DEF BindInv, KeyFits, SentFits, FoundFits

LEMMA BindKeypairNoise == ASSUME BindInv, Kem!KeypairNoise PROVE BindInv'
<1>1. PICK coins \in Coins :
        LET g == Kem!hash_g(Kem!Left(coins), <<"k">>)
        IN  job' = [stage |-> "keypair noise", seed |-> Kem!Left(g), z |-> Kem!Right(coins),
                    a |-> Kem!gen_matrix(Kem!Left(g), FALSE),
                    skpv |-> [i \in Kem!Vec |-> Kem!cbd3(Prf(Kem!Right(g), i))],
                    e |-> [i \in Kem!Vec |-> Kem!cbd3(Prf(Kem!Right(g), 2 + i))]]
  BY DEF Kem!KeypairNoise
<1>2. job'.stage = "keypair noise"
  BY <1>1
<1>3. HasFields'
  BY <1>1, <1>2 DEF HasFields
<1>4. UNCHANGED <<keypair, given, sent, ct, ss>>
  BY DEF Kem!KeypairNoise
<1>5. job'.stage \notin Stages /\ job'.stage \notin Opening
  BY <1>2 DEF Stages, Opening
<1> QED
  BY <1>3, <1>4, <1>5, BindOther

LEMMA BindPack == ASSUME BindInv, Kem!KeypairPack PROVE BindInv'
<1>1. job' = Kem!Idle /\ ss' = <<>> /\ UNCHANGED <<given, sent, ct>>
  BY DEF Kem!KeypairPack, Kem!None
<1>2. KeyFits'
  BY DEF Kem!KeypairPack, KeyFits
<1>3. job'.stage \notin Stages /\ job'.stage \notin Opening /\ HasFields'
  BY <1>1 DEF Stages, Opening, HasFields, Kem!Idle
<1> QED
  BY <1>1, <1>2, <1>3 DEF BindInv, SentFits

LEMMA BindGive == ASSUME BindInv, Kem!Give PROVE BindInv'
<1>1. /\ job = Kem!Idle /\ keypair # <<>> /\ UNCHANGED <<job, keypair>>
      /\ sent' = <<>> /\ ct' = <<>> /\ ss' = <<>>
  BY DEF Kem!Give, Kem!None
<1>2. job'.stage \notin Stages /\ job'.stage \notin Opening /\ HasFields'
  BY <1>1 DEF Stages, Opening, HasFields, Kem!Idle
<1> QED
  BY <1>1, <1>2 DEF BindInv, KeyFits

LEMMA EncryptingIs ==
  ASSUME NEW who, NEW m, NEW pk
  PROVE  Kem!Encrypting(who, m, pk, Kem!hash_h(pk)) = Encryption(who, m, pk)
BY DEF Kem!Encrypting, Encryption, Drawn, SpOf, EpOf, EppOf

LEMMA EncryptionIsStage ==
  ASSUME NEW who, NEW m, NEW pk
  PROVE  LET j == Encryption(who, m, pk)
         IN  j.stage = "enc noise" /\ j.stage \in Stages /\ j.stage \notin Opening /\ j.who = who /\ IsStage(j, pk)
BY DEF Encryption, IsStage, Stages, Opening

LEMMA BindEncapsulate == ASSUME BindInv, Kem!Encapsulate PROVE BindInv'
<1>1. /\ given # <<>> /\ sent = <<>> /\ UNCHANGED <<keypair, given, sent, ct, ss>>
      /\ \E m \in Messages : job' = Kem!Encrypting("sender", m, given, Kem!hash_h(given))
  BY DEF Kem!Encapsulate, Kem!None
<1>2. PICK m \in Messages : job' = Encryption("sender", m, given)
  BY <1>1, EncryptingIs
<1>3. job'.stage \in Stages /\ job'.stage \notin Opening /\ job'.who = "sender" /\ IsStage(job', given)
  BY <1>2, EncryptionIsStage
<1>4. HasFields'
  BY <1>2, EncryptionIsStage DEF HasFields
<1> QED
  BY <1>1, <1>3, <1>4 DEF BindInv, KeyFits, SentFits, FoundFits

LEMMA BindReencrypt == ASSUME BindInv, Kem!DecReencrypt PROVE BindInv'
<1>1. /\ job.stage = "dec message" /\ UNCHANGED <<keypair, given, sent, ct, ss>>
      /\ job' = Kem!Encrypting("gateway", Kem!poly_tomsg(job.mp), keypair.sk.pk, keypair.sk.h)
  BY DEF Kem!DecReencrypt
<1>2. ct # <<>> /\ KeyFits
  BY <1>1 DEF BindInv, Opening
<1>3. job' = Encryption("gateway", Kem!poly_tomsg(job.mp), keypair.pk)
  BY <1>1, <1>2, EncryptingIs DEF KeyFits
<1>4. job'.stage \in Stages /\ job'.stage \notin Opening /\ job'.who = "gateway" /\ IsStage(job', keypair.pk)
  BY <1>3, EncryptionIsStage
<1>5. HasFields'
  BY <1>3, EncryptionIsStage DEF HasFields
<1> QED
  BY <1>1, <1>2, <1>4, <1>5 DEF BindInv, KeyFits, SentFits, FoundFits

LEMMA BindEncNtt == ASSUME BindInv, Kem!EncNtt PROVE BindInv'
<1>1. /\ job.stage = "enc noise" /\ UNCHANGED <<keypair, given, sent, ct, ss>>
      /\ job' = [job EXCEPT !.stage = "enc ntt", !.sp = Kem!polyvec_ntt(@)]
  BY DEF Kem!EncNtt
<1>2. ASSUME NEW pk, IsStage(job, pk)
      PROVE  IsStage(job', pk) /\ job'.stage = "enc ntt" /\ job'.who = job.who
  <2>1. PICK who, m : job = Encryption(who, m, pk)
    BY <1>1, <1>2 DEF IsStage
  <2>2. job' = Transformed(who, m, pk)
    BY <1>1, <2>1 DEF Encryption, Transformed
  <2>3. job'.stage = "enc ntt" /\ job'.who = who /\ job.who = who
    BY <2>1, <2>2 DEF Encryption, Transformed
  <2> QED
    BY <2>2, <2>3 DEF IsStage
<1> QED
  BY <1>1, <1>2, BindStage DEF Stages

LEMMA BindEncMultiply == ASSUME BindInv, Kem!EncMultiply PROVE BindInv'
<1> DEFINE at == Kem!gen_matrix(job.pk.seed, TRUE)
           pkpv == [i \in Kem!Vec |-> Kem!poly_frombytes(job.pk.t[i])]
           b == [i \in Kem!Vec |-> Kem!polyvec_basemul_acc_montgomery(at[i], job.sp)]
           v == Kem!polyvec_basemul_acc_montgomery(pkpv, job.sp)
<1>1. /\ job.stage = "enc ntt" /\ UNCHANGED <<keypair, given, sent, ct, ss>>
      /\ job' = [stage |-> "enc product", who |-> job.who, m |-> job.m, kr |-> job.kr,
                 ep |-> job.ep, epp |-> job.epp, b |-> b, v |-> v]
  BY DEF Kem!EncMultiply
<1>2. b = TimesMatrix(job.sp, job.pk) /\ v = TimesKey(job.sp, job.pk)
  BY DEF TimesMatrix, TimesKey
<1> HIDE DEF b, v
<1>3. ASSUME NEW pk, IsStage(job, pk)
      PROVE  IsStage(job', pk) /\ job'.stage = "enc product" /\ job'.who = job.who
  <2>1. PICK who, m : job = Transformed(who, m, pk)
    BY <1>1, <1>3 DEF IsStage
  <2>2. /\ job.pk = pk /\ job.kr = Drawn(m, pk) /\ job.sp = Kem!polyvec_ntt(SpOf(Drawn(m, pk)))
        /\ job.ep = EpOf(Drawn(m, pk)) /\ job.epp = EppOf(Drawn(m, pk))
        /\ job.who = who /\ job.m = m
    BY <2>1 DEF Transformed
  <2>3. b = ProductOf(m, pk).b /\ v = ProductOf(m, pk).v
    BY <1>2, <2>2 DEF ProductOf
  <2>4. job' = Rest("enc product", who, m, pk, ProductOf(m, pk).b, ProductOf(m, pk).v)
    BY <1>1, <2>2, <2>3 DEF Rest
  <2>5. job'.stage = "enc product" /\ job'.who = job.who
    BY <1>1
  <2> QED
    BY <2>4, <2>5 DEF IsStage
<1> QED
  BY <1>1, <1>3, BindStage DEF Stages

LEMMA BindEncInverse == ASSUME BindInv, Kem!EncInverse PROVE BindInv'
<1>1. /\ job.stage = "enc product" /\ UNCHANGED <<keypair, given, sent, ct, ss>>
      /\ job' = [job EXCEPT !.stage = "enc inverse",
                            !.b = Kem!polyvec_invntt_tomont(@), !.v = Kem!invntt(@)]
  BY DEF Kem!EncInverse
<1>2. ASSUME NEW pk, IsStage(job, pk)
      PROVE  IsStage(job', pk) /\ job'.stage = "enc inverse" /\ job'.who = job.who
  <2>1. PICK who, m : job = Rest("enc product", who, m, pk, ProductOf(m, pk).b, ProductOf(m, pk).v)
    BY <1>1, <1>2 DEF IsStage
  <2>2. job' = Rest("enc inverse", who, m, pk, InverseOf(m, pk).b, InverseOf(m, pk).v)
    BY <1>1, <2>1 DEF Rest, InverseOf
  <2>3. job'.stage = "enc inverse" /\ job'.who = who /\ job.who = who
    BY <2>1, <2>2 DEF Rest, InverseOf
  <2> QED
    BY <2>2, <2>3 DEF IsStage
<1> QED
  BY <1>1, <1>2, BindStage DEF Stages

LEMMA BindEncAdd == ASSUME BindInv, Kem!EncAdd PROVE BindInv'
<1>1. /\ job.stage = "enc inverse" /\ UNCHANGED <<keypair, given, sent, ct, ss>>
      /\ job' = [job EXCEPT !.stage = "enc sum",
                    !.b = Kem!polyvec_reduce(Kem!polyvec_add(@, job.ep)),
                    !.v = Kem!poly_reduce(Kem!poly_add(Kem!poly_add(@, job.epp), Kem!poly_frommsg(job.m)))]
  BY DEF Kem!EncAdd
<1>2. ASSUME NEW pk, IsStage(job, pk)
      PROVE  IsStage(job', pk) /\ job'.stage = "enc sum" /\ job'.who = job.who
  <2>1. PICK who, m : job = Rest("enc inverse", who, m, pk, InverseOf(m, pk).b, InverseOf(m, pk).v)
    BY <1>1, <1>2 DEF IsStage
  <2>2. job' = Rest("enc sum", who, m, pk, SumOf(m, pk).b, SumOf(m, pk).v)
    BY <1>1, <2>1 DEF Rest, SumOf
  <2>3. job'.stage = "enc sum" /\ job'.who = who /\ job.who = who
    BY <2>1, <2>2 DEF Rest, SumOf
  <2> QED
    BY <2>2, <2>3 DEF IsStage
<1> QED
  BY <1>1, <1>2, BindStage DEF Stages

\* The ciphertext that comes out is that of message and key.
LEMMA PackedIs ==
  ASSUME NEW pk, job.stage = "enc sum", IsStage(job, pk)
  PROVE  \E m : /\ Kem!pack_ciphertext(job.b, job.v) = CiphertextOf(m, pk)
                /\ job.kr = Drawn(m, pk) /\ job.m = m
<1>1. PICK who, m : job = Rest("enc sum", who, m, pk, SumOf(m, pk).b, SumOf(m, pk).v)
  BY DEF IsStage
<1>2. job.b = SumOf(m, pk).b /\ job.v = SumOf(m, pk).v /\ job.kr = Drawn(m, pk) /\ job.m = m
  BY <1>1 DEF Rest
<1> QED
  BY <1>2 DEF CiphertextOf

LEMMA BindEncPack == ASSUME BindInv, Kem!EncPack PROVE BindInv'
<1> DEFINE c == Kem!pack_ciphertext(job.b, job.v)
<1>1. job.stage = "enc sum" /\ job' = Kem!Idle /\ UNCHANGED <<keypair, given>>
  BY DEF Kem!EncPack
<1>2. job'.stage \notin Stages /\ job'.stage \notin Opening /\ job.stage \in Stages /\ HasFields'
  BY <1>1 DEF Stages, Opening, HasFields, Kem!Idle
<1>3. CASE job.who = "sender" /\ sent' = [ct |-> c, ss |-> Kem!Left(job.kr)] /\ ct' = c /\ UNCHANGED ss
  <2>1. sent = <<>> /\ given # <<>> /\ IsStage(job, given)
    BY <1>2, <1>3 DEF BindInv
  <2>2. ss' = <<>> /\ KeyFits'
    BY <1>1, <1>3, <2>1 DEF BindInv, KeyFits
  <2>3. PICK m : c = CiphertextOf(m, given) /\ job.kr = Drawn(m, given)
    BY <1>1, <2>1, PackedIs
  <2> HIDE DEF c
  <2>4. sent' # <<>> /\ sent'.ct = c /\ sent'.ss = Kem!Left(job.kr)
    BY <1>3
  <2>5. SentFits'
    BY <1>1, <2>3, <2>4 DEF SentFits
  <2> QED
    BY <1>2, <2>2, <2>4, <2>5 DEF BindInv
<1>4. CASE /\ job.who = "gateway" /\ UNCHANGED <<sent, ct>>
           /\ ss' = IF Kem!verify(ct, c) THEN Kem!rkprf(keypair.sk.z, ct) ELSE Kem!Left(job.kr)
  <2>1. ct # <<>> /\ IsStage(job, keypair.pk)
    BY <1>2, <1>4 DEF BindInv
  <2>2. PICK m : c = CiphertextOf(m, keypair.pk) /\ job.kr = Drawn(m, keypair.pk)
    BY <1>1, <2>1, PackedIs
  <2> HIDE DEF c
  <2>3. FoundFits'
    BY <1>1, <1>4, <2>2 DEF FoundFits, Kem!verify
  <2> QED
    BY <1>1, <1>2, <1>4, <2>1, <2>3 DEF BindInv, KeyFits, SentFits
<1> QED
  BY <1>3, <1>4 DEF Kem!EncPack

LEMMA BindChange == ASSUME BindInv, Kem!Change PROVE BindInv'
<1>1. job = Kem!Idle /\ ct # <<>> /\ ss = <<>> /\ UNCHANGED <<job, keypair, given, sent, ss>>
  BY DEF Kem!Change, Kem!None
<1>2. job'.stage \notin Stages /\ job'.stage \notin Opening /\ HasFields'
  BY <1>1 DEF Stages, Opening, HasFields, Kem!Idle
<1> QED
  BY <1>1, <1>2 DEF BindInv, KeyFits, SentFits

LEMMA BindDecapsulate == ASSUME BindInv, Kem!Decapsulate PROVE BindInv'
<1>1. /\ ct # <<>> /\ UNCHANGED <<keypair, given, sent, ct, ss>>
      /\ job' = [stage |-> "dec unpacked",
                 b |-> Kem!polyvec_decompress(ct.b), v |-> Kem!poly_decompress(ct.v)]
  BY DEF Kem!Decapsulate, Kem!None
<1>2. job'.stage \notin Stages /\ HasFields'
  BY <1>1 DEF Stages, HasFields
<1> QED
  BY <1>1, <1>2, BindOther

LEMMA BindKeypairNtt == ASSUME BindInv, Kem!KeypairNtt PROVE BindInv'
<1>1. /\ job.stage = "keypair noise" /\ UNCHANGED <<keypair, given, sent, ct, ss>>
      /\ job' = [job EXCEPT !.stage = "keypair ntt",
                            !.skpv = Kem!polyvec_ntt(@), !.e = Kem!polyvec_ntt(@)]
  BY DEF Kem!KeypairNtt
<1>2. PICK seed, z, a, skpv, e : job = [stage |-> "keypair noise", seed |-> seed, z |-> z,
                                        a |-> a, skpv |-> skpv, e |-> e]
  BY <1>1 DEF BindInv, HasFields
<1>3. job'.stage = "keypair ntt"
  BY <1>1, <1>2
<1>4. job'.stage \notin Stages /\ job'.stage \notin Opening /\ HasFields'
  BY <1>3 DEF Stages, Opening, HasFields
<1> QED
  BY <1>1, <1>4, BindOther

LEMMA BindDecNtt == ASSUME BindInv, Kem!DecNtt PROVE BindInv'
<1>1. /\ job.stage = "dec unpacked" /\ UNCHANGED <<keypair, given, sent, ct, ss>>
      /\ job' = [job EXCEPT !.stage = "dec ntt", !.b = Kem!polyvec_ntt(@)]
  BY DEF Kem!DecNtt
<1>2. PICK b, v : job = [stage |-> "dec unpacked", b |-> b, v |-> v]
  BY <1>1 DEF BindInv, HasFields
<1>3. job'.stage = "dec ntt"
  BY <1>1, <1>2
<1>4. job'.stage \notin Stages /\ ct # <<>> /\ HasFields'
  BY <1>1, <1>3 DEF BindInv, Stages, Opening, HasFields
<1> QED
  BY <1>1, <1>4, BindOther

LEMMA BindDecode == ASSUME BindInv, Kem!DecMultiply \/ Kem!DecSubtract PROVE BindInv'
<1>1. /\ job.stage \in {"dec ntt", "dec product"} /\ job'.stage \in {"dec product", "dec message"}
      /\ UNCHANGED <<keypair, given, sent, ct, ss>>
  <2>1. CASE Kem!DecMultiply
    BY <2>1 DEF Kem!DecMultiply
  <2>2. CASE Kem!DecSubtract
    BY <2>2 DEF Kem!DecSubtract
  <2> QED
    BY <2>1, <2>2
<1>2. job'.stage \notin Stages /\ ct # <<>> /\ HasFields'
  BY <1>1 DEF BindInv, Stages, Opening, HasFields
<1> QED
  BY <1>1, <1>2, BindOther

LEMMA BindStep == BindInv /\ [Kem!Next]_kemVars => BindInv'
<1> SUFFICES ASSUME BindInv, [Kem!Next]_kemVars PROVE BindInv'
  OBVIOUS
<1>1. CASE Kem!Next
  BY <1>1, BindKeypairNoise, BindKeypairNtt, BindPack, BindGive, BindEncapsulate, BindEncNtt,
     BindEncMultiply, BindEncInverse, BindEncAdd, BindEncPack, BindChange, BindDecapsulate,
     BindDecNtt, BindDecode, BindReencrypt DEF Kem!Next
<1>2. CASE UNCHANGED kemVars
  BY <1>2 DEF kemVars, BindInv, KeyFits, SentFits, FoundFits, HasFields
<1> QED
  BY <1>1, <1>2

\* Secrets are terms, and terms tell what they are made of.
LEMMA RejectionDiffers ==
  ASSUME NEW m, NEW p, NEW z, NEW c PROVE Kem!rkprf(z, c) # Kem!Left(Drawn(m, p))
BY DEF Kem!rkprf, Kem!Left

LEMMA SecretsDiffer ==
  ASSUME NEW m, NEW n, NEW p, NEW q, Kem!Left(Drawn(m, p)) = Kem!Left(Drawn(n, q))
  PROVE  m = n /\ p = q
BY DEF Kem!Left, Drawn, Kem!hash_g, Kem!hash_h

LEMMA BindAlways == Spec => []BindInv
<1>1. Init => BindInv
  BY BindInit DEF Init
<1>2. BindInv /\ [Next]_vars => BindInv'
  BY BindStep, KemMoves
<1> QED
  BY <1>1, <1>2, PTL DEF Spec

\* If the gateway finds the secret that the sender has, then it has the keypair
\* that the public key belongs to, and nothing was changed on the way: to
\* decrypt to the same message is not enough (the hash of the key in the
\* secret, and the re-encryption in crypto_kem_dec).
SecretBinds ==
    ss # <<>> /\ ss = sent.ss => given = keypair.pk /\ ct = sent.ct

THEOREM SecretsBind == Spec => []SecretBinds
<1>1. BindInv => SecretBinds
  <2> SUFFICES ASSUME BindInv, ss # <<>>, ss = sent.ss
               PROVE  given = keypair.pk /\ ct = sent.ct
    BY DEF SecretBinds
  <2>1. ct # <<>> /\ SentFits /\ FoundFits
    BY DEF BindInv
  <2>2. PICK m : sent.ss = Kem!Left(Drawn(m, given)) /\ sent.ct = CiphertextOf(m, given)
    BY <2>1 DEF SentFits
  <2>3. ss # Kem!rkprf(keypair.sk.z, ct)
    BY <2>2, RejectionDiffers
  <2>4. PICK n : ss = Kem!Left(Drawn(n, keypair.pk)) /\ ct = CiphertextOf(n, keypair.pk)
    BY <2>1, <2>3 DEF FoundFits
  <2>5. m = n /\ given = keypair.pk
    <3>1. Kem!Left(Drawn(m, given)) = Kem!Left(Drawn(n, keypair.pk))
      BY <2>2, <2>4
    <3> QED
      BY <3>1, SecretsDiffer
  <2> QED
    BY <2>2, <2>4, <2>5
<1> QED
  BY <1>1, BindAlways, PTL

\* The secret that the gateway finds is a pseudo-random one, or that of a
\* message whose encryption for its own public key is the ciphertext it got.
SecretIsOfCiphertext == ss # <<>> => FoundFits

THEOREM SecretsAreOfCiphertexts == Spec => []SecretIsOfCiphertext
<1>1. BindInv => SecretIsOfCiphertext
  BY DEF BindInv, SecretIsOfCiphertext
<1> QED
  BY <1>1, BindAlways, PTL

\* Where the gateway decrypts to the message that was encrypted, both have the
\* same secret: what SecretsAgree leaves to the noise is that it does.
DecryptionSuffices ==
    [][/\ Kem!EncPack /\ job.who = "gateway"
       /\ given = keypair.pk /\ ct = sent.ct
       /\ sent.ss = Kem!Left(Kem!hash_g(job.m, Kem!hash_h(given)))
       => ss' = sent.ss]_kemVars

THEOREM SecretsAgreeIfDecrypted == Spec => DecryptionSuffices
<1>1. ASSUME BindInv, Kem!EncPack, job.who = "gateway", given = keypair.pk, ct = sent.ct,
             sent.ss = Kem!Left(Kem!hash_g(job.m, Kem!hash_h(given)))
      PROVE  ss' = sent.ss
  <2> DEFINE c == Kem!pack_ciphertext(job.b, job.v)
  <2>1. /\ job.stage = "enc sum"
        /\ ss' = IF Kem!verify(ct, c) THEN Kem!rkprf(keypair.sk.z, ct) ELSE Kem!Left(job.kr)
    BY <1>1 DEF Kem!EncPack
  <2>2. ct # <<>> /\ IsStage(job, given)
    BY <1>1, <2>1 DEF BindInv, Stages
  <2>3. c = CiphertextOf(job.m, given) /\ job.kr = Drawn(job.m, given)
    BY <2>1, <2>2, PackedIs
  <2> HIDE DEF c
  <2>4. PICK m : sent.ss = Kem!Left(Drawn(m, given)) /\ sent.ct = CiphertextOf(m, given)
    BY <1>1, <2>2 DEF BindInv, SentFits
  <2>5. sent.ss = Kem!Left(Drawn(job.m, given))
    BY <1>1 DEF Drawn
  <2>6. job.m = m
    <3>1. Kem!Left(Drawn(job.m, given)) = Kem!Left(Drawn(m, given))
      BY <2>4, <2>5
    <3> QED
      BY <3>1, SecretsDiffer
  <2> QED
    BY <1>1, <2>1, <2>3, <2>4, <2>5, <2>6 DEF Kem!verify
<1>2. BindInv /\ [Next]_vars =>
        [/\ Kem!EncPack /\ job.who = "gateway"
         /\ given = keypair.pk /\ ct = sent.ct
         /\ sent.ss = Kem!Left(Kem!hash_g(job.m, Kem!hash_h(given)))
         => ss' = sent.ss]_kemVars
  BY <1>1
<1> QED
  BY <1>2, BindAlways, PTL DEF Spec, DecryptionSuffices

-----------------------------------------------------------------------------
(* CoAP: coap_parse first, for datagrams of any length and bytes and every *)
(* size of the path's array; then coap_build_simple, for any path, payload *)
(* and room; then the two together.  The options that were written lie one *)
(* behind the other (Chain) with the payload behind them (Paid), and the   *)
(* parser stands behind some number of them with as much of their path as  *)
(* its array holds (Behind).                                               *)

\* The invariant that is inductive.
Parsing ==
    /\ Codec!TypeOK
    /\ Codec!InBounds

(***************************************************************************)
(* An extension that fits ends within the datagram, and its value is a     *)
(* byte again.                                                             *)
(***************************************************************************)
LEMMA AtType ==
  ASSUME NEW at \in Nat, Codec!buf \in Seq(Codec!Byte)
  PROVE  Codec!At(at) \in 0..255
<1>1. Codec!len = Len(Codec!buf) /\ Codec!len \in Nat
  BY DEF Codec!len
<1>2. CASE at < Codec!len
  <2>1. at + 1 \in 1..Len(Codec!buf)
    BY <1>1, <1>2
  <2>2. Codec!buf[at + 1] \in Codec!Byte
    BY <2>1
  <2> QED
    BY <1>2, <2>2 DEF Codec!At, Codec!Byte
<1>3. CASE ~(at < Codec!len)
  BY <1>3 DEF Codec!At
<1> QED
  BY <1>2, <1>3

LEMMA InHalves == \A b \in 0..255 : b \div 16 \in 0..15 /\ b % 16 \in 0..15
OBVIOUS

LEMMA FitsWithin ==
  ASSUME NEW nibble \in 0..15, NEW at \in Nat, Codec!buf \in Seq(Codec!Byte),
         at <= Codec!len, Codec!Fits(nibble, at)
  PROVE  /\ at + Codec!Width(nibble) \in Nat
         /\ at <= at + Codec!Width(nibble)
         /\ at + Codec!Width(nibble) <= Codec!len
         /\ Codec!Value(nibble, at) \in 0..255
<1> DEFINE first == Codec!At(at)
           second == Codec!At(at + 1)
           width == Codec!Width(nibble)
           value == Codec!Value(nibble, at)
<1>1. first \in 0..255 /\ second \in 0..255 /\ Codec!len \in Nat
  BY AtType DEF Codec!len
<1>2. /\ width = IF nibble = 13 THEN 1 ELSE IF nibble = 14 THEN 2 ELSE 0
      /\ nibble = 13 => value = (13 + first) % 256 /\ at < Codec!len
      /\ nibble = 14 => value = (269 + 256 * first + second) % 256 /\ at + 1 < Codec!len
      /\ nibble # 13 /\ nibble # 14 => value = nibble
  <2>1. CASE nibble = 13
    BY <2>1 DEF Codec!Width, Codec!Value, Codec!Fits
  <2>2. CASE nibble = 14
    BY <2>2 DEF Codec!Width, Codec!Value, Codec!Fits
  <2>3. CASE nibble # 13 /\ nibble # 14
    BY <2>3 DEF Codec!Width, Codec!Value
  <2> QED
    BY <2>1, <2>2, <2>3
<1> HIDE DEF first, second, width, value
<1>3. value \in 0..255
  <2>1. CASE nibble = 13
    <3>1. value = (13 + first) % 256 /\ first \in 0..255
      BY <1>1, <1>2, <2>1
    <3> QED
      BY <3>1
  <2>2. CASE nibble = 14
    <3>1. value = (269 + 256 * first + second) % 256 /\ first \in 0..255 /\ second \in 0..255
      BY <1>1, <1>2, <2>2
    <3> QED
      BY <3>1
  <2>3. CASE nibble # 13 /\ nibble # 14
    <3>1. value = nibble
      BY <1>2, <2>3
    <3> QED
      BY <3>1
  <2> QED
    BY <2>1, <2>2, <2>3
<1>4. at + width \in Nat /\ at <= at + width /\ at + width <= Codec!len
  BY <1>1, <1>2
<1> QED
  BY <1>3, <1>4 DEF width, value

(***************************************************************************)
(* The path never fills its array.                                         *)
(***************************************************************************)
LEMMA ExtendedWithin ==
  ASSUME NEW path \in Seq(Codec!Byte), NEW value \in Seq(Codec!Byte),
         MaxUri \in Nat \ {0}, Len(path) < MaxUri
  PROVE  /\ Codec!Extended(path, value) \in Seq(Codec!Byte)
         /\ Len(Codec!Extended(path, value)) < MaxUri
<1> DEFINE start == IF path # <<>> /\ Len(path) < MaxUri - 1 THEN Append(path, Codec!Slash) ELSE path
           room == MaxUri - 1 - Len(start)
           copy == IF Len(value) < room THEN Len(value) ELSE room
           part == SubSeq(value, 1, copy)
<1>1. start \in Seq(Codec!Byte) /\ Len(start) \in Nat /\ Len(start) < MaxUri
  <2>1. Codec!Slash \in Codec!Byte /\ Len(path) \in Nat
    BY DEF Codec!Slash, Codec!Byte
  <2>2. Append(path, Codec!Slash) \in Seq(Codec!Byte) /\ Len(Append(path, Codec!Slash)) = Len(path) + 1
    BY <2>1
  <2> QED
    BY <2>1, <2>2
<1> HIDE DEF start
<1>2. room \in Nat
  BY <1>1
<1> HIDE DEF room
<1>3. Len(value) \in Nat /\ copy \in 0..Len(value) /\ copy <= room
  BY <1>2
<1> HIDE DEF copy
<1>4. part \in Seq(Codec!Byte) /\ Len(part) = copy
  BY <1>3, SubSeqProperties
<1> HIDE DEF part
<1>5. start \o part \in Seq(Codec!Byte) /\ Len(start \o part) = Len(start) + copy
  BY <1>1, <1>4, ConcatProperties
<1>6. Len(start) + copy < MaxUri
  BY <1>1, <1>2, <1>3 DEF room
<1>7. Codec!Extended(path, value) = start \o part
  BY DEF Codec!Extended, start, room, copy, part
<1> QED
  BY <1>5, <1>6, <1>7

LEMMA NumbersOfOptions == Codec!MaxNumber \in Nat
BY DEF Codec!MaxNumber

LEMMA ParsingInit ==
  ASSUME NEW d, d.bytes \in Seq(Codec!Byte), d.token_len \in 0..15,
         Codec!CoapAssumption, Codec!ParseInit(d)
  PROVE  Parsing
<1>1. 0 \in 0..Codec!MaxNumber
  BY NumbersOfOptions
<1> QED
  BY <1>1 DEF Codec!CoapAssumption, Codec!ParseInit, Parsing, Codec!TypeOK, Codec!InBounds, Codec!buf, Codec!len

(***************************************************************************)
(* One pass of the loop, for the option at the current offset.             *)
(***************************************************************************)
LEMMA ParsingRejects ==
  ASSUME Parsing, NEW at \in Nat, at <= Codec!len, Codec!Reject, touched' = at
  PROVE  Parsing' /\ result' # "options"
<1>1. datagram' = datagram /\ result' = "rejected" /\ UNCHANGED <<offset, last_opt_num, uri>>
  BY DEF Codec!Reject
<1>2. Codec!buf' = Codec!buf /\ Codec!len' = Codec!len
  BY <1>1 DEF Codec!buf, Codec!len
<1> QED
  BY <1>1, <1>2 DEF Parsing, Codec!TypeOK, Codec!InBounds

LEMMA ParsingReadOption ==
  ASSUME Codec!CoapAssumption, Parsing, Codec!ReadOption
  PROVE  Parsing' /\ (result' = "options" => offset' > offset)
<1> DEFINE delta == Codec!At(offset) \div 16
           length == Codec!At(offset) % 16
           at1 == offset + 1
           at2 == at1 + Codec!Width(delta)
           at3 == at2 + Codec!Width(length)
           n == Codec!Value(length, at2)
           number == last_opt_num + Codec!Value(delta, at1)
<1>1. /\ Codec!buf \in Seq(Codec!Byte) /\ Codec!len \in Nat /\ Codec!len = Len(Codec!buf) /\ offset \in Nat /\ offset < Codec!len
      /\ Len(uri) < MaxUri /\ uri \in Seq(Codec!Byte) /\ last_opt_num \in Int
      /\ result = "options" /\ MaxUri \in Nat \ {0}
  BY NumbersOfOptions DEF Parsing, Codec!TypeOK, Codec!InBounds, Codec!ReadOption, Codec!len, Codec!CoapAssumption
<1>2. delta \in 0..15 /\ length \in 0..15
  <2>1. Codec!At(offset) \in 0..255
    BY <1>1, AtType
  <2> QED
    BY <2>1, InHalves
<1>3. \/ ~Codec!Fits(delta, at1) /\ Codec!Reject /\ touched' = at1
      \/ Codec!Fits(delta, at1) /\ ~Codec!Fits(length, at2) /\ Codec!Reject /\ touched' = at2
      \/ Codec!Fits(delta, at1) /\ Codec!Fits(length, at2) /\ at3 + n > Codec!len /\ Codec!Reject /\ touched' = at3
      \/ /\ Codec!Fits(delta, at1) /\ Codec!Fits(length, at2) /\ ~(at3 + n > Codec!len)
         /\ Codec!Take(Codec!Value(delta, at1), n, at3)
  BY DEF Codec!ReadOption
<1>4. at1 \in Nat /\ offset < at1 /\ at1 <= Codec!len
  BY <1>1
<1> HIDE DEF delta, length, at1
<1>5. ASSUME Codec!Fits(delta, at1)
      PROVE  at2 \in Nat /\ at1 <= at2 /\ at2 <= Codec!len /\ Codec!Value(delta, at1) \in 0..255
  <2>1. delta \in 0..15 /\ at1 \in Nat /\ at1 <= Codec!len /\ Codec!buf \in Seq(Codec!Byte) /\ Codec!Fits(delta, at1)
    BY <1>1, <1>2, <1>4, <1>5
  <2> QED
    BY <2>1, FitsWithin, Zenon
<1> HIDE DEF at2
<1>6. ASSUME Codec!Fits(delta, at1), Codec!Fits(length, at2)
      PROVE  at3 \in Nat /\ at2 <= at3 /\ at3 <= Codec!len /\ n \in 0..255
  <2>1. length \in 0..15 /\ at2 \in Nat /\ at2 <= Codec!len /\ Codec!buf \in Seq(Codec!Byte) /\ Codec!Fits(length, at2)
    BY <1>1, <1>2, <1>5, <1>6
  <2> QED
    BY <2>1, FitsWithin, Zenon
<1> HIDE DEF at3, n
<1>7. ASSUME Codec!Fits(delta, at1), Codec!Fits(length, at2), ~(at3 + n > Codec!len),
             Codec!Take(Codec!Value(delta, at1), n, at3)
      PROVE  Parsing' /\ offset' > offset
  <2>1. at3 + n \in Nat /\ at3 + n <= Codec!len /\ offset < at3 + n /\ at3 \in Nat /\ at3 <= Codec!len
    <3>1. at2 \in Nat /\ at1 <= at2 /\ at3 \in Nat /\ at2 <= at3 /\ at3 <= Codec!len /\ n \in 0..255
      BY <1>5, <1>6, <1>7
    <3>2. ~(at3 + n > Codec!len)
      BY <1>7
    <3> QED
      BY <1>1, <1>4, <3>1, <3>2
  <2>2. /\ offset' = at3 + n /\ touched' \in {at3, at3 + n}
        /\ datagram' = datagram /\ result' = result
        /\ last_opt_num' = number % (Codec!MaxNumber + 1)
        /\ uri' = uri \/ uri' = Codec!Extended(uri, SubSeq(Codec!buf, at3 + 1, at3 + n))
    BY <1>7 DEF Codec!Take, Codec!PastValue
  <2>3. number \in Int
    <3> DEFINE d == Codec!Value(delta, at1)
    <3>1. d \in 0..255 /\ last_opt_num \in Int
      BY <1>1, <1>5, <1>7
    <3> HIDE DEF d
    <3>2. last_opt_num + d \in Int
      BY <3>1
    <3> QED
      BY <3>2 DEF d
  <2> HIDE DEF number
  <2>4. last_opt_num' \in 0..Codec!MaxNumber
    <3> DEFINE r == number % 65536
    <3>1. r \in Int /\ 0 <= r /\ r <= 65535
      BY <2>3
    <3>2. Codec!MaxNumber = 65535 /\ Codec!MaxNumber + 1 = 65536
      BY DEF Codec!MaxNumber
    <3>3. last_opt_num' = r
      BY <2>2, <3>2
    <3> HIDE DEF r
    <3>4. last_opt_num' \in Int /\ 0 <= last_opt_num' /\ last_opt_num' <= Codec!MaxNumber
      BY <3>1, <3>2, <3>3
    <3> QED
      BY <3>4, NumbersOfOptions
  <2>5. uri' \in Seq(Codec!Byte) /\ Len(uri') < MaxUri
    <3> DEFINE part == SubSeq(Codec!buf, at3 + 1, at3 + n)
    <3>1. part \in Seq(Codec!Byte)
      BY <1>1, <2>1
    <3>2. uri' = uri \/ uri' = Codec!Extended(uri, part)
      BY <2>2
    <3> HIDE DEF part
    <3>3. Codec!Extended(uri, part) \in Seq(Codec!Byte) /\ Len(Codec!Extended(uri, part)) < MaxUri
      <4>1. uri \in Seq(Codec!Byte) /\ Len(uri) < MaxUri
        BY <1>1
      <4>2. MaxUri \in Nat \ {0}
        BY DEF Codec!CoapAssumption
      <4> QED
        BY <3>1, <4>1, <4>2, ExtendedWithin, Zenon
    <3> QED
      BY <1>1, <3>2, <3>3
  <2>6. Codec!buf' = Codec!buf /\ Codec!len' = Codec!len
    BY <2>2 DEF Codec!buf, Codec!len
  <2>7. touched' \in Nat /\ touched' <= Codec!len /\ offset' \in Nat /\ offset' <= Codec!len /\ offset' > offset
    BY <1>1, <2>1, <2>2
  <2>8. /\ datagram'.token_len \in 0..15 /\ Codec!buf' \in Seq(Codec!Byte)
        /\ result' \in {"header", "options", "parsed", "rejected"}
    BY <1>1, <2>2, <2>6 DEF Parsing, Codec!TypeOK
  <2>9. Codec!TypeOK'
    BY <2>4, <2>5, <2>7, <2>8 DEF Codec!TypeOK
  <2>10. Codec!InBounds'
    BY <2>5, <2>6, <2>7 DEF Codec!InBounds
  <2> QED
    BY <2>7, <2>8, <2>9, <2>10 DEF Parsing
<1> QED
  BY <1>3, <1>4, <1>5, <1>6, <1>7, ParsingRejects

LEMMA ParsingStep == ASSUME Codec!CoapAssumption PROVE Parsing /\ [Codec!Next]_Codec!vars => Parsing'
<1> SUFFICES ASSUME Parsing, [Codec!Next]_Codec!vars PROVE Parsing'
  OBVIOUS
<1>1. CASE Codec!Header
  <2>1. CASE datagram.token_len > 8 \/ datagram.token_len > Codec!len
    <3>1. Codec!Reject /\ touched' = touched
      BY <1>1, <2>1 DEF Codec!Header
    <3>2. touched \in Nat /\ touched <= Codec!len
      BY DEF Parsing, Codec!TypeOK, Codec!InBounds
    <3> QED
      BY <3>1, <3>2, ParsingRejects
  <2>2. CASE ~(datagram.token_len > 8 \/ datagram.token_len > Codec!len)
    <3>1. /\ offset' = datagram.token_len /\ result' = "options"
          /\ UNCHANGED <<datagram, last_opt_num, uri, touched>>
      BY <1>1, <2>2 DEF Codec!Header
    <3>2. Codec!buf' = Codec!buf /\ Codec!len' = Codec!len /\ Codec!len \in Nat /\ datagram.token_len \in 0..15
      BY <3>1 DEF Codec!buf, Codec!len, Parsing, Codec!TypeOK
    <3> QED
      BY <2>2, <3>1, <3>2 DEF Parsing, Codec!TypeOK, Codec!InBounds
  <2> QED
    BY <2>1, <2>2
<1>2. CASE Codec!ReadOption
  BY <1>2, ParsingReadOption
<1>3. CASE Codec!Finish
  <2>1. /\ offset' = (IF offset < Codec!len THEN offset + 1 ELSE offset)
        /\ touched' = offset' /\ result' = "parsed"
        /\ UNCHANGED <<datagram, last_opt_num, uri>>
    BY <1>3 DEF Codec!Finish
  <2>2. Codec!buf' = Codec!buf /\ Codec!len' = Codec!len /\ Codec!len \in Nat /\ offset \in Nat /\ offset <= Codec!len
    BY <2>1 DEF Codec!buf, Codec!len, Parsing, Codec!TypeOK, Codec!InBounds
  <2>3. offset' \in Nat /\ offset' <= Codec!len
    BY <2>1, <2>2
  <2> QED
    BY <2>1, <2>2, <2>3 DEF Parsing, Codec!TypeOK, Codec!InBounds
<1>4. CASE UNCHANGED Codec!vars
  BY <1>4 DEF Codec!vars, Parsing, Codec!TypeOK, Codec!InBounds, Codec!buf, Codec!len
<1> QED
  BY <1>1, <1>2, <1>3, <1>4 DEF Codec!Next


(***************************************************************************)
(* What was written: where its options lie, and what their bytes are.      *)
(***************************************************************************)
IsByteSeq(s) == s \in Seq(Codec!Byte)

\* What an opt_len, a uint16_t, can say.
FitsLength(n) == n < 65536

\* Of b, the bytes from o up to e are the option with value v.
IsOption(b, o, e, delta, v) ==
    \/ /\ Len(v) < 13 /\ e = o + 1 + Len(v)
       /\ b[o + 1] = 16 * delta + Len(v)
       /\ \A j \in 1..Len(v) : b[o + 1 + j] = v[j]
    \/ /\ 13 <= Len(v) /\ e = o + 2 + Len(v)
       /\ b[o + 1] = 16 * delta + 13
       /\ b[o + 2] = Len(v) - 13
       /\ \A j \in 1..Len(v) : b[o + 2 + j] = v[j]

\* A segment whose length one byte holds.
IsSegment(v) == v \in Seq(Codec!Byte) /\ v # <<>> /\ Len(v) < 256

AllShort == \A i \in DOMAIN text.segments : Len(text.segments[i]) < 256

\* What is known of an option that was written.
Marks == [value : Seq(Codec!Byte), end : Nat, path : Seq(Codec!Byte)]

\* Option i of the list o ends at byte End(o, i).
End(o, i) == IF i = 0 THEN 0 ELSE o[i].end
PathOf(o, i) == IF i = 0 THEN <<>> ELSE o[i].path
DeltaOf(i) == IF i = 1 THEN 11 ELSE 0
Count == Len(options)

\* b has the options o, one behind the other.
Chain(b, o) ==
    \A i \in 1..Len(o) :
        /\ IsSegment(o[i].value)
        /\ IsByteSeq(o[i].path)
        /\ o[i].path = Codec!Behind(PathOf(o, i - 1), o[i].value)
        /\ o[i].end \in Nat /\ o[i].end <= Len(b)
        /\ IsOption(b, End(o, i - 1), o[i].end, DeltaOf(i), o[i].value)

\* Behind the options is the payload, if there is one.
Paid(b, e, p) ==
    \/ p = <<>> /\ Len(b) = e
    \/ /\ p # <<>> /\ Len(b) = e + 1 + Len(p)
       /\ b[e + 1] = 255
       /\ \A j \in 1..Len(p) : b[e + 1 + j] = p[j]

Building ==
    /\ text.segments \in Seq(Seq(Codec!Byte)) /\ IsByteSeq(text.payload) /\ text.room \in Nat
    /\ \A i \in DOMAIN text.segments : FitsLength(Len(text.segments[i]))
    /\ segment \in Nat \ {0}
    /\ IsByteSeq(written)
    /\ options \in Seq(Marks)
    /\ writing \in {"nothing", "path", "done", "failed", "sent"}
    /\ opt_num = IF Count = 0 THEN 0 ELSE 11
    /\ AllShort => Chain(written, options)
    /\ writing = "path" => End(options, Count) = Len(written)
    /\ writing \in {"done", "sent"} => Paid(written, End(options, Count), text.payload)

-----------------------------------------------------------------------------
LEMMA IsAByte == ASSUME NEW x \in Int, 0 <= x, x < 256 PROVE x \in Codec!Byte
BY DEF Codec!Byte

LEMMA BytesInSeq == ASSUME NEW x \in Codec!Byte PROVE <<x>> \in Seq(Codec!Byte) /\ Len(<<x>>) = 1
OBVIOUS

\* What stands in two sequences one behind the other, and in three.
LEMMA TwoParts ==
  ASSUME NEW S, NEW s \in Seq(S), NEW t \in Seq(S)
  PROVE  /\ s \o t \in Seq(S) /\ Len(s \o t) = Len(s) + Len(t)
         /\ Len(s) \in Nat /\ Len(t) \in Nat
         /\ \A i \in 1..Len(s) : (s \o t)[i] = s[i]
         /\ \A j \in 1..Len(t) : (s \o t)[Len(s) + j] = t[j]
<1>1. Len(s) \in Nat /\ Len(t) \in Nat
  OBVIOUS
<1>2. s \o t \in Seq(S) /\ Len(s \o t) = Len(s) + Len(t)
  BY ConcatProperties
<1>3. \A i \in 1..(Len(s) + Len(t)) : (s \o t)[i] = IF i <= Len(s) THEN s[i] ELSE t[i - Len(s)]
  BY ConcatProperties
<1>4. ASSUME NEW i \in 1..Len(s) PROVE (s \o t)[i] = s[i]
  BY <1>1, <1>3
<1>5. ASSUME NEW j \in 1..Len(t) PROVE (s \o t)[Len(s) + j] = t[j]
  <2>1. Len(s) + j \in 1..(Len(s) + Len(t)) /\ ~(Len(s) + j <= Len(s)) /\ (Len(s) + j) - Len(s) = j
    BY <1>1
  <2> QED
    BY <1>3, <2>1
<1> QED
  BY <1>1, <1>2, <1>4, <1>5

\* The delta of an option is short; its length may need one byte or two.
LEMMA EncodedIs ==
  ASSUME NEW n \in Nat
  PROVE  /\ n < 13 => Codec!Encoded(n).nibble = n /\ Codec!Encoded(n).ext = <<>>
         /\ 13 <= n /\ n < 269 => Codec!Encoded(n).nibble = 13 /\ Codec!Encoded(n).ext = <<n - 13>>
         /\ 269 <= n => /\ Codec!Encoded(n).nibble = 14
                        /\ Codec!Encoded(n).ext = <<(n - 269) \div 256, (n - 269) % 256>>
<1>1. CASE n < 13
  BY <1>1 DEF Codec!Encoded
<1>2. CASE 13 <= n /\ n < 269
  BY <1>2 DEF Codec!Encoded
<1>3. CASE 269 <= n
  BY <1>3 DEF Codec!Encoded
<1> QED
  BY <1>1, <1>2, <1>3

LEMMA EncodedBytes ==
  ASSUME NEW n \in Nat, FitsLength(n)
  PROVE  /\ Codec!Encoded(n).nibble \in 0..14
         /\ IsByteSeq(Codec!Encoded(n).ext)
<1> DEFINE e == Codec!Encoded(n)
<1>1. /\ n < 13 => e.nibble = n /\ e.ext = <<>>
      /\ 13 <= n /\ n < 269 => e.nibble = 13 /\ e.ext = <<n - 13>>
      /\ 269 <= n => e.nibble = 14 /\ e.ext = <<(n - 269) \div 256, (n - 269) % 256>>
  BY EncodedIs
<1> HIDE DEF e
<1>2. CASE n < 13
  <2>1. e.nibble \in 0..14
    BY <1>1, <1>2
  <2>2. e.ext = <<>>
    BY <1>1, <1>2
  <2> QED
    BY <2>1, <2>2 DEF IsByteSeq, e
<1>3. CASE 13 <= n /\ n < 269
  <2>1. n - 13 \in Codec!Byte
    BY <1>3, IsAByte
  <2>2. e.nibble = 13 /\ e.ext = <<n - 13>>
    BY <1>1, <1>3
  <2> DEFINE m == n - 13
  <2> HIDE DEF m
  <2>3. <<m>> \in Seq(Codec!Byte)
    BY <2>1, BytesInSeq DEF m
  <2>4. e.nibble \in 0..14
    BY <2>2
  <2> QED
    BY <2>2, <2>3, <2>4 DEF IsByteSeq, e, m
<1>4. CASE 269 <= n
  <2> DEFINE high == (n - 269) \div 256
             low == (n - 269) % 256
  <2>1. high \in Codec!Byte /\ low \in Codec!Byte
    <3>1. high \in Int /\ 0 <= high /\ high < 256 /\ low \in Int /\ 0 <= low /\ low < 256
      BY <1>4 DEF FitsLength
    <3> HIDE DEF high, low
    <3> QED
      BY <3>1, IsAByte
  <2>2. e.nibble = 14 /\ e.ext = <<high, low>>
    BY <1>1, <1>4
  <2> HIDE DEF high, low
  <2>3. <<high, low>> \in Seq(Codec!Byte)
    BY <2>1
  <2>4. e.nibble \in 0..14
    BY <2>2
  <2> QED
    BY <2>2, <2>3, <2>4 DEF IsByteSeq, e
<1> QED
  BY <1>2, <1>3, <1>4

LEMMA OptionBytes ==
  ASSUME NEW delta \in 0..11, NEW v, IsByteSeq(v), FitsLength(Len(v))
  PROVE  /\ IsByteSeq(Codec!Option(delta, v))
         /\ Len(Codec!Option(delta, v)) \in Nat
         /\ Len(v) < 256 => IsOption(Codec!Option(delta, v), 0, Len(Codec!Option(delta, v)), delta, v)
<1> DEFINE l == Codec!Encoded(Len(v))
           x == 16 * delta + l.nibble
           head == <<x>>
           front == head \o l.ext
           all == front \o v
<1>1. v \in Seq(Codec!Byte) /\ Len(v) \in Nat
  BY DEF IsByteSeq
<1>2. Codec!Encoded(delta).nibble = delta /\ Codec!Encoded(delta).ext = <<>>
  BY EncodedIs
<1>3. l.nibble \in 0..14 /\ l.ext \in Seq(Codec!Byte)
  BY <1>1, EncodedBytes DEF IsByteSeq
<1>4. Len(v) < 13 => l.nibble = Len(v) /\ l.ext = <<>>
  BY <1>1, EncodedIs
<1>5. 13 <= Len(v) /\ Len(v) < 256 => l.nibble = 13 /\ l.ext = <<Len(v) - 13>>
  BY <1>1, EncodedIs
<1> HIDE DEF l
<1>6. x \in Codec!Byte
  <2> DEFINE nib == l.nibble
  <2>1. nib \in 0..14
    BY <1>3
  <2> HIDE DEF nib
  <2>2. 16 * delta + nib \in Int /\ 0 <= 16 * delta + nib /\ 16 * delta + nib < 256
    BY <2>1
  <2>3. x = 16 * delta + nib
    BY DEF nib
  <2> HIDE DEF x
  <2> QED
    BY <2>2, <2>3, IsAByte
<1> HIDE DEF x
<1>7. head \in Seq(Codec!Byte) /\ Len(head) = 1 /\ head[1] = x
  <2>1. head \in Seq(Codec!Byte) /\ Len(head) = 1
    BY <1>6, BytesInSeq, Zenon
  <2>2. head[1] = x
    OBVIOUS
  <2> QED
    BY <2>1, <2>2
<1>8. Codec!Option(delta, v) = all
  <2>1. Codec!Option(delta, v) = <<16 * Codec!Encoded(delta).nibble + l.nibble>>
                                   \o Codec!Encoded(delta).ext \o l.ext \o v
    BY DEF Codec!Option, l
  <2>2. Codec!Option(delta, v) = head \o <<>> \o l.ext \o v
    BY <1>2, <2>1 DEF head, x
  <2>3. head \o <<>> = head
    BY <1>7, ConcatEmptySeq
  <2> QED
    BY <2>2, <2>3
<1> HIDE DEF head
<1>9. /\ front \in Seq(Codec!Byte) /\ Len(front) = 1 + Len(l.ext) /\ Len(l.ext) \in Nat
      /\ front[1] = x
      /\ \A j \in 1..Len(l.ext) : front[1 + j] = l.ext[j]
  <2>1. 1 \in 1..Len(head)
    BY <1>7
  <2>2. head \in Seq(Codec!Byte) /\ l.ext \in Seq(Codec!Byte)
    BY <1>3, <1>7
  <2>3. /\ front \in Seq(Codec!Byte) /\ Len(front) = Len(head) + Len(l.ext) /\ Len(l.ext) \in Nat
        /\ \A j \in 1..Len(head) : front[j] = head[j]
        /\ \A j \in 1..Len(l.ext) : front[Len(head) + j] = l.ext[j]
    BY <2>2, TwoParts
  <2> HIDE DEF front
  <2> QED
    BY <1>7, <2>1, <2>3
<1> HIDE DEF front, all
<1>10. /\ all \in Seq(Codec!Byte) /\ Len(all) = Len(front) + Len(v)
       /\ \A i \in 1..Len(front) : all[i] = front[i]
       /\ \A j \in 1..Len(v) : all[Len(front) + j] = v[j]
  <2>1. front \in Seq(Codec!Byte) /\ v \in Seq(Codec!Byte)
    BY <1>1, <1>9
  <2> QED
    BY <2>1, TwoParts DEF all
<1>11. all[1] = x
  <2>1. 1 \in 1..Len(front)
    BY <1>9
  <2> QED
    BY <1>9, <1>10, <2>1
<1>12. CASE Len(v) < 13
  <2>1. Len(front) = 1 /\ x = 16 * delta + Len(v)
    BY <1>4, <1>9, <1>12 DEF x
  <2>2. IsOption(all, 0, Len(all), delta, v)
    BY <1>1, <1>10, <1>11, <1>12, <2>1 DEF IsOption
  <2> QED
    BY <1>1, <1>8, <1>9, <1>10, <2>2 DEF IsByteSeq
<1>13. CASE 13 <= Len(v) /\ Len(v) < 256
  <2>1. l.ext = <<Len(v) - 13>> /\ x = 16 * delta + 13
    BY <1>5, <1>13 DEF x
  <2>2. Len(l.ext) = 1 /\ l.ext[1] = Len(v) - 13
    BY <2>1
  <2>3. Len(front) = 2 /\ front[2] = Len(v) - 13
    <3>1. 1 \in 1..Len(l.ext)
      BY <2>2
    <3>2. front[1 + 1] = l.ext[1]
      BY <1>9, <3>1
    <3> QED
      BY <1>9, <2>2, <3>2
  <2>4. all[2] = Len(v) - 13
    BY <1>10, <2>3
  <2>5. IsOption(all, 0, Len(all), delta, v)
    BY <1>1, <1>10, <1>11, <1>13, <2>1, <2>3, <2>4 DEF IsOption
  <2> QED
    BY <1>1, <1>8, <1>9, <1>10, <2>5 DEF IsByteSeq
<1>14. CASE ~(Len(v) < 256)
  BY <1>1, <1>8, <1>9, <1>10, <1>14 DEF IsByteSeq
<1> QED
  BY <1>1, <1>12, <1>13, <1>14

\* An option keeps its bytes at another place.
LEMMA OptionMoves ==
  ASSUME NEW a, NEW b, NEW o \in Nat, NEW n \in Nat, NEW k \in Nat, NEW delta \in 0..11, NEW v,
         IsByteSeq(v), IsOption(a, o, n, delta, v),
         \A i \in Nat : o < i /\ i <= n => b[k + i] = a[i]
  PROVE  IsOption(b, k + o, k + n, delta, v)
<1>1. Len(v) \in Nat
  BY DEF IsByteSeq
<1>2. CASE Len(v) < 13 /\ n = o + 1 + Len(v) /\ a[o + 1] = 16 * delta + Len(v)
           /\ \A j \in 1..Len(v) : a[o + 1 + j] = v[j]
  <2>1. b[k + (o + 1)] = a[o + 1]
    BY <1>1, <1>2
  <2>2. ASSUME NEW j \in 1..Len(v) PROVE b[k + (o + 1 + j)] = v[j]
    <3>1. o + 1 + j \in Nat /\ o < o + 1 + j /\ o + 1 + j <= n
      BY <1>1, <1>2
    <3>2. a[o + 1 + j] = v[j]
      BY <1>2
    <3> QED
      BY <3>1, <3>2
  <2>3. ASSUME NEW j \in 1..Len(v) PROVE b[(k + o) + 1 + j] = v[j]
    <3>1. (k + o) + 1 + j = k + (o + 1 + j)
      BY <1>1
    <3> QED
      BY <2>2, <3>1
  <2>4. (k + o) + 1 = k + (o + 1) /\ k + n = (k + o) + 1 + Len(v)
    BY <1>1, <1>2
  <2>5. b[(k + o) + 1] = 16 * delta + Len(v)
    BY <1>2, <2>1, <2>4
  <2> QED
    BY <1>2, <2>3, <2>4, <2>5 DEF IsOption
<1>3. CASE 13 <= Len(v) /\ n = o + 2 + Len(v) /\ a[o + 1] = 16 * delta + 13 /\ a[o + 2] = Len(v) - 13
           /\ \A j \in 1..Len(v) : a[o + 2 + j] = v[j]
  <2>1. b[k + (o + 1)] = a[o + 1] /\ b[k + (o + 2)] = a[o + 2]
    BY <1>1, <1>3
  <2>2. ASSUME NEW j \in 1..Len(v) PROVE b[k + (o + 2 + j)] = v[j]
    <3>1. o + 2 + j \in Nat /\ o < o + 2 + j /\ o + 2 + j <= n
      BY <1>1, <1>3
    <3>2. a[o + 2 + j] = v[j]
      BY <1>3
    <3> QED
      BY <3>1, <3>2
  <2>3. ASSUME NEW j \in 1..Len(v) PROVE b[(k + o) + 2 + j] = v[j]
    <3>1. (k + o) + 2 + j = k + (o + 2 + j)
      BY <1>1
    <3> QED
      BY <2>2, <3>1
  <2>4. (k + o) + 1 = k + (o + 1) /\ (k + o) + 2 = k + (o + 2) /\ k + n = (k + o) + 2 + Len(v)
    BY <1>1, <1>3
  <2>5. b[(k + o) + 1] = 16 * delta + 13 /\ b[(k + o) + 2] = Len(v) - 13
    BY <1>3, <2>1, <2>4
  <2> QED
    BY <1>3, <2>3, <2>4, <2>5 DEF IsOption
<1> QED
  BY <1>2, <1>3 DEF IsOption

-----------------------------------------------------------------------------
(* Writing *)

LEMMA EndType ==
  ASSUME NEW o \in Seq(Marks), NEW i \in 0..Len(o)
  PROVE  End(o, i) \in Nat /\ PathOf(o, i) \in Seq(Codec!Byte)
<1>1. CASE i = 0
  BY <1>1 DEF End, PathOf
<1>2. CASE i # 0
  <2>1. o[i] \in Marks
    BY <1>2
  <2> QED
    BY <1>2, <2>1 DEF End, PathOf, Marks
<1> QED
  BY <1>1, <1>2

LEMMA BehindType ==
  ASSUME NEW p \in Seq(Codec!Byte), NEW v \in Seq(Codec!Byte)
  PROVE  Codec!Behind(p, v) \in Seq(Codec!Byte)
<1>1. Codec!Slash \in Codec!Byte
  BY DEF Codec!Slash, Codec!Byte
<1>2. <<Codec!Slash>> \in Seq(Codec!Byte)
  BY <1>1
<1>3. p \o <<Codec!Slash>> \in Seq(Codec!Byte)
  BY <1>2, TwoParts
<1>4. p \o <<Codec!Slash>> \o v \in Seq(Codec!Byte)
  BY <1>3, TwoParts
<1> QED
  BY <1>4 DEF Codec!Behind

\* Options stay where they are when more is written.
LEMMA ChainStays ==
  ASSUME NEW b, NEW c, NEW o \in Seq(Marks), Len(b) \in Nat, Len(c) \in Nat, Chain(b, o),
         Len(b) <= Len(c), \A i \in 1..Len(b) : c[i] = b[i]
  PROVE  Chain(c, o)
<1> SUFFICES ASSUME NEW i \in 1..Len(o)
             PROVE  /\ IsSegment(o[i].value)
                    /\ IsByteSeq(o[i].path)
                    /\ o[i].path = Codec!Behind(PathOf(o, i - 1), o[i].value)
                    /\ o[i].end \in Nat /\ o[i].end <= Len(c)
                    /\ IsOption(c, End(o, i - 1), o[i].end, DeltaOf(i), o[i].value)
  BY DEF Chain
<1> DEFINE v == o[i].value
           from == End(o, i - 1)
           to == o[i].end
           delta == DeltaOf(i)
<1>1. /\ IsSegment(v) /\ IsByteSeq(o[i].path)
      /\ o[i].path = Codec!Behind(PathOf(o, i - 1), v)
      /\ to \in Nat /\ to <= Len(b)
      /\ IsOption(b, from, to, delta, v)
  BY DEF Chain
<1>2. from \in Nat
  <2>1. i - 1 \in 0..Len(o)
    OBVIOUS
  <2> QED
    BY <2>1, EndType
<1>3. delta \in 0..11 /\ IsByteSeq(v)
  BY <1>1 DEF DeltaOf, IsSegment, IsByteSeq
<1> HIDE DEF v, from, to, delta
<1>4. IsOption(c, 0 + from, 0 + to, delta, v)
  <2>1. \A j \in Nat : from < j /\ j <= to => c[0 + j] = b[j]
    BY <1>1, <1>2
  <2>2. 0 \in Nat
    OBVIOUS
  <2> QED
    BY <1>1, <1>2, <1>3, <2>1, <2>2, OptionMoves
<1>5. 0 + from = from /\ 0 + to = to
  BY <1>1, <1>2
<1>6. to <= Len(c)
  BY <1>1
<1> QED
  BY <1>1, <1>4, <1>5, <1>6 DEF v, from, to, delta

\* One more option is written behind the others.
LEMMA ChainGrows ==
  ASSUME NEW b, IsByteSeq(b), NEW t, IsByteSeq(t), NEW o \in Seq(Marks), Chain(b, o),
         End(o, Len(o)) = Len(b), NEW v, IsSegment(v),
         IsOption(t, 0, Len(t), DeltaOf(Len(o) + 1), v)
  PROVE  LET mark == [value |-> v, end |-> Len(b) + Len(t),
                      path |-> Codec!Behind(PathOf(o, Len(o)), v)]
         IN  /\ Chain(b \o t, Append(o, mark))
             /\ Append(o, mark) \in Seq(Marks)
             /\ End(Append(o, mark), Len(o) + 1) = Len(b \o t)
<1> DEFINE path == Codec!Behind(PathOf(o, Len(o)), v)
           mark == [value |-> v, end |-> Len(b) + Len(t), path |-> path]
           all == Append(o, mark)
           c == b \o t
           n == Len(o)
<1>1. /\ b \in Seq(Codec!Byte) /\ t \in Seq(Codec!Byte) /\ v \in Seq(Codec!Byte)
      /\ Len(b) \in Nat /\ Len(t) \in Nat /\ n \in Nat
  BY DEF IsByteSeq, IsSegment
<1>2. /\ c \in Seq(Codec!Byte) /\ Len(c) = Len(b) + Len(t)
      /\ \A i \in 1..Len(b) : c[i] = b[i]
      /\ \A j \in 1..Len(t) : c[Len(b) + j] = t[j]
  BY <1>1, TwoParts
<1> HIDE DEF c
<1>3. path \in Seq(Codec!Byte)
  <2>1. n \in 0..Len(o)
    BY <1>1
  <2>2. PathOf(o, n) \in Seq(Codec!Byte)
    BY <2>1, EndType
  <2> QED
    BY <1>1, <2>2, BehindType
<1> HIDE DEF path
<1>4. mark \in Marks /\ mark.value = v /\ mark.end = Len(b) + Len(t) /\ mark.path = path
  BY <1>1, <1>3 DEF Marks
<1> HIDE DEF mark
<1>5. all \in Seq(Marks) /\ Len(all) = n + 1 /\ all[n + 1] = mark /\ \A i \in 1..n : all[i] = o[i]
  BY <1>1, <1>4
<1> HIDE DEF all
<1>6. \A i \in 0..n : End(all, i) = End(o, i) /\ PathOf(all, i) = PathOf(o, i)
  <2> SUFFICES ASSUME NEW i \in 0..n PROVE End(all, i) = End(o, i) /\ PathOf(all, i) = PathOf(o, i)
    OBVIOUS
  <2>1. i # 0 => all[i] = o[i]
    BY <1>1, <1>5
  <2> QED
    BY <2>1 DEF End, PathOf
<1>7. Chain(c, o)
  <2>1. Len(c) \in Nat /\ Len(b) <= Len(c)
    BY <1>1, <1>2
  <2> QED
    BY <1>1, <1>2, <2>1, ChainStays
<1>8. Chain(c, all)
  <2> SUFFICES ASSUME NEW i \in 1..(n + 1)
               PROVE  /\ IsSegment(all[i].value)
                      /\ IsByteSeq(all[i].path)
                      /\ all[i].path = Codec!Behind(PathOf(all, i - 1), all[i].value)
                      /\ all[i].end \in Nat /\ all[i].end <= Len(c)
                      /\ IsOption(c, End(all, i - 1), all[i].end, DeltaOf(i), all[i].value)
    BY <1>5 DEF Chain
  <2>1. CASE i \in 1..n
    <3>1. all[i] = o[i] /\ i - 1 \in 0..n
      BY <1>1, <1>5, <2>1
    <3>2. End(all, i - 1) = End(o, i - 1) /\ PathOf(all, i - 1) = PathOf(o, i - 1)
      BY <1>6, <3>1
    <3>3. i \in 1..Len(o)
      BY <2>1
    <3> HIDE DEF n
    <3> QED
      BY <1>7, <3>1, <3>2, <3>3 DEF Chain
  <2>2. CASE i = n + 1
    <3>1. all[i] = mark /\ i - 1 = n /\ n \in 0..n
      BY <1>1, <1>5, <2>2
    <3>2. End(all, i - 1) = Len(b) /\ PathOf(all, i - 1) = PathOf(o, n)
      BY <1>6, <3>1
    <3>3. IsOption(c, Len(b) + 0, Len(b) + Len(t), DeltaOf(n + 1), v)
      <4>1. \A j \in Nat : 0 < j /\ j <= Len(t) => c[Len(b) + j] = t[j]
        BY <1>1, <1>2
      <4>2. DeltaOf(n + 1) \in 0..11 /\ 0 \in Nat /\ IsByteSeq(v)
        BY <1>1 DEF DeltaOf, IsByteSeq
      <4> QED
        BY <1>1, <4>1, <4>2, OptionMoves
    <3>4. Len(b) + 0 = Len(b) /\ Len(b) + Len(t) \in Nat
      BY <1>1
    <3>5. IsByteSeq(path) /\ path = Codec!Behind(PathOf(o, n), v)
      BY <1>3 DEF IsByteSeq, path
    <3> QED
      BY <1>2, <1>4, <2>2, <3>1, <3>2, <3>3, <3>4, <3>5
  <2> QED
    BY <1>1, <2>1, <2>2
<1>9. End(all, n + 1) = Len(c)
  <2>1. n + 1 # 0
    BY <1>1
  <2> QED
    BY <1>2, <1>4, <1>5, <2>1 DEF End
<1> QED
  BY <1>5, <1>8, <1>9 DEF all, mark, path, c, n

\* The payload is written behind the options.
LEMMA PayloadIsPaid ==
  ASSUME NEW b, IsByteSeq(b), NEW p, IsByteSeq(p)
  PROVE  LET c == IF p = <<>> THEN b ELSE b \o <<Codec!Marker>> \o p
         IN  /\ IsByteSeq(c) /\ Len(b) <= Len(c) /\ \A i \in 1..Len(b) : c[i] = b[i]
             /\ Paid(c, Len(b), p)
<1>1. b \in Seq(Codec!Byte) /\ p \in Seq(Codec!Byte) /\ Len(b) \in Nat /\ Len(p) \in Nat
  BY DEF IsByteSeq
<1>2. CASE p = <<>>
  BY <1>1, <1>2 DEF Paid, IsByteSeq
<1>3. CASE p # <<>>
  <2> DEFINE m == Codec!Marker
             one == <<m>>
             bm == b \o one
             c == bm \o p
  <2>1. m \in Codec!Byte /\ m = 255
    BY DEF Codec!Marker, Codec!Byte
  <2> HIDE DEF m
  <2>2. one \in Seq(Codec!Byte) /\ Len(one) = 1 /\ one[1] = m
    BY <2>1
  <2> HIDE DEF one, bm, c
  <2>3. /\ bm \in Seq(Codec!Byte) /\ Len(bm) = Len(b) + Len(one)
        /\ \A i \in 1..Len(b) : bm[i] = b[i]
        /\ \A j \in 1..Len(one) : bm[Len(b) + j] = one[j]
    <3>1. b \in Seq(Codec!Byte) /\ one \in Seq(Codec!Byte)
      BY <1>1, <2>2
    <3> QED
      BY <3>1, TwoParts DEF bm
  <2>4. /\ c \in Seq(Codec!Byte) /\ Len(c) = Len(bm) + Len(p)
        /\ \A i \in 1..Len(bm) : c[i] = bm[i]
        /\ \A j \in 1..Len(p) : c[Len(bm) + j] = p[j]
    <3>1. bm \in Seq(Codec!Byte) /\ p \in Seq(Codec!Byte)
      BY <1>1, <2>3
    <3> QED
      BY <3>1, TwoParts DEF c
  <2>5. Len(bm) = Len(b) + 1 /\ bm[Len(b) + 1] = m
    <3>1. 1 \in 1..Len(one)
      BY <2>2
    <3> QED
      BY <2>2, <2>3, <3>1
  <2>6. c[Len(b) + 1] = m
    <3>1. Len(b) + 1 \in 1..Len(bm)
      BY <1>1, <2>5
    <3> QED
      BY <2>4, <2>5, <3>1
  <2>7. \A i \in 1..Len(b) : c[i] = b[i]
    <3> SUFFICES ASSUME NEW i \in 1..Len(b) PROVE c[i] = b[i]
      OBVIOUS
    <3>1. i \in 1..Len(bm)
      BY <1>1, <2>5
    <3> QED
      BY <2>3, <2>4, <3>1
  <2>8. Paid(c, Len(b), p) /\ Len(b) <= Len(c)
    BY <1>1, <1>3, <2>1, <2>4, <2>5, <2>6 DEF Paid
  <2>9. (IF p = <<>> THEN b ELSE b \o <<Codec!Marker>> \o p) = c
    BY <1>3 DEF c, bm, one, m
  <2> QED
    BY <2>4, <2>7, <2>8, <2>9 DEF IsByteSeq
<1> QED
  BY <1>2, <1>3

-----------------------------------------------------------------------------
(* Reading *)

Least(m, n) == IF m < n THEN m ELSE n

\* The first n of a sequence.
LEMMA FirstOf ==
  ASSUME NEW S, NEW s \in Seq(S), NEW n \in 0..Len(s)
  PROVE  /\ SubSeq(s, 1, n) \in Seq(S) /\ Len(SubSeq(s, 1, n)) = n
         /\ \A i \in 1..n : SubSeq(s, 1, n)[i] = s[i]
<1>1. n \in Int /\ 0 <= n /\ n <= Len(s) /\ Len(s) \in Nat
  OBVIOUS
<1>2. \A i \in 1..n : s[i] \in S
  BY <1>1
<1>3. /\ SubSeq(s, 1, n) \in Seq(S)
      /\ Len(SubSeq(s, 1, n)) = IF 1 <= n THEN n - 1 + 1 ELSE 0
      /\ \A i \in 1..(n - 1 + 1) : SubSeq(s, 1, n)[i] = s[1 + i - 1]
  BY <1>1, <1>2, SubSeqProperties
<1>4. (IF 1 <= n THEN n - 1 + 1 ELSE 0) = n /\ n - 1 + 1 = n
  BY <1>1
<1>5. ASSUME NEW i \in 1..n PROVE SubSeq(s, 1, n)[i] = s[i]
  <2>1. 1 + i - 1 = i
    OBVIOUS
  <2> QED
    BY <1>3, <1>4, <2>1
<1> QED
  BY <1>3, <1>4, <1>5

LEMMA CutIs ==
  ASSUME MaxUri \in Nat \ {0}, NEW p \in Seq(Codec!Byte)
  PROVE  /\ Codec!Cut(p) \in Seq(Codec!Byte)
         /\ Len(Codec!Cut(p)) = Least(Len(p), MaxUri - 1)
         /\ \A i \in 1..Least(Len(p), MaxUri - 1) : Codec!Cut(p)[i] = p[i]
<1> DEFINE n == IF Len(p) < MaxUri THEN Len(p) ELSE MaxUri - 1
<1>1. n = Least(Len(p), MaxUri - 1) /\ n \in 0..Len(p)
  BY DEF Least
<1>2. Codec!Cut(p) = SubSeq(p, 1, n)
  BY DEF Codec!Cut
<1> HIDE DEF n
<1> QED
  BY <1>1, <1>2, FirstOf

\* Where the parser puts a segment that it appends to c, and its room there.
StartOf(c) == IF c # <<>> /\ Len(c) < MaxUri - 1 THEN Append(c, Codec!Slash) ELSE c
RoomOf(c) == MaxUri - 1 - Len(StartOf(c))

LEMMA ExtendedIs ==
  ASSUME NEW c, NEW v \in Seq(Codec!Byte), StartOf(c) \in Seq(Codec!Byte), RoomOf(c) \in Nat
  PROVE  /\ Codec!Extended(c, v) \in Seq(Codec!Byte)
         /\ Len(Codec!Extended(c, v)) = Len(StartOf(c)) + Least(Len(v), RoomOf(c))
         /\ \A i \in 1..Len(StartOf(c)) : Codec!Extended(c, v)[i] = StartOf(c)[i]
         /\ \A j \in 1..Least(Len(v), RoomOf(c)) : Codec!Extended(c, v)[Len(StartOf(c)) + j] = v[j]
<1> DEFINE start == StartOf(c)
           room == RoomOf(c)
           n == Least(Len(v), room)
           part == SubSeq(v, 1, n)
           all == start \o part
<1>1. n \in 0..Len(v)
  BY DEF Least
<1>2. Codec!Extended(c, v) = all
  BY DEF Codec!Extended, Least, StartOf, RoomOf
<1> HIDE DEF start, room, n, part, all
<1>3. part \in Seq(Codec!Byte) /\ Len(part) = n /\ \A j \in 1..n : part[j] = v[j]
  BY <1>1, FirstOf DEF part
<1>4. /\ all \in Seq(Codec!Byte) /\ Len(all) = Len(start) + Len(part)
      /\ \A i \in 1..Len(start) : all[i] = start[i]
      /\ \A j \in 1..Len(part) : all[Len(start) + j] = part[j]
  <2>1. start \in Seq(Codec!Byte) /\ part \in Seq(Codec!Byte)
    BY <1>3 DEF start
  <2> QED
    BY <2>1, TwoParts DEF all
<1> QED
  BY <1>2, <1>3, <1>4 DEF n, start, room

LEMMA BehindIs ==
  ASSUME NEW p \in Seq(Codec!Byte), p # <<>>, NEW v \in Seq(Codec!Byte)
  PROVE  LET w == Codec!Behind(p, v)
         IN  /\ w \in Seq(Codec!Byte) /\ Len(w) = Len(p) + 1 + Len(v)
             /\ \A i \in 1..Len(p) : w[i] = p[i]
             /\ w[Len(p) + 1] = Codec!Slash
             /\ \A j \in 1..Len(v) : w[Len(p) + 1 + j] = v[j]
<1> DEFINE slash == <<Codec!Slash>>
           ps == p \o slash
           w == ps \o v
<1>1. Codec!Slash \in Codec!Byte /\ Len(p) \in Nat
  BY DEF Codec!Slash, Codec!Byte
<1>2. slash \in Seq(Codec!Byte) /\ Len(slash) = 1 /\ slash[1] = Codec!Slash
  BY <1>1
<1>3. Codec!Behind(p, v) = w
  BY DEF Codec!Behind
<1> HIDE DEF slash, ps, w
<1>4. /\ ps \in Seq(Codec!Byte) /\ Len(ps) = Len(p) + Len(slash)
      /\ \A i \in 1..Len(p) : ps[i] = p[i]
      /\ \A j \in 1..Len(slash) : ps[Len(p) + j] = slash[j]
  <2>1. slash \in Seq(Codec!Byte)
    BY <1>2
  <2> QED
    BY <2>1, TwoParts DEF ps
<1>5. /\ w \in Seq(Codec!Byte) /\ Len(w) = Len(ps) + Len(v)
      /\ \A i \in 1..Len(ps) : w[i] = ps[i]
      /\ \A j \in 1..Len(v) : w[Len(ps) + j] = v[j]
  <2>1. ps \in Seq(Codec!Byte)
    BY <1>4
  <2> QED
    BY <2>1, TwoParts DEF w
<1>6. Len(ps) = Len(p) + 1 /\ ps[Len(p) + 1] = Codec!Slash
  <2>1. 1 \in 1..Len(slash)
    BY <1>2
  <2> QED
    BY <1>2, <1>4, <2>1
<1>7. w[Len(p) + 1] = Codec!Slash
  <2>1. Len(p) + 1 \in 1..Len(ps)
    BY <1>1, <1>6
  <2> QED
    BY <1>5, <1>6, <2>1
<1>8. \A i \in 1..Len(p) : w[i] = p[i]
  <2> SUFFICES ASSUME NEW i \in 1..Len(p) PROVE w[i] = p[i]
    OBVIOUS
  <2>1. i \in 1..Len(ps)
    BY <1>1, <1>6
  <2> QED
    BY <1>4, <1>5, <2>1
<1> QED
  BY <1>3, <1>5, <1>6, <1>7, <1>8

(***************************************************************************)
(* The parser's path is the beginning of the path that was written, after  *)
(* every segment.                                                          *)
(***************************************************************************)
LEMMA CutExtends ==
  ASSUME MaxUri \in Nat \ {0}, NEW p \in Seq(Codec!Byte), NEW v \in Seq(Codec!Byte), v # <<>>
  PROVE  Codec!Extended(Codec!Cut(p), v) = Codec!Cut(Codec!Behind(p, v))
<1> DEFINE c == Codec!Cut(p)
           w == Codec!Behind(p, v)
           x == Codec!Extended(c, v)
           y == Codec!Cut(w)
           most == MaxUri - 1
<1>1. most \in Nat /\ Len(p) \in Nat /\ Len(v) \in Nat /\ Len(v) > 0
  OBVIOUS
<1>2. /\ c \in Seq(Codec!Byte) /\ Len(c) = Least(Len(p), most)
      /\ \A i \in 1..Least(Len(p), most) : c[i] = p[i]
  BY CutIs
<1>3. w \in Seq(Codec!Byte)
  BY BehindType
<1>4. /\ y \in Seq(Codec!Byte) /\ Len(y) = Least(Len(w), most)
      /\ \A i \in 1..Least(Len(w), most) : y[i] = w[i]
  BY <1>3, CutIs
<1>5. StartOf(c) \in Seq(Codec!Byte) /\ RoomOf(c) \in Nat =>
        /\ x \in Seq(Codec!Byte)
        /\ Len(x) = Len(StartOf(c)) + Least(Len(v), RoomOf(c))
        /\ \A i \in 1..Len(StartOf(c)) : x[i] = StartOf(c)[i]
        /\ \A j \in 1..Least(Len(v), RoomOf(c)) : x[Len(StartOf(c)) + j] = v[j]
  <2> HIDE DEF c
  <2> QED
    BY ExtendedIs
<1>6. p # <<>> => /\ Len(w) = Len(p) + 1 + Len(v)
                  /\ \A i \in 1..Len(p) : w[i] = p[i]
                  /\ w[Len(p) + 1] = Codec!Slash
                  /\ \A j \in 1..Len(v) : w[Len(p) + 1 + j] = v[j]
  BY BehindIs
<1>7. p = <<>> => w = v
  BY DEF Codec!Behind
<1> HIDE DEF c, w, x, y, most
<1>8. CASE p = <<>>
  <2>1. c = <<>> /\ Len(c) = 0
    BY <1>1, <1>2, <1>8 DEF Least
  <2>2. /\ x \in Seq(Codec!Byte) /\ Len(x) = Len(c) + Least(Len(v), most)
        /\ \A j \in 1..Least(Len(v), most) : x[Len(c) + j] = v[j]
    <3>1. StartOf(c) = c
      BY <2>1 DEF StartOf
    <3>2. RoomOf(c) = most
      BY <1>1, <2>1, <3>1 DEF RoomOf, most
    <3> QED
      BY <1>1, <1>2, <1>5, <3>1, <3>2
  <2>3. Least(Len(v), most) \in Nat
    BY <1>1 DEF Least
  <2>4. Len(x) = Len(y) /\ \A i \in 1..Len(x) : x[i] = y[i]
    BY <1>4, <1>7, <1>8, <2>1, <2>2, <2>3
  <2> QED
    BY <1>4, <2>2, <2>4, SeqEqual DEF x, y, c, w
<1>9. CASE p # <<>> /\ Len(p) >= most
  <2>1. Len(c) = most /\ ~(Len(c) < most) /\ 0 = most - Len(c)
    BY <1>1, <1>2, <1>9 DEF Least
  <2>2. /\ x \in Seq(Codec!Byte) /\ Len(x) = Len(c) + Least(Len(v), 0)
        /\ \A i \in 1..Len(c) : x[i] = c[i]
    <3>1. StartOf(c) = c
      BY <2>1 DEF StartOf, most
    <3>2. RoomOf(c) = 0
      BY <2>1, <3>1 DEF RoomOf, most
    <3> QED
      BY <1>2, <1>5, <3>1, <3>2
  <2>3. Least(Len(v), 0) = 0 /\ Least(Len(w), most) = most /\ Least(Len(p), most) = most
    BY <1>1, <1>6, <1>9 DEF Least
  <2>4. Len(x) = most /\ Len(y) = most
    BY <1>1, <1>4, <2>1, <2>2, <2>3
  <2>5. ASSUME NEW i \in 1..most PROVE x[i] = y[i]
    <3>1. x[i] = c[i] /\ c[i] = p[i] /\ y[i] = w[i]
      BY <1>2, <1>4, <2>1, <2>2, <2>3
    <3>2. i \in 1..Len(p)
      BY <1>1, <1>9
    <3> QED
      BY <1>6, <1>9, <3>1, <3>2
  <2>6. x = y
    BY <1>4, <2>2, <2>4, <2>5, SeqEqual
  <2> QED
    BY <2>6 DEF x, y, c, w
<1>10. CASE p # <<>> /\ Len(p) < most
  <2> DEFINE start == Append(c, Codec!Slash)
             room == most - Len(start)
             least == Least(Len(v), room)
  <2>1. Len(c) = Len(p) /\ c # <<>> /\ Least(Len(p), most) = Len(p)
    <3>1. Len(p) # 0
      BY <1>1, <1>10
    <3>2. Least(Len(p), most) = Len(p)
      BY <1>1, <1>10 DEF Least
    <3>3. Len(c) # 0
      BY <1>2, <3>1, <3>2
    <3> QED
      BY <1>2, <3>2, <3>3
  <2>2. Codec!Slash \in Codec!Byte
    BY DEF Codec!Slash, Codec!Byte
  <2>3. /\ start \in Seq(Codec!Byte) /\ Len(start) = Len(p) + 1
        /\ start[Len(p) + 1] = Codec!Slash
        /\ \A i \in 1..Len(p) : start[i] = c[i]
    BY <1>2, <2>1, <2>2
  <2> HIDE DEF start
  <2>4. room \in Nat /\ room = most - (Len(p) + 1) /\ room = most - Len(start)
    BY <1>1, <1>10, <2>3
  <2> HIDE DEF room
  <2>5. StartOf(c) = start /\ RoomOf(c) = room
    <3>1. StartOf(c) = start
      BY <1>10, <2>1 DEF start, StartOf, most
    <3> QED
      BY <2>4, <3>1 DEF RoomOf, most
  <2>6. /\ x \in Seq(Codec!Byte) /\ Len(x) = Len(start) + least
        /\ \A i \in 1..Len(start) : x[i] = start[i]
        /\ \A j \in 1..least : x[Len(start) + j] = v[j]
    <3>1. start \in Seq(Codec!Byte) /\ room \in Nat
      BY <2>3, <2>4
    <3> QED
      BY <1>5, <2>5, <3>1
  <2>7. least \in Nat /\ least <= Len(v) /\ Least(Len(w), most) = Len(p) + 1 + least
    <3>1. Len(w) = Len(p) + 1 + Len(v) /\ Len(p) < most
      BY <1>6, <1>10
    <3>2. room \in Nat /\ room = most - (Len(p) + 1)
      BY <2>4
    <3> DEFINE l == Len(v)
               k == Len(p)
               lw == Len(w)
    <3>3. /\ l \in Nat /\ k \in Nat /\ lw = k + 1 + l /\ room = most - (k + 1) /\ room \in Nat
          /\ most \in Nat
      BY <1>1, <3>1, <3>2
    <3> HIDE DEF l, k, lw
    <3>4. /\ Least(l, room) \in Nat /\ Least(l, room) <= l
          /\ Least(lw, most) = k + 1 + Least(l, room)
      BY <3>3 DEF Least
    <3> QED
      BY <3>4 DEF l, k, lw
  <2> HIDE DEF least
  <2>8. Len(x) = Len(p) + 1 + least /\ Len(y) = Len(p) + 1 + least
    BY <1>1, <1>4, <2>3, <2>6, <2>7
  <2>9. ASSUME NEW i \in 1..(Len(p) + 1 + least) PROVE x[i] = y[i]
    <3>1. y[i] = w[i]
      BY <1>4, <2>7
    <3>2. CASE i <= Len(p)
      <4>1. i \in 1..Len(p) /\ i \in 1..Len(start) /\ i \in 1..Least(Len(p), most)
        BY <1>1, <2>1, <2>3, <3>2
      <4>2. x[i] = start[i] /\ start[i] = c[i] /\ c[i] = p[i] /\ w[i] = p[i]
        BY <1>2, <1>6, <1>10, <2>3, <2>6, <4>1
      <4> QED
        BY <3>1, <4>2
    <3>3. CASE i = Len(p) + 1
      <4>1. i \in 1..Len(start)
        BY <1>1, <2>3, <3>3
      <4> QED
        BY <1>6, <1>10, <2>3, <2>6, <3>1, <3>3, <4>1
    <3>4. CASE i > Len(p) + 1
      <4> DEFINE j == i - (Len(p) + 1)
      <4>1. j \in 1..least /\ j \in 1..Len(v) /\ i = Len(p) + 1 + j
        BY <1>1, <2>7, <3>4
      <4> HIDE DEF j
      <4>2. x[i] = v[j] /\ w[i] = v[j]
        BY <1>6, <1>10, <2>3, <2>6, <4>1
      <4> QED
        BY <3>1, <4>2
    <3> QED
      BY <1>1, <3>2, <3>3, <3>4
  <2>10. x = y
    BY <1>4, <2>6, <2>8, <2>9, SeqEqual
  <2> QED
    BY <2>10 DEF x, y, c, w
<1> QED
  BY <1>1, <1>8, <1>9, <1>10

(***************************************************************************)
(* The parser takes an option for what it was written as.                  *)
(***************************************************************************)
LEMMA FirstByte ==
  ASSUME NEW delta \in {0, 11}, NEW n \in 0..13
  PROVE  /\ (16 * delta + n) \div 16 = delta /\ (16 * delta + n) % 16 = n
         /\ 16 * delta + n # 255
<1>1. CASE delta = 0
  BY <1>1
<1>2. CASE delta = 11
  BY <1>2
<1> QED
  BY <1>1, <1>2

LEMMA ShortLength ==
  ASSUME NEW n \in Nat, 13 <= n, n < 256
  PROVE  (13 + (n - 13)) % 256 = n
OBVIOUS

\* The option that begins at the offset, and its first byte.
LEMMA OptionBegins ==
  ASSUME NEW e \in Nat, e <= Codec!len, Codec!len \in Nat, Codec!len = Len(Codec!buf), offset \in Nat,
         NEW v, IsSegment(v), NEW delta \in {0, 11},
         IsOption(Codec!buf, offset, e, delta, v)
  PROVE  /\ offset < Codec!len
         /\ Codec!At(offset) # Codec!Marker
         /\ Codec!At(offset) \div 16 = delta
         /\ Codec!At(offset) % 16 = IF Len(v) < 13 THEN Len(v) ELSE 13
<1>1. v \in Seq(Codec!Byte) /\ Len(v) \in Nat /\ Len(v) > 0
  BY DEF IsSegment
<1>2. Codec!Marker = 255
  BY DEF Codec!Marker
<1>3. offset + 1 <= e
  BY <1>1 DEF IsOption
<1>4. offset < Codec!len
  BY <1>3
<1>5. Codec!At(offset) = Codec!buf[offset + 1]
  BY <1>4 DEF Codec!At
<1>6. PICK n \in 0..13 : /\ Codec!buf[offset + 1] = 16 * delta + n
                        /\ n = IF Len(v) < 13 THEN Len(v) ELSE 13
  <2>1. CASE Len(v) < 13
    <3>1. Codec!buf[offset + 1] = 16 * delta + Len(v)
      BY <1>1, <2>1 DEF IsOption
    <3>2. Len(v) \in 0..13
      <4> DEFINE m == Len(v)
      <4>1. m \in Nat /\ m < 13
        BY <1>1, <2>1
      <4> HIDE DEF m
      <4>2. m \in 0..13
        BY <4>1
      <4> QED
        BY <4>2 DEF m
    <3> QED
      BY <2>1, <3>1, <3>2
  <2>2. CASE ~(Len(v) < 13)
    <3>1. Codec!buf[offset + 1] = 16 * delta + 13
      BY <1>1, <2>2 DEF IsOption
    <3>2. 13 \in 0..13
      OBVIOUS
    <3> QED
      BY <2>2, <3>1, <3>2
  <2> QED
    BY <2>1, <2>2
<1>7. (16 * delta + n) \div 16 = delta /\ (16 * delta + n) % 16 = n /\ 16 * delta + n # 255
  BY FirstByte
<1>8. /\ Codec!At(offset) # Codec!Marker /\ Codec!At(offset) \div 16 = delta
      /\ Codec!At(offset) % 16 = n
  <2> DEFINE x == 16 * delta + n
             y == Codec!At(offset)
  <2>1. x \div 16 = delta /\ x % 16 = n /\ x # 255
    BY <1>7
  <2>2. y = x
    BY <1>5, <1>6
  <2> HIDE DEF x, y
  <2>3. y \div 16 = delta /\ y % 16 = n /\ y # 255
    BY <2>1, <2>2
  <2> QED
    BY <1>2, <2>3 DEF y
<1> QED
  BY <1>4, <1>6, <1>8

LEMMA OptionIsRead ==
  ASSUME NEW e \in Nat, e <= Codec!len, Codec!len \in Nat, Codec!len = Len(Codec!buf), offset \in Nat,
         Codec!buf \in Seq(Codec!Byte), NEW v, IsSegment(v), NEW delta \in {0, 11},
         IsOption(Codec!buf, offset, e, delta, v), Codec!ReadOption
  PROVE  Codec!Take(delta, Len(v), e - Len(v)) /\ SubSeq(Codec!buf, e - Len(v) + 1, e) = v
<1> DEFINE n == Len(v)
           at == e - n
           nibble == IF n < 13 THEN n ELSE 13
           at1 == offset + 1
           at2 == at1 + Codec!Width(delta)
           at3 == at2 + Codec!Width(nibble)
<1>1. v \in Seq(Codec!Byte) /\ n \in Nat /\ n > 0 /\ n < 256
  BY DEF IsSegment
<1>2. Codec!At(offset) \div 16 = delta /\ Codec!At(offset) % 16 = nibble
  BY OptionBegins
<1>3. /\ at \in Nat /\ at + n = e /\ at <= e
      /\ n < 13 => at = at1
      /\ 13 <= n => at = at1 + 1 /\ Codec!buf[offset + 2] = n - 13
      /\ \A j \in 1..n : Codec!buf[at + j] = v[j]
  <2>1. CASE n < 13
    <3>1. e = offset + 1 + n /\ \A j \in 1..n : Codec!buf[offset + 1 + j] = v[j]
      BY <1>1, <2>1 DEF IsOption
    <3>2. at = offset + 1
      BY <1>1, <3>1
    <3> HIDE DEF at, n
    <3> QED
      BY <1>1, <2>1, <3>1, <3>2
  <2>2. CASE 13 <= n
    <3>1. /\ e = offset + 2 + n /\ \A j \in 1..n : Codec!buf[offset + 2 + j] = v[j]
          /\ Codec!buf[offset + 2] = n - 13
      BY <1>1, <2>2 DEF IsOption
    <3>2. at = offset + 2
      BY <1>1, <3>1
    <3> HIDE DEF at, n
    <3> QED
      BY <1>1, <2>2, <3>1, <3>2
  <2> QED
    BY <1>1, <2>1, <2>2
<1>4. Codec!Width(delta) = 0 /\ Codec!Fits(delta, at1) /\ Codec!Value(delta, at1) = delta
  BY DEF Codec!Width, Codec!Fits, Codec!Value
<1> HIDE DEF n, at
<1>5. at2 = at1
  BY <1>4
<1>6. at3 = at /\ Codec!Fits(nibble, at2) /\ Codec!Value(nibble, at2) = n
  <2>1. CASE n < 13
    <3>1. nibble = n
      BY <1>1, <2>1
    <3> HIDE DEF nibble
    <3>2. Codec!Width(nibble) = 0 /\ Codec!Fits(nibble, at2) /\ Codec!Value(nibble, at2) = nibble
      BY <1>1, <2>1, <3>1 DEF Codec!Width, Codec!Fits, Codec!Value
    <3> QED
      BY <1>3, <1>5, <2>1, <3>1, <3>2
  <2>2. CASE 13 <= n
    <3>1. nibble = 13
      BY <1>1, <2>2
    <3> HIDE DEF nibble
    <3>2. at1 < Codec!len
      BY <1>1, <1>3, <2>2
    <3>3. Codec!At(at1) = n - 13
      <4>1. at1 + 1 = offset + 2
        OBVIOUS
      <4> QED
        BY <1>3, <2>2, <3>2, <4>1 DEF Codec!At
    <3>4. Codec!Width(nibble) = 1 /\ Codec!Fits(nibble, at2)
      BY <1>5, <3>1, <3>2 DEF Codec!Width, Codec!Fits
    <3>5. Codec!Value(nibble, at2) = (13 + (n - 13)) % 256
      BY <1>5, <3>1, <3>3 DEF Codec!Value
    <3>6. (13 + (n - 13)) % 256 = n
      BY <1>1, <2>2, ShortLength
    <3> QED
      BY <1>3, <1>5, <2>2, <3>4, <3>5, <3>6
  <2> QED
    BY <1>1, <2>1, <2>2
<1> HIDE DEF nibble
<1>7. ~(at3 + n > Codec!len)
  BY <1>1, <1>3, <1>6
<1>8. Codec!Take(delta, n, at)
  <2>1. \/ ~Codec!Fits(delta, at1)
        \/ ~Codec!Fits(nibble, at2)
        \/ at3 + Codec!Value(nibble, at2) > Codec!len
        \/ Codec!Take(Codec!Value(delta, at1), Codec!Value(nibble, at2), at3)
    BY <1>2 DEF Codec!ReadOption
  <2> HIDE DEF at1, at2, at3
  <2> QED
    BY <1>4, <1>6, <1>7, <2>1
<1>9. SubSeq(Codec!buf, at + 1, e) = v
  <2> DEFINE part == SubSeq(Codec!buf, at + 1, e)
  <2>1. \A i \in (at + 1)..e : Codec!buf[i] \in Codec!Byte
    <3> SUFFICES ASSUME NEW i \in (at + 1)..e PROVE Codec!buf[i] \in Codec!Byte
      OBVIOUS
    <3>1. i \in 1..Len(Codec!buf)
      BY <1>3
    <3> QED
      BY <3>1
  <2>2. /\ part \in Seq(Codec!Byte)
        /\ Len(part) = IF at + 1 <= e THEN e - (at + 1) + 1 ELSE 0
        /\ \A i \in 1..(e - (at + 1) + 1) : part[i] = Codec!buf[at + 1 + i - 1]
    <3>1. at + 1 \in Int /\ e \in Int
      BY <1>3
    <3> QED
      BY <2>1, <3>1, SubSeqProperties
  <2> HIDE DEF part
  <2>3. at + 1 <= e /\ e - (at + 1) + 1 = n
    BY <1>1, <1>3
  <2>4. ASSUME NEW i \in 1..n PROVE part[i] = v[i]
    <3>1. at + 1 + i - 1 = at + i
      BY <1>3
    <3> QED
      BY <1>3, <2>2, <2>3, <3>1
  <2>5. Len(part) = n
    BY <2>2, <2>3
  <2>6. part = v
    BY <1>1, <2>2, <2>4, <2>5, SeqEqual DEF n
  <2> QED
    BY <2>6 DEF part
<1> QED
  BY <1>8, <1>9 DEF n, at

-----------------------------------------------------------------------------
(* The invariant of builder and parser                                     *)

\* The parser stands behind k of the options that were written.
Behind(k) ==
    /\ offset = End(options, k)
    /\ last_opt_num = IF k = 0 THEN 0 ELSE 11
    /\ uri = Codec!Cut(PathOf(options, k))

Fresh == result = "header" /\ offset = 0 /\ last_opt_num = 0 /\ uri = <<>> /\ touched = 0

Reading ==
    /\ writing \in {"path", "done", "failed"} => Fresh
    /\ writing = "sent" /\ AllShort =>
          /\ datagram = [bytes |-> written, token_len |-> 0]
          /\ result \in {"header", "options", "parsed"}
          /\ result = "header" => Fresh
          /\ result = "options" => \E k \in 0..Count : Behind(k)
          /\ result = "parsed" => /\ Codec!payload = text.payload
                                  /\ uri = Codec!Cut(PathOf(options, Count))

CodecInv == Parsing /\ Building /\ Reading

LEMMA CodecStarts == ASSUME Codec!CodecAssumption PROVE Codec!CodecInit => CodecInv
<1> SUFFICES ASSUME Codec!CodecInit PROVE CodecInv
  OBVIOUS
<1>1. Codec!CoapAssumption /\ Codec!BuildAssumption
  BY DEF Codec!CodecAssumption
<1>2. \A b : <<>> \in Seq(b) /\ Len(<<>>) = 0
  OBVIOUS
<1>3. CASE Codec!Init /\ Codec!Silent
  <2>1. PICK d \in Datagrams : Codec!ParseInit(d)
    BY <1>3 DEF Codec!Init
  <2>2. Parsing
    <3>1. d.bytes \in Seq(Codec!Byte) /\ d.token_len \in 0..15
      BY <1>1 DEF Codec!CoapAssumption
    <3> QED
      BY <1>1, <2>1, <3>1, ParsingInit
  <2>3. /\ text.segments = <<>> /\ text.payload = <<>> /\ text.room = 0
        /\ segment = 1 /\ opt_num = 0 /\ written = <<>> /\ options = <<>> /\ writing = "nothing"
    BY <1>3 DEF Codec!Silent, Codec!NoText
  <2>4. Building
    BY <1>2, <2>3 DEF Building, IsByteSeq, Count, AllShort, Chain
  <2> QED
    BY <2>2, <2>3, <2>4 DEF CodecInv, Reading
<1>4. CASE Codec!ParseInit(Codec!NoDatagram) /\ Codec!BuildInit
  <2>1. Codec!NoDatagram.bytes \in Seq(Codec!Byte) /\ Codec!NoDatagram.token_len \in 0..15
    BY DEF Codec!NoDatagram
  <2>2. Parsing
    BY <1>1, <1>4, <2>1, ParsingInit
  <2>3. /\ text \in Texts /\ segment = 1 /\ opt_num = 0 /\ written = <<>> /\ options = <<>>
        /\ writing = "path"
    BY <1>4 DEF Codec!BuildInit
  <2>4. /\ text.segments \in Seq(Seq(Codec!Byte)) /\ IsByteSeq(text.payload) /\ text.room \in Nat
        /\ \A i \in DOMAIN text.segments : FitsLength(Len(text.segments[i]))
    BY <1>1, <2>3 DEF Codec!BuildAssumption, IsByteSeq, FitsLength
  <2>5. Building
    BY <1>2, <2>3, <2>4 DEF Building, IsByteSeq, Count, Chain, End
  <2>6. Reading
    BY <1>4, <2>3 DEF Reading, Fresh, Codec!ParseInit
  <2> QED
    BY <2>2, <2>5, <2>6 DEF CodecInv
<1> QED
  BY <1>3, <1>4 DEF Codec!CodecInit

\* What a step of the builder leaves alone.
LEMMA SegmentIs ==
  ASSUME Building, segment <= Len(text.segments)
  PROVE  /\ IsByteSeq(text.segments[segment]) /\ FitsLength(Len(text.segments[segment]))
         /\ AllShort => Len(text.segments[segment]) < 256
<1>1. segment \in DOMAIN text.segments
  BY DEF Building
<1> QED
  BY <1>1 DEF Building, AllShort, IsByteSeq

LEMMA BuildingFails == ASSUME Building, Codec!Fail PROVE Building'
BY DEF Building, Codec!Fail, Count, AllShort, IsByteSeq

LEMMA BuildingSkips == ASSUME Building, Codec!SkipSlash PROVE Building'
<1>1. /\ segment' = segment + 1 /\ segment' \in Nat \ {0}
      /\ UNCHANGED <<text, opt_num, written, options, writing>>
  BY DEF Building, Codec!SkipSlash
<1> QED
  BY <1>1 DEF Building, Count, AllShort, IsByteSeq

LEMMA BuildingWrites == ASSUME Building, Codec!WriteSegment PROVE Building'
<1> DEFINE value == text.segments[segment]
           delta == Codec!Delta(opt_num)
           option == Codec!Option(delta, value)
           end == Len(written) + Len(option)
           mark == [value |-> value, end |-> end,
                    path |-> Codec!Behind(Codec!Joined(Len(options)), value)]
<1>1. CASE end > text.room
  BY <1>1, BuildingFails DEF Codec!WriteSegment
<1>2. CASE ~(end > text.room)
  <2>1. /\ writing = "path" /\ segment <= Len(text.segments) /\ value # <<>>
        /\ written' = written \o option
        /\ opt_num' = Codec!UriPath
        /\ segment' = segment + 1
        /\ options' = Append(options, mark)
        /\ text' = text /\ writing' = writing
    BY <1>2 DEF Codec!WriteSegment
  <2>2. /\ options \in Seq(Marks) /\ Len(options) \in Nat /\ IsByteSeq(written) /\ segment \in Nat \ {0}
        /\ End(options, Len(options)) = Len(written)
        /\ opt_num = IF Len(options) = 0 THEN 0 ELSE 11
        /\ AllShort => Chain(written, options)
    BY <2>1 DEF Building, Count
  <2>3. IsByteSeq(value) /\ FitsLength(Len(value)) /\ (AllShort => Len(value) < 256)
    BY <2>1, SegmentIs
  <2>4. delta = DeltaOf(Len(options) + 1) /\ delta \in 0..11
    <3>1. CASE Len(options) = 0
      BY <2>2, <3>1 DEF Codec!Delta, Codec!UriPath, DeltaOf
    <3>2. CASE Len(options) # 0
      BY <2>2, <3>2 DEF Codec!Delta, Codec!UriPath, DeltaOf
    <3> QED
      BY <3>1, <3>2
  <2> HIDE DEF delta, value
  <2>5. /\ IsByteSeq(option) /\ Len(option) \in Nat
        /\ AllShort => IsOption(option, 0, Len(option), delta, value)
    BY <2>3, <2>4, OptionBytes
  <2>6. Codec!Joined(Len(options)) = PathOf(options, Len(options))
    BY DEF Codec!Joined, PathOf
  <2> HIDE DEF option
  <2>7. written' \in Seq(Codec!Byte) /\ Len(written') = Len(written) + Len(option)
    <3>1. written \in Seq(Codec!Byte) /\ option \in Seq(Codec!Byte)
      BY <2>2, <2>5 DEF IsByteSeq
    <3> QED
      BY <2>1, <3>1, TwoParts
  <2>8. mark \in Marks
    <3>1. Codec!Joined(Len(options)) \in Seq(Codec!Byte)
      <4>1. Len(options) \in 0..Len(options)
        BY <2>2
      <4> QED
        BY <2>2, <2>6, <4>1, EndType
    <3>2. value \in Seq(Codec!Byte) /\ end \in Nat
      BY <2>2, <2>3, <2>5 DEF IsByteSeq
    <3> HIDE DEF end
    <3>3. Codec!Behind(Codec!Joined(Len(options)), value) \in Seq(Codec!Byte)
      BY <3>1, <3>2, BehindType
    <3> QED
      BY <3>2, <3>3 DEF Marks
  <2>9. options' \in Seq(Marks) /\ Len(options') = Len(options) + 1 /\ options'[Len(options) + 1] = mark
    <3> HIDE DEF mark
    <3> QED
      BY <2>1, <2>2, <2>8
  <2>10. End(options', Len(options')) = Len(written')
    <3>1. Len(options') # 0 /\ mark.end = end
      BY <2>2, <2>9
    <3> HIDE DEF mark
    <3> QED
      BY <2>7, <2>9, <3>1 DEF End
  <2>11. AllShort => Chain(written', options')
    <3> SUFFICES ASSUME AllShort PROVE Chain(written', options')
      OBVIOUS
    <3>1. IsSegment(value)
      BY <2>1, <2>3 DEF IsSegment, IsByteSeq, value
    <3>2. IsOption(option, 0, Len(option), DeltaOf(Len(options) + 1), value)
      BY <2>4, <2>5
    <3>3. mark = [value |-> value, end |-> Len(written) + Len(option),
                  path |-> Codec!Behind(PathOf(options, Len(options)), value)]
      BY <2>6
    <3> HIDE DEF mark
    <3>4. Chain(written \o option, Append(options, mark))
      BY <2>2, <2>5, <3>1, <3>2, <3>3, ChainGrows
    <3> QED
      BY <2>1, <3>4
  <2>12. AllShort' = AllShort
    BY <2>1 DEF AllShort
  <2>13. opt_num' = 11 /\ segment' \in Nat \ {0}
    BY <2>1, <2>2 DEF Codec!UriPath
  <2>14. Count' = Len(options') /\ Count' # 0
    BY <2>2, <2>9 DEF Count
  <2>15. /\ text.segments \in Seq(Seq(Codec!Byte)) /\ IsByteSeq(text.payload) /\ text.room \in Nat
         /\ \A i \in DOMAIN text.segments : FitsLength(Len(text.segments[i]))
    BY DEF Building
  <2>16. writing' = "path" /\ text' = text
    BY <2>1
  <2> HIDE DEF mark, end
  <2> QED
    BY <2>7, <2>9, <2>10, <2>11, <2>12, <2>13, <2>14, <2>15, <2>16 DEF Building, IsByteSeq
<1> QED
  BY <1>1, <1>2

LEMMA BuildingEnds == ASSUME Building, Codec!WritePayload PROVE Building'
<1> DEFINE over == text.payload # <<>> /\ Len(written) + 1 + Len(text.payload) > text.room
           all == IF text.payload = <<>> THEN written ELSE written \o <<Codec!Marker>> \o text.payload
<1>1. CASE over
  BY <1>1, BuildingFails DEF Codec!WritePayload
<1>2. CASE ~over
  <2>1. /\ writing = "path" /\ written' = all /\ writing' = "done"
        /\ UNCHANGED <<text, segment, opt_num, options>>
    BY <1>2 DEF Codec!WritePayload
  <2>2. /\ IsByteSeq(written) /\ IsByteSeq(text.payload) /\ options \in Seq(Marks)
        /\ End(options, Count) = Len(written) /\ Len(written) \in Nat
        /\ AllShort => Chain(written, options)
    BY <2>1 DEF Building, IsByteSeq
  <2>3. /\ IsByteSeq(all) /\ Len(written) <= Len(all) /\ \A i \in 1..Len(written) : all[i] = written[i]
        /\ Paid(all, Len(written), text.payload)
    BY <2>2, PayloadIsPaid
  <2> HIDE DEF all
  <2>4. AllShort => Chain(all, options)
    <3>1. Len(all) \in Nat
      BY <2>3 DEF IsByteSeq
    <3> QED
      BY <2>2, <2>3, <3>1, ChainStays
  <2>5. AllShort' = AllShort /\ Count' = Count
    BY <2>1 DEF AllShort, Count
  <2>6. Paid(written', End(options, Count), text.payload)
    BY <2>1, <2>2, <2>3
  <2> QED
    BY <2>1, <2>2, <2>3, <2>4, <2>5, <2>6 DEF Building
<1> QED
  BY <1>1, <1>2

LEMMA CodecWrites == ASSUME CodecInv, Codec!Write PROVE CodecInv'
<1>1. Codec!BuildNext /\ UNCHANGED <<datagram, offset, last_opt_num, uri, touched, result>>
  BY DEF Codec!Write, Codec!vars
<1>2. Parsing'
  BY <1>1 DEF CodecInv, Parsing, Codec!TypeOK, Codec!InBounds, Codec!buf, Codec!len
<1>3. Building'
  BY <1>1, BuildingSkips, BuildingWrites, BuildingEnds DEF CodecInv, Codec!BuildNext
<1>4. writing = "path" /\ writing' \in {"path", "done", "failed"}
  BY <1>1 DEF Codec!BuildNext, Codec!SkipSlash, Codec!WriteSegment, Codec!WritePayload, Codec!Fail
<1>5. Fresh'
  BY <1>1, <1>4 DEF CodecInv, Reading, Fresh
<1> QED
  BY <1>2, <1>3, <1>4, <1>5 DEF CodecInv, Reading

LEMMA CodecSends == ASSUME CodecInv, Codec!Send PROVE CodecInv'
<1>1. /\ writing = "done" /\ writing' = "sent"
      /\ datagram' = [bytes |-> written, token_len |-> 0]
      /\ UNCHANGED <<offset, last_opt_num, uri, touched, result>>
      /\ UNCHANGED <<text, segment, opt_num, written, options>>
  BY DEF Codec!Send
<1>2. Fresh /\ Building /\ Parsing
  BY <1>1 DEF CodecInv, Reading
<1>3. Building'
  BY <1>1, <1>2 DEF Building, Count, AllShort, IsByteSeq
<1>4. Fresh'
  BY <1>1, <1>2 DEF Fresh
<1>5. Parsing'
  <2>1. datagram'.bytes = written /\ datagram'.token_len = 0 /\ written \in Seq(Codec!Byte)
    BY <1>1, <1>2 DEF Building, IsByteSeq
  <2>2. Codec!buf' = written /\ Codec!len' = Len(written) /\ Len(written) \in Nat
    BY <2>1 DEF Codec!buf, Codec!len
  <2>3. 0 \in 0..15
    OBVIOUS
  <2> QED
    BY <1>1, <1>2, <2>1, <2>2, <2>3 DEF Parsing, Codec!TypeOK, Codec!InBounds, Fresh
<1>6. Reading'
  BY <1>1, <1>4 DEF Reading, Fresh
<1> QED
  BY <1>3, <1>5, <1>6 DEF CodecInv

-----------------------------------------------------------------------------
(* The parser, reading what was written                                    *)

\* What arrived, and what the invariant says of it.
LEMMA Arrived ==
  ASSUME Codec!CodecAssumption, CodecInv, writing = "sent", AllShort
  PROVE  /\ Codec!buf = written /\ Codec!len = Len(Codec!buf) /\ Codec!len \in Nat
         /\ Codec!buf \in Seq(Codec!Byte) /\ datagram.token_len = 0
         /\ offset \in Nat /\ MaxUri \in Nat \ {0}
         /\ options \in Seq(Marks) /\ Count = Len(options) /\ Count \in Nat
         /\ Chain(Codec!buf, options)
         /\ Paid(Codec!buf, End(options, Count), text.payload) /\ IsByteSeq(text.payload)
<1>1. datagram = [bytes |-> written, token_len |-> 0]
  BY DEF CodecInv, Reading
<1>2. Codec!buf = written /\ datagram.token_len = 0
  BY <1>1 DEF Codec!buf
<1>3. Codec!buf \in Seq(Codec!Byte) /\ offset \in Nat
  BY DEF CodecInv, Parsing, Codec!TypeOK
<1>4. Codec!len = Len(Codec!buf) /\ Codec!len \in Nat
  BY <1>3 DEF Codec!len
<1>5. MaxUri \in Nat \ {0}
  BY DEF Codec!CodecAssumption, Codec!CoapAssumption
<1>6. /\ options \in Seq(Marks) /\ Chain(written, options)
      /\ Paid(written, End(options, Count), text.payload) /\ IsByteSeq(text.payload)
  BY DEF CodecInv, Building
<1>7. Count = Len(options) /\ Count \in Nat
  BY <1>6 DEF Count
<1> QED
  BY <1>2, <1>3, <1>4, <1>5, <1>6, <1>7

LEMMA NothingIsCut == ASSUME MaxUri \in Nat \ {0} PROVE Codec!Cut(<<>>) = <<>>
<1>1. <<>> \in Seq(Codec!Byte) /\ Len(<<>>) = 0
  OBVIOUS
<1>2. Codec!Cut(<<>>) \in Seq(Codec!Byte) /\ Len(Codec!Cut(<<>>)) = Least(0, MaxUri - 1)
  BY <1>1, CutIs
<1>3. Least(0, MaxUri - 1) = 0
  BY DEF Least
<1> QED
  BY <1>2, <1>3

\* The option behind the first k.
LEMMA NextOption ==
  ASSUME Codec!CodecAssumption, CodecInv, writing = "sent", AllShort,
         NEW k \in 0..Count, k < Count, Behind(k)
  PROVE  /\ k + 1 \in 1..Count
         /\ IsSegment(options[k + 1].value)
         /\ options[k + 1].path = Codec!Behind(PathOf(options, k), options[k + 1].value)
         /\ PathOf(options, k + 1) = options[k + 1].path
         /\ PathOf(options, k) \in Seq(Codec!Byte)
         /\ End(options, k + 1) = options[k + 1].end
         /\ options[k + 1].end \in Nat /\ options[k + 1].end <= Codec!len
         /\ DeltaOf(k + 1) \in {0, 11}
         /\ IsOption(Codec!buf, offset, options[k + 1].end, DeltaOf(k + 1), options[k + 1].value)
<1>1. /\ Chain(Codec!buf, options) /\ Codec!len = Len(Codec!buf) /\ Count \in Nat
      /\ Count = Len(options) /\ options \in Seq(Marks)
  BY Arrived
<1>2. k + 1 \in 1..Len(options) /\ (k + 1) - 1 = k /\ k + 1 # 0 /\ k \in 0..Len(options)
  BY <1>1
<1>3. offset = End(options, k)
  BY DEF Behind
<1>4. PathOf(options, k) \in Seq(Codec!Byte)
  BY <1>1, <1>2, EndType
<1>5. /\ IsSegment(options[k + 1].value)
      /\ options[k + 1].path = Codec!Behind(PathOf(options, (k + 1) - 1), options[k + 1].value)
      /\ options[k + 1].end \in Nat /\ options[k + 1].end <= Len(Codec!buf)
      /\ IsOption(Codec!buf, End(options, (k + 1) - 1), options[k + 1].end, DeltaOf(k + 1), options[k + 1].value)
  BY <1>1, <1>2 DEF Chain
<1>6. PathOf(options, k + 1) = options[k + 1].path /\ End(options, k + 1) = options[k + 1].end
  BY <1>2 DEF PathOf, End
<1>7. DeltaOf(k + 1) \in {0, 11}
  BY DEF DeltaOf
<1> QED
  BY <1>1, <1>2, <1>3, <1>4, <1>5, <1>6, <1>7

\* Where the options end, the parser finds their end.
LEMMA OptionsEnd ==
  ASSUME Codec!CodecAssumption, CodecInv, writing = "sent", AllShort, Behind(Count)
  PROVE  /\ offset < Codec!len => Codec!At(offset) = Codec!Marker
         /\ ~Codec!ReadOption
<1>1. /\ Paid(Codec!buf, offset, text.payload) /\ Codec!len = Len(Codec!buf)
      /\ Codec!len \in Nat /\ offset \in Nat
  BY Arrived DEF Behind
<1>2. offset < Codec!len => Codec!buf[offset + 1] = 255
  <2>1. CASE Len(Codec!buf) = offset
    BY <1>1, <2>1
  <2>2. CASE Codec!buf[offset + 1] = 255
    BY <2>2
  <2> QED
    BY <1>1, <2>1, <2>2 DEF Paid
<1>3. offset < Codec!len => Codec!At(offset) = Codec!Marker
  BY <1>2 DEF Codec!At, Codec!Marker
<1> QED
  BY <1>3 DEF Codec!ReadOption

\* What the number of the next option comes to.
LEMMA NumberAdds ==
  ASSUME NEW n \in 0..100
  PROVE  n % (Codec!MaxNumber + 1) = n
<1> DEFINE m == 65536
<1>1. Codec!MaxNumber + 1 = m
  BY DEF Codec!MaxNumber
<1>2. m \in Nat /\ n < m
  OBVIOUS
<1>3. n % m = n
  BY <1>2
<1> QED
  BY <1>1, <1>3

\* An option is read for what it was written as, and brings the parser behind
\* it.
LEMMA ReadsOption ==
  ASSUME Codec!CodecAssumption, CodecInv, writing = "sent", AllShort,
         NEW k \in 0..Count, Behind(k), Codec!ReadOption
  PROVE  /\ k + 1 \in 0..Count
         /\ offset' = End(options, k + 1)
         /\ last_opt_num' = 11
         /\ uri' = Codec!Cut(PathOf(options, k + 1))
         /\ result' = result /\ datagram' = datagram
<1>1. k < Count
  <2>1. k = Count => FALSE
    BY OptionsEnd
  <2>2. Count \in Nat
    BY Arrived
  <2> QED
    BY <2>1, <2>2
<1> DEFINE v == options[k + 1].value
           e == options[k + 1].end
           delta == DeltaOf(k + 1)
           p == PathOf(options, k)
<1>2. /\ k + 1 \in 1..Count /\ IsSegment(v) /\ PathOf(options, k + 1) = Codec!Behind(p, v)
      /\ p \in Seq(Codec!Byte) /\ End(options, k + 1) = e /\ e \in Nat /\ e <= Codec!len
      /\ delta \in {0, 11} /\ IsOption(Codec!buf, offset, e, delta, v)
  BY <1>1, NextOption
<1>3. last_opt_num + delta = 11
  <2>1. CASE k = 0
    BY <2>1 DEF Behind, DeltaOf
  <2>2. CASE k # 0
    BY <2>2 DEF Behind, DeltaOf
  <2> QED
    BY <2>1, <2>2
<1>4. uri = Codec!Cut(p)
  BY DEF Behind
<1> HIDE DEF v, e, delta, p
<1>5. Codec!Take(delta, Len(v), e - Len(v)) /\ SubSeq(Codec!buf, e - Len(v) + 1, e) = v
  <2>1. /\ Codec!len \in Nat /\ Codec!len = Len(Codec!buf) /\ offset \in Nat
        /\ Codec!buf \in Seq(Codec!Byte)
    BY Arrived
  <2> QED
    BY <1>2, <2>1, OptionIsRead
<1>6. v \in Seq(Codec!Byte) /\ v # <<>> /\ Len(v) \in Nat /\ (e - Len(v)) + Len(v) = e
  BY <1>2 DEF IsSegment
<1>7. (last_opt_num + delta) % (Codec!MaxNumber + 1) = 11 /\ Codec!UriPath = 11
  BY <1>3, NumberAdds DEF Codec!UriPath
<1>8. /\ offset' = (e - Len(v)) + Len(v)
      /\ last_opt_num' = 11
      /\ uri' = Codec!Extended(uri, SubSeq(Codec!buf, (e - Len(v)) + 1, (e - Len(v)) + Len(v)))
      /\ result' = result /\ datagram' = datagram
  BY <1>5, <1>7 DEF Codec!Take, Codec!PastValue
<1>9. uri' = Codec!Extended(Codec!Cut(p), v)
  BY <1>4, <1>5, <1>6, <1>8
<1>10. uri' = Codec!Cut(Codec!Behind(p, v))
  <2>1. MaxUri \in Nat \ {0}
    BY Arrived
  <2> QED
    BY <1>2, <1>6, <1>9, <2>1, CutExtends
<1>11. k + 1 \in 0..Count
  BY <1>2
<1> QED
  BY <1>2, <1>6, <1>8, <1>10, <1>11

\* The options are all read when the loop ends, and what is left is the
\* payload.
LEMMA ReadsPayload ==
  ASSUME Codec!CodecAssumption, CodecInv, writing = "sent", AllShort,
         NEW k \in 0..Count, Behind(k), Codec!Finish
  PROVE  /\ SubSeq(Codec!buf, offset' + 1, Codec!len) = text.payload
         /\ uri' = Codec!Cut(PathOf(options, Count))
         /\ datagram' = datagram
<1>1. /\ Codec!len = Len(Codec!buf) /\ Codec!len \in Nat /\ offset \in Nat /\ Count \in Nat
      /\ Codec!buf \in Seq(Codec!Byte)
  BY Arrived
<1>2. k = Count
  <2> SUFFICES ASSUME k < Count PROVE FALSE
    BY <1>1
  <2>1. offset < Codec!len /\ Codec!At(offset) # Codec!Marker
    BY <1>1, NextOption, OptionBegins
  <2> QED
    BY <2>1 DEF Codec!Finish
<1>3. /\ offset' = (IF offset < Codec!len THEN offset + 1 ELSE offset)
      /\ datagram' = datagram /\ uri' = uri
  BY DEF Codec!Finish
<1>4. uri = Codec!Cut(PathOf(options, Count))
  BY <1>2 DEF Behind
<1> DEFINE p == text.payload
           rest == SubSeq(Codec!buf, offset' + 1, Codec!len)
<1>5. Paid(Codec!buf, offset, p) /\ p \in Seq(Codec!Byte) /\ Len(p) \in Nat
  <2>1. Paid(Codec!buf, End(options, Count), p) /\ IsByteSeq(p)
    BY Arrived
  <2> QED
    BY <1>2, <2>1 DEF Behind, IsByteSeq
<1>6. ASSUME offset' \in Nat, offset' + 1 > 0
      PROVE  /\ rest \in Seq(Codec!Byte)
             /\ Len(rest) = IF offset' + 1 <= Codec!len THEN Codec!len - (offset' + 1) + 1 ELSE 0
             /\ \A i \in 1..(Codec!len - (offset' + 1) + 1) : rest[i] = Codec!buf[(offset' + 1) + i - 1]
  <2>1. \A i \in (offset' + 1)..Codec!len : Codec!buf[i] \in Codec!Byte
    <3> SUFFICES ASSUME NEW i \in (offset' + 1)..Codec!len PROVE Codec!buf[i] \in Codec!Byte
      OBVIOUS
    <3> DEFINE last == Codec!len
               o == offset'
    <3>1. last \in Nat /\ o \in Nat /\ i \in (o + 1)..last
      BY <1>1, <1>6
    <3> HIDE DEF last, o
    <3>2. i \in 1..last
      BY <3>1
    <3>3. i \in 1..Len(Codec!buf)
      BY <1>1, <3>2 DEF last
    <3> QED
      BY <1>1, <3>3
  <2>2. offset' + 1 \in Int /\ Codec!len \in Int
    BY <1>1, <1>6
  <2> QED
    BY <2>1, <2>2, SubSeqProperties
<1> HIDE DEF p, rest
<1>7. CASE p = <<>>
  <2>1. Codec!len = offset
    BY <1>1, <1>5, <1>7 DEF Paid
  <2>2. offset' = offset
    BY <1>1, <1>3, <2>1
  <2>3. Len(rest) = 0 /\ rest \in Seq(Codec!Byte)
    BY <1>1, <1>6, <2>1, <2>2
  <2>4. rest = <<>>
    BY <2>3
  <2> QED
    BY <1>3, <1>4, <1>7, <2>4 DEF p, rest
<1>8. CASE p # <<>>
  <2>1. Codec!len = offset + 1 + Len(p) /\ \A j \in 1..Len(p) : Codec!buf[offset + 1 + j] = p[j]
    BY <1>1, <1>5, <1>8 DEF Paid
  <2>2. Len(p) > 0
    BY <1>5, <1>8
  <2>3. offset' = offset + 1 /\ offset' \in Nat
    BY <1>1, <1>3, <2>1, <2>2
  <2>4. rest \in Seq(Codec!Byte) /\ Len(rest) = Len(p)
    BY <1>1, <1>5, <1>6, <2>1, <2>2, <2>3
  <2>5. ASSUME NEW i \in 1..Len(p) PROVE rest[i] = p[i]
    <3>1. i \in 1..(Codec!len - (offset' + 1) + 1) /\ (offset' + 1) + i - 1 = offset + 1 + i
      BY <1>1, <1>5, <2>1, <2>3
    <3>2. rest[i] = Codec!buf[(offset' + 1) + i - 1]
      BY <1>6, <2>3, <3>1
    <3> QED
      BY <2>1, <3>1, <3>2
  <2>6. rest = p
    BY <1>5, <2>4, <2>5, SeqEqual
  <2> QED
    BY <1>3, <1>4, <2>6 DEF p, rest
<1> QED
  BY <1>7, <1>8

LEMMA CodecReads == ASSUME Codec!CodecAssumption, CodecInv, Codec!Read PROVE CodecInv'
<1>1. /\ writing \in {"nothing", "sent"} /\ Codec!Next
      /\ UNCHANGED <<text, segment, opt_num, written, options, writing>>
  BY DEF Codec!Read, Codec!buildVars
<1>2. Parsing'
  BY <1>1, ParsingStep DEF CodecInv, Codec!CodecAssumption
<1>3. Building'
  BY <1>1 DEF CodecInv, Building, Count, AllShort, IsByteSeq
<1>4. AllShort' = AllShort /\ Count' = Count
  BY <1>1 DEF AllShort, Count
<1>5. Reading'
  <2>1. writing' \notin {"path", "done", "failed"}
    BY <1>1
  <2> SUFFICES ASSUME writing = "sent", AllShort
               PROVE  /\ datagram' = [bytes |-> written, token_len |-> 0]
                      /\ result' \in {"options", "parsed"}
                      /\ result' = "options" =>
                            \E k \in 0..Count : /\ offset' = End(options, k)
                                                /\ last_opt_num' = IF k = 0 THEN 0 ELSE 11
                                                /\ uri' = Codec!Cut(PathOf(options, k))
                      /\ result' = "parsed" =>
                            /\ Codec!payload' = text.payload
                            /\ uri' = Codec!Cut(PathOf(options, Count))
    BY <1>1, <1>4, <2>1 DEF Reading, Behind
  <2>2. datagram = [bytes |-> written, token_len |-> 0]
    BY DEF CodecInv, Reading
  <2>3. result = "options" => \E k \in 0..Count : Behind(k)
    BY DEF CodecInv, Reading
  <2>4. CASE Codec!Header
    <3>1. result = "header"
      BY <2>4 DEF Codec!Header
    <3>2. uri = <<>> /\ last_opt_num = 0
      BY <3>1 DEF CodecInv, Reading, Fresh
    <3>3. datagram.token_len = 0 /\ Codec!len \in Nat /\ Count \in Nat /\ MaxUri \in Nat \ {0}
      BY Arrived
    <3>4. offset' = 0 /\ result' = "options" /\ UNCHANGED <<datagram, last_opt_num, uri>>
      BY <2>4, <3>3 DEF Codec!Header
    <3>5. 0 \in 0..Count /\ offset' = End(options, 0) /\ uri' = Codec!Cut(PathOf(options, 0))
      BY <3>2, <3>3, <3>4, NothingIsCut DEF End, PathOf
    <3> QED
      BY <2>2, <3>2, <3>4, <3>5
  <2>5. CASE Codec!ReadOption
    <3>1. result = "options"
      BY <2>5 DEF Codec!ReadOption
    <3>2. PICK k \in 0..Count : Behind(k)
      BY <2>3, <3>1
    <3>3. /\ k + 1 \in 0..Count /\ offset' = End(options, k + 1) /\ last_opt_num' = 11
          /\ uri' = Codec!Cut(PathOf(options, k + 1)) /\ result' = result /\ datagram' = datagram
      BY <2>5, <3>2, ReadsOption
    <3>4. k + 1 # 0
      OBVIOUS
    <3> QED
      BY <2>2, <3>1, <3>3, <3>4
  <2>6. CASE Codec!Finish
    <3>1. result = "options" /\ result' = "parsed"
      BY <2>6 DEF Codec!Finish
    <3>2. PICK k \in 0..Count : Behind(k)
      BY <2>3, <3>1
    <3>3. /\ SubSeq(Codec!buf, offset' + 1, Codec!len) = text.payload
          /\ uri' = Codec!Cut(PathOf(options, Count)) /\ datagram' = datagram
      BY <2>6, <3>2, ReadsPayload
    <3>4. Codec!payload' = SubSeq(Codec!buf, offset' + 1, Codec!len)
      BY <3>3 DEF Codec!payload, Codec!buf, Codec!len
    <3> QED
      BY <2>2, <3>1, <3>3, <3>4
  <2> QED
    BY <1>1, <2>4, <2>5, <2>6 DEF Codec!Next
<1> QED
  BY <1>2, <1>3, <1>5 DEF CodecInv

LEMMA CodecStep ==
  ASSUME Codec!CodecAssumption PROVE CodecInv /\ [Codec!CodecNext]_Codec!codecVars => CodecInv'
<1> SUFFICES ASSUME CodecInv, [Codec!CodecNext]_Codec!codecVars PROVE CodecInv'
  OBVIOUS
<1>1. CASE UNCHANGED Codec!codecVars
  <2>1. UNCHANGED <<datagram, offset, last_opt_num, uri, touched, result,
                    text, segment, opt_num, written, options, writing>>
    BY <1>1 DEF Codec!codecVars, Codec!vars, Codec!buildVars
  <2>2. Parsing'
    BY <2>1 DEF CodecInv, Parsing, Codec!TypeOK, Codec!InBounds, Codec!buf, Codec!len
  <2>3. Building'
    BY <2>1 DEF CodecInv, Building, Count, AllShort, IsByteSeq
  <2>4. Reading'
    BY <2>1 DEF CodecInv, Reading, Behind, Fresh, Count, AllShort,
                Codec!payload, Codec!buf, Codec!len
  <2> QED
    BY <2>2, <2>3, <2>4 DEF CodecInv
<1> QED
  BY <1>1, CodecWrites, CodecSends, CodecReads DEF Codec!CodecNext

LEMMA CoapMoves == [Next]_vars => [Codec!CodecNext]_Codec!codecVars
BY DEF Next, vars, CoapStep, KemStep, SpongeStep, PermutationStep, SamplingStep,
       coapVars, Codec!codecVars, Codec!vars, Codec!buildVars

LEMMA CoapAlways == Spec => []CodecInv
<1>1. Codec!CodecAssumption
  BY RoutineAssumption
<1>2. Init => CodecInv
  BY <1>1, CodecStarts DEF Init
<1>3. CodecInv /\ [Next]_vars => CodecInv'
  BY <1>1, CodecStep, CoapMoves
<1> QED
  BY <1>2, <1>3, PTL DEF Spec

\* Whatever arrives, coap_parse looks at no byte behind the end of the
\* datagram, hands out a payload that lies in it and keeps the path in its
\* array.
THEOREM CoapInBounds == Spec => []InBounds
<1>1. CodecInv => InBounds
  BY DEF CodecInv, Parsing, InBounds
<1> QED
  BY <1>1, CoapAlways, PTL

\* Every option takes at least a byte, so that the loop ends.
THEOREM CoapAdvances == Spec => EveryOptionAdvances
<1>1. CodecInv /\ [Next]_vars =>
         [result = "options" /\ result' = "options" => offset' > offset]_Codec!vars
  <2> SUFFICES ASSUME CodecInv, [Codec!CodecNext]_Codec!codecVars,
                      ~UNCHANGED Codec!vars, result = "options", result' = "options"
               PROVE  offset' > offset
    BY CoapMoves
  <2>1. Codec!Next
    <3>1. ~UNCHANGED Codec!codecVars
      BY DEF Codec!codecVars
    <3>2. ~Codec!Write
      BY DEF Codec!Write
    <3>3. ~Codec!Send
      BY DEF Codec!Send, CodecInv, Reading, Fresh
    <3> QED
      BY <3>1, <3>2, <3>3 DEF Codec!CodecNext, Codec!Read
  <2>2. ~Codec!Header /\ ~Codec!Finish
    BY DEF Codec!Header, Codec!Finish
  <2>3. Codec!CoapAssumption /\ Parsing
    BY RoutineAssumption DEF CodecInv, Codec!CodecAssumption
  <2> QED
    BY <2>1, <2>2, <2>3, ParsingReadOption DEF Codec!Next
<1> QED
  BY <1>1, CoapAlways, PTL DEF Spec, EveryOptionAdvances, Codec!EveryOptionAdvances

\* What coap_build_simple writes for one board, coap_parse reads on the other:
\* the same payload, and of the path what fits the array.
THEOREM TextsAreRead == Spec => []ReadsWhatWasWritten
<1>1. CodecInv => ReadsWhatWasWritten
  <2> SUFFICES ASSUME CodecInv, writing = "sent", AllShort
               PROVE  /\ result # "rejected"
                      /\ result = "parsed" =>
                            /\ Codec!payload = text.payload
                            /\ uri = Codec!Cut(Codec!Joined(Len(options)))
    BY DEF ReadsWhatWasWritten, Codec!ReadsWhatWasWritten, AllShort
  <2>1. Codec!Joined(Len(options)) = PathOf(options, Count)
    BY DEF Codec!Joined, PathOf, Count
  <2> QED
    BY <2>1 DEF CodecInv, Reading
<1> QED
  BY <1>1, CoapAlways, PTL

-----------------------------------------------------------------------------
(* The sampling of the matrix, for any stream, any block and any number of *)
(* coefficients.                                                           *)

LEMMA GoodCounts == \A s, p : Matrix!Good(s, p) = Cardinality({c \in 1..p : s[c] < Bound})
<1>1. \A S : Matrix!Cardinality(S) = Cardinality(S)
  BY DEF Matrix!Cardinality, Cardinality
<1> QED
  BY <1>1 DEF Matrix!Good

LEMMA GoodFinite ==
  ASSUME NEW s, NEW p \in Nat
  PROVE  IsFiniteSet({c \in 1..p : s[c] < Bound}) /\ Matrix!Good(s, p) \in Nat
<1>1. IsFiniteSet(1..p)
  <2>1. 1 \in Int /\ p \in Int
    OBVIOUS
  <2> QED
    BY <2>1, FS_Interval, Zenon
<1>2. IsFiniteSet({c \in 1..p : s[c] < Bound})
  BY <1>1, FS_Subset
<1> QED
  BY <1>2, FS_CardinalityType, GoodCounts

LEMMA GoodNone == ASSUME NEW s PROVE Matrix!Good(s, 0) = 0
<1>1. {c \in 1..0 : s[c] < Bound} = {}
  OBVIOUS
<1> QED
  BY <1>1, FS_EmptySet, GoodCounts

LEMMA GoodNext ==
  ASSUME NEW s, NEW p \in Nat
  PROVE  Matrix!Good(s, p + 1) = IF s[p + 1] < Bound THEN Matrix!Good(s, p) + 1 ELSE Matrix!Good(s, p)
<1> DEFINE below == {c \in 1..p : s[c] < Bound}
<1>1. IsFiniteSet(below) /\ p + 1 \notin below
  BY GoodFinite
<1>2. CASE s[p + 1] < Bound
  <2>1. {c \in 1..(p + 1) : s[c] < Bound} = below \cup {p + 1}
    <3>1. 1..(p + 1) = (1..p) \cup {p + 1}
      OBVIOUS
    <3> QED
      BY <1>2, <3>1
  <2> HIDE DEF below
  <2>2. Cardinality(below \cup {p + 1}) = Cardinality(below) + 1
    BY <1>1, FS_AddElement
  <2>3. Matrix!Good(s, p) = Cardinality(below)
    BY GoodCounts DEF below
  <2>4. Matrix!Good(s, p + 1) = Cardinality(below \cup {p + 1})
    BY <2>1, GoodCounts
  <2> QED
    BY <1>2, <2>2, <2>3, <2>4
<1>3. CASE ~(s[p + 1] < Bound)
  <2>1. {c \in 1..(p + 1) : s[c] < Bound} = below
    <3>1. 1..(p + 1) = (1..p) \cup {p + 1}
      OBVIOUS
    <3> QED
      BY <1>3, <3>1
  <2> QED
    BY <1>3, <2>1, GoodCounts DEF below
<1> QED
  BY <1>2, <1>3

\* What is squeezed later does not change the count.
LEMMA GoodKept ==
  ASSUME NEW s, NEW t, NEW p \in Nat, \A c \in 1..p : s[c] = t[c]
  PROVE  Matrix!Good(s, p) = Matrix!Good(t, p)
<1>1. {c \in 1..p : s[c] < Bound} = {c \in 1..p : t[c] < Bound}
  OBVIOUS
<1> QED
  BY <1>1, GoodCounts

\* The coefficients cs are the first of the stream s that are below q.
First(s, cs) ==
    \A i \in 1..Len(cs) :
       \E p \in 1..Len(s) :
          cs[i] = s[p] /\ s[p] < Bound /\ Matrix!Good(s, p) = i

(***************************************************************************)
(* One candidate more.                                                     *)
(***************************************************************************)
LEMMA FirstTakes ==
  ASSUME NEW s \in Seq(Nat), NEW cs \in Seq(Nat), NEW p \in Nat, p + 1 <= Len(s),
         First(s, cs), Len(cs) = Matrix!Good(s, p), s[p + 1] < Bound
  PROVE  /\ Append(cs, s[p + 1]) \in Seq(Nat)
         /\ Len(Append(cs, s[p + 1])) = Len(cs) + 1
         /\ First(s, Append(cs, s[p + 1]))
         /\ Len(Append(cs, s[p + 1])) = Matrix!Good(s, p + 1)
<1> DEFINE x == s[p + 1]
           ds == Append(cs, x)
<1>1. p + 1 \in 1..Len(s) /\ x \in Nat /\ x < Bound
  BY SMT
<1>2. Matrix!Good(s, p + 1) = Len(cs) + 1
  BY GoodNext
<1> HIDE DEF x
<1>3. /\ ds \in Seq(Nat) /\ Len(ds) = Len(cs) + 1 /\ Len(cs) \in Nat
      /\ \A i \in 1..Len(cs) : ds[i] = cs[i]
      /\ ds[Len(cs) + 1] = x
  BY <1>1
<1> HIDE DEF ds
<1>4. First(s, ds)
  <2> SUFFICES ASSUME NEW i \in 1..Len(ds)
               PROVE  \E q \in 1..Len(s) : ds[i] = s[q] /\ s[q] < Bound /\ Matrix!Good(s, q) = i
    BY DEF First
  <2>1. CASE i \in 1..Len(cs)
    BY <1>3, <2>1 DEF First
  <2>2. CASE i = Len(cs) + 1
    BY <1>1, <1>2, <1>3, <2>2 DEF x
  <2> QED
    BY <1>3, <2>1, <2>2
<1> QED
  BY <1>2, <1>3, <1>4 DEF ds, x

LEMMA FirstKept ==
  ASSUME NEW s \in Seq(Nat), NEW b \in Seq(Nat), NEW cs \in Seq(Nat), First(s, cs)
  PROVE  First(s \o b, cs)
<1> DEFINE t == s \o b
<1>1. t \in Seq(Nat) /\ Len(t) \in Nat /\ Len(s) \in Nat /\ Len(s) <= Len(t)
      /\ \A c \in 1..Len(s) : s[c] = t[c]
  OBVIOUS
<1> HIDE DEF t
<1> SUFFICES ASSUME NEW i \in 1..Len(cs)
             PROVE  \E p \in 1..Len(t) : cs[i] = t[p] /\ t[p] < Bound /\ Matrix!Good(t, p) = i
  BY DEF First, t
<1>2. PICK p \in 1..Len(s) : cs[i] = s[p] /\ s[p] < Bound /\ Matrix!Good(s, p) = i
  BY DEF First
<1>3. p \in Nat /\ p \in 1..Len(t) /\ s[p] = t[p] /\ \A c \in 1..p : s[c] = t[c]
  BY <1>1
<1>4. Matrix!Good(s, p) = Matrix!Good(t, p)
  BY <1>3, GoodKept
<1> QED
  BY <1>2, <1>3, <1>4

(***************************************************************************)
(* What a call adds to a stream, and a pass takes off a block.             *)
(***************************************************************************)
LEMMA Joined ==
  ASSUME NEW a \in Seq(Nat), NEW b \in Seq(Nat)
  PROVE  /\ a \o b \in Seq(Nat) /\ Len(a \o b) = Len(a) + Len(b)
         /\ \A i \in 1..Len(b) : (a \o b)[Len(a) + i] = b[i]
         /\ \A i \in 1..Len(a) : (a \o b)[i] = a[i]
OBVIOUS

LEMMA WithoutTwo ==
  ASSUME NEW b \in Seq(Nat), Len(b) >= 2
  PROVE  LET c == SubSeq(b, 3, Len(b))
         IN  /\ c \in Seq(Nat) /\ Len(c) = Len(b) - 2
             /\ \A i \in 1..Len(c) : c[i] = b[i + 2]
<1> DEFINE c == SubSeq(b, 3, Len(b))
           n == Len(b)
<1>1. n \in Int /\ n >= 2 /\ \A i \in 3..n : b[i] \in Nat
  OBVIOUS
<1> HIDE DEF n
<1>2. /\ c \in Seq(Nat) /\ Len(c) = (IF 3 <= n THEN n - 3 + 1 ELSE 0)
      /\ \A i \in 1..(n - 3 + 1) : c[i] = b[3 + i - 1]
  <2>1. c = SubSeq(b, 3, n)
    BY DEF n
  <2> HIDE DEF c
  <2> QED
    BY <1>1, <2>1, SubSeqProperties
<1> HIDE DEF c
<1>3. Len(c) = n - 2 /\ \A i \in 1..Len(c) : c[i] = b[i + 2]
  <2>1. Len(c) = n - 2 /\ n - 3 + 1 = n - 2
    BY <1>1, <1>2
  <2> SUFFICES ASSUME NEW i \in 1..(n - 2) PROVE c[i] = b[i + 2]
    BY <2>1
  <2>2. i \in Int /\ 3 + i - 1 = i + 2 /\ c[i] = b[3 + i - 1]
    BY <1>2, <2>1
  <2> QED
    BY <2>2
<1> QED
  BY <1>2, <1>3 DEF c, n

(***************************************************************************)
(* The invariant: what is left of the block is the end of the stream, in   *)
(* pairs, and as long as coefficients are missing, all good candidates     *)
(* before it were taken.                                                   *)
(***************************************************************************)
Read == Len(stream) - Len(buf)

SamplingInv ==
    /\ stream \in Seq(Nat) /\ buf \in Seq(Nat) /\ coeffs \in Seq(Nat)
    /\ Read \in Nat
    /\ \A i \in 1..Len(buf) : buf[i] = stream[Read + i]
    /\ \E k \in Nat : Len(buf) = 2 * k
    /\ First(stream, coeffs)
    /\ Len(coeffs) <= N
    /\ Len(coeffs) < N => Len(coeffs) = Matrix!Good(stream, Read)
    /\ sampling # "within" => buf = <<>>
    /\ sampling = "between" => Len(coeffs) < N
    /\ sampling = "before" => stream = <<>> /\ coeffs = <<>>
    /\ sampling = "done" => Len(coeffs) = N

LEMMA SamplingInit == Matrix!SamplingAssumption /\ Matrix!Init => SamplingInv
<1> SUFFICES ASSUME Matrix!SamplingAssumption, Matrix!Init PROVE SamplingInv
  OBVIOUS
<1>1. stream = <<>> /\ buf = <<>> /\ coeffs = <<>> /\ sampling = "before" /\ N \in Nat
  BY DEF Matrix!Init, Matrix!SamplingAssumption
<1>2. Read = 0
  BY <1>1 DEF Read
<1>3. Matrix!Good(stream, 0) = 0
  BY GoodNone
<1>4. Len(buf) = 2 * 0
  BY <1>1
<1> QED
  BY <1>1, <1>2, <1>3, <1>4 DEF SamplingInv, First

LEMMA SamplingSqueeze ==
  ASSUME Matrix!SamplingAssumption, SamplingInv, Matrix!Squeeze PROVE SamplingInv'
<1> DEFINE n == IF sampling = "before" THEN FirstBlocks ELSE 1
           k == Pairs * n
<1>1. /\ sampling \in {"before", "between"}
      /\ buf' \in [1..(2 * Pairs * n) -> Candidates]
      /\ stream' = stream \o buf' /\ sampling' = "within" /\ coeffs' = coeffs
  BY DEF Matrix!Squeeze
<1>2. k \in Nat /\ 2 * Pairs * n = 2 * k
  <2>1. Pairs \in Nat /\ n \in Nat
    BY DEF Matrix!SamplingAssumption
  <2> HIDE DEF n
  <2> QED
    BY <2>1
<1> HIDE DEF n, k
<1>3. buf' \in Seq(Nat) /\ Len(buf') = 2 * k
  <2>1. buf' \in [1..(2 * k) -> Nat]
    BY <1>1, <1>2 DEF Matrix!SamplingAssumption
  <2> QED
    BY <1>2, <2>1
<1>4. buf = <<>> /\ Read = Len(stream) /\ Len(stream) \in Nat /\ stream \in Seq(Nat)
  <2>1. buf = <<>> /\ stream \in Seq(Nat)
    BY <1>1 DEF SamplingInv
  <2> QED
    BY <2>1 DEF Read
<1>5. /\ stream' \in Seq(Nat) /\ Len(stream') = Len(stream) + Len(buf')
      /\ \A i \in 1..Len(buf') : stream'[Len(stream) + i] = buf'[i]
      /\ \A i \in 1..Len(stream) : stream'[i] = stream[i]
  BY <1>1, <1>3, <1>4, Joined
<1>6. Read' = Len(stream)
  BY <1>3, <1>4, <1>5 DEF Read
<1>7. First(stream', coeffs') /\ coeffs' \in Seq(Nat)
  BY <1>1, <1>3, <1>4, FirstKept DEF SamplingInv
<1>8. Len(coeffs') < N => Len(coeffs') = Matrix!Good(stream', Len(stream))
  <2>1. Matrix!Good(stream', Len(stream)) = Matrix!Good(stream, Len(stream))
    BY <1>4, <1>5, GoodKept
  <2> QED
    BY <1>1, <1>4, <2>1 DEF SamplingInv
<1>9. Len(coeffs') <= N
  BY <1>1 DEF SamplingInv
<1>10. \E j \in Nat : Len(buf') = 2 * j
  BY <1>2, <1>3
<1> QED
  BY <1>1, <1>3, <1>4, <1>5, <1>6, <1>7, <1>8, <1>9, <1>10 DEF SamplingInv

LEMMA TakingFirst ==
  ASSUME NEW s \in Seq(Nat), NEW cs \in Seq(Nat), NEW p \in Nat, p + 2 <= Len(s),
         First(s, cs), N \in Nat, Len(cs) < N, Len(cs) = Matrix!Good(s, p)
  PROVE  LET ds == Matrix!Taking(cs, s[p + 1], s[p + 2])
         IN  /\ ds \in Seq(Nat) /\ First(s, ds) /\ Len(ds) <= N
             /\ Len(ds) < N => Len(ds) = Matrix!Good(s, p + 2)
<1> DEFINE one == IF s[p + 1] < Bound THEN Append(cs, s[p + 1]) ELSE cs
           ds == Matrix!Taking(cs, s[p + 1], s[p + 2])
           q == p + 1
<1>1. one \in Seq(Nat) /\ First(s, one) /\ Len(one) <= N /\ Len(one) = Matrix!Good(s, p + 1)
  <2>1. CASE s[p + 1] < Bound
    <3>1. /\ Append(cs, s[p + 1]) \in Seq(Nat)
          /\ Len(Append(cs, s[p + 1])) = Len(cs) + 1
          /\ First(s, Append(cs, s[p + 1]))
          /\ Len(Append(cs, s[p + 1])) = Matrix!Good(s, p + 1)
      <4>1. p + 1 <= Len(s)
        OBVIOUS
      <4> QED
        BY <2>1, <4>1, FirstTakes
    <3>2. Len(cs) + 1 <= N
      OBVIOUS
    <3> QED
      BY <2>1, <3>1, <3>2
  <2>2. CASE ~(s[p + 1] < Bound)
    <3>1. Matrix!Good(s, p + 1) = Matrix!Good(s, p)
      BY <2>2, GoodNext
    <3> QED
      BY <2>2, <3>1
  <2> QED
    BY <2>1, <2>2
<1>2. ds = IF Len(one) < N /\ s[p + 2] < Bound THEN Append(one, s[p + 2]) ELSE one
  BY DEF Matrix!Taking
<1>3. q \in Nat /\ q + 1 <= Len(s) /\ p + 2 = q + 1
  OBVIOUS
<1> HIDE DEF one, ds, q
<1>4. one \in Seq(Nat) /\ First(s, one) /\ Len(one) = Matrix!Good(s, q)
  BY <1>1 DEF q
<1>5. CASE Len(one) < N /\ s[q + 1] < Bound
  <2>1. /\ Append(one, s[q + 1]) \in Seq(Nat)
        /\ Len(Append(one, s[q + 1])) = Len(one) + 1
        /\ First(s, Append(one, s[q + 1]))
        /\ Len(Append(one, s[q + 1])) = Matrix!Good(s, q + 1)
    BY <1>3, <1>4, <1>5, FirstTakes
  <2>2. Len(one) \in Nat
    BY <1>4
  <2>3. ds = Append(one, s[q + 1])
    BY <1>2, <1>3, <1>5
  <2>4. Len(ds) <= N
    BY <1>5, <2>1, <2>2, <2>3
  <2> QED
    BY <1>3, <2>1, <2>3, <2>4 DEF ds
<1>6. CASE ~(Len(one) < N /\ s[q + 1] < Bound)
  <2>1. ds = one
    BY <1>2, <1>3, <1>6
  <2>2. ASSUME Len(one) < N PROVE Len(one) = Matrix!Good(s, q + 1)
    <3>1. ~(s[q + 1] < Bound)
      BY <1>6, <2>2
    <3> QED
      BY <1>3, <1>4, <3>1, GoodNext
  <2> QED
    BY <1>1, <1>3, <2>1, <2>2 DEF ds
<1> QED
  BY <1>5, <1>6

LEMMA SamplingSample ==
  ASSUME Matrix!SamplingAssumption, SamplingInv, Matrix!Sample PROVE SamplingInv'
<1>1. /\ sampling = "within" /\ Len(coeffs) < N /\ buf # <<>>
      /\ coeffs' = Matrix!Taking(coeffs, buf[1], buf[2])
      /\ buf' = SubSeq(buf, 3, Len(buf))
      /\ stream' = stream /\ sampling' = sampling
  BY DEF Matrix!Sample, Matrix!ctr
<1>2. PICK k \in Nat : Len(buf) = 2 * k
  BY DEF SamplingInv
<1>3. stream \in Seq(Nat) /\ buf \in Seq(Nat) /\ coeffs \in Seq(Nat) /\ Read \in Nat /\ N \in Nat
  BY DEF SamplingInv, Matrix!SamplingAssumption
<1>4. k - 1 \in Nat /\ Len(buf) >= 2
  <2>1. Len(buf) # 0
    BY <1>1, <1>3
  <2> QED
    BY <1>2, <2>1
<1>5. /\ buf' \in Seq(Nat) /\ Len(buf') = Len(buf) - 2
      /\ \A i \in 1..Len(buf') : buf'[i] = buf[i + 2]
  BY <1>1, <1>3, <1>4, WithoutTwo
<1>6. Read' = Read + 2
  <2>1. Len(stream) \in Nat /\ Len(buf) \in Nat /\ Len(stream') = Len(stream)
    BY <1>1, <1>3
  <2> QED
    BY <1>5, <2>1 DEF Read
<1>7. buf[1] = stream[Read + 1] /\ buf[2] = stream[Read + 2] /\ Read + 2 <= Len(stream)
  <2>1. 1 \in 1..Len(buf) /\ 2 \in 1..Len(buf)
    BY <1>3, <1>4
  <2>2. Len(stream) = Read + Len(buf)
    BY <1>3 DEF Read
  <2> QED
    BY <1>3, <1>4, <2>1, <2>2 DEF SamplingInv
<1>8. First(stream, coeffs) /\ Len(coeffs) = Matrix!Good(stream, Read)
  BY <1>1 DEF SamplingInv
<1>9. /\ coeffs' \in Seq(Nat) /\ First(stream, coeffs') /\ Len(coeffs') <= N
      /\ Len(coeffs') < N => Len(coeffs') = Matrix!Good(stream, Read + 2)
  <2>1. coeffs' = Matrix!Taking(coeffs, stream[Read + 1], stream[Read + 2])
    BY <1>1, <1>7
  <2> QED
    BY <1>1, <1>3, <1>7, <1>8, <2>1, TakingFirst
<1>10. \A i \in 1..Len(buf') : buf'[i] = stream'[Read' + i]
  <2> SUFFICES ASSUME NEW i \in 1..Len(buf') PROVE buf'[i] = stream[(Read + 2) + i]
    BY <1>1, <1>6
  <2>1. i + 2 \in 1..Len(buf) /\ (Read + 2) + i = Read + (i + 2)
    BY <1>3, <1>5
  <2> QED
    BY <1>5, <2>1 DEF SamplingInv
<1>11. \E j \in Nat : Len(buf') = 2 * j
  <2>1. Len(buf') = 2 * (k - 1)
    BY <1>2, <1>5
  <2> QED
    BY <1>4, <2>1
<1>12. Read' \in Nat
  BY <1>3, <1>6
<1> QED
  BY <1>1, <1>3, <1>5, <1>6, <1>9, <1>10, <1>11, <1>12 DEF SamplingInv

LEMMA SamplingReturn ==
  ASSUME Matrix!SamplingAssumption, SamplingInv, Matrix!Return PROVE SamplingInv'
<1>1. /\ sampling = "within" /\ (Len(coeffs) >= N \/ buf = <<>>)
      /\ sampling' = (IF Len(coeffs) < N THEN "between" ELSE "done")
      /\ buf' = <<>> /\ stream' = stream /\ coeffs' = coeffs
  BY DEF Matrix!Return, Matrix!ctr
<1>2. /\ stream \in Seq(Nat) /\ coeffs \in Seq(Nat) /\ N \in Nat /\ First(stream, coeffs)
      /\ Len(coeffs) \in Nat /\ Len(coeffs) <= N /\ Len(stream) \in Nat
      /\ Len(coeffs) < N => Len(coeffs) = Matrix!Good(stream, Read)
  BY DEF SamplingInv, Matrix!SamplingAssumption
<1>3. Read' = Len(stream) /\ Len(buf') = 2 * 0
  BY <1>1, <1>2 DEF Read
<1>4. Len(coeffs) < N => Len(coeffs) = Matrix!Good(stream, Len(stream))
  <2> SUFFICES ASSUME Len(coeffs) < N PROVE Len(coeffs) = Matrix!Good(stream, Len(stream))
    OBVIOUS
  <2>1. buf = <<>>
    BY <1>1, <1>2
  <2>2. Read = Len(stream)
    BY <1>2, <2>1 DEF Read
  <2> QED
    BY <1>2, <2>2
<1>5. ~(Len(coeffs) < N) => Len(coeffs) = N
  BY <1>2
<1> QED
  BY <1>1, <1>2, <1>3, <1>4, <1>5 DEF SamplingInv

LEMMA SamplingMoves == [Next]_vars => [Matrix!Next]_samplingVars
BY DEF Next, vars, CoapStep, KemStep, SpongeStep, PermutationStep, SamplingStep, samplingVars

LEMMA SamplingKeeps == SamplingInv /\ UNCHANGED samplingVars => SamplingInv'
BY DEF samplingVars, SamplingInv, Read, First

LEMMA SamplingAlways == Spec => []SamplingInv
<1>1. Matrix!SamplingAssumption
  BY RoutineAssumption
<1>2. Init => SamplingInv
  BY <1>1, SamplingInit DEF Init
<1>3. SamplingInv /\ [Next]_vars => SamplingInv'
  <2> SUFFICES ASSUME SamplingInv, [Matrix!Next]_samplingVars PROVE SamplingInv'
    BY SamplingMoves
  <2> QED
    BY <1>1, SamplingSqueeze, SamplingSample, SamplingReturn, SamplingKeeps DEF Matrix!Next
<1> QED
  BY <1>2, <1>3, PTL DEF Spec

\* However the stream falls into blocks, the coefficients of the matrix are the
\* first of it that are below q, none skipped, none taken twice, and never
\* more than fit.
THEOREM MatrixIsSampled == Spec => []SamplesInOrder
<1>1. SamplingInv => SamplesInOrder
  <2> SUFFICES ASSUME SamplingInv PROVE SamplesInOrder
    OBVIOUS
  <2>1. First(stream, coeffs) /\ Len(coeffs) <= N /\ (sampling = "done" => Len(coeffs) = N)
    BY DEF SamplingInv
  <2>2. ASSUME sampling = "between" PROVE Len(coeffs) = Matrix!Good(stream, Len(stream))
    <3>1. buf = <<>> /\ stream \in Seq(Nat) /\ Len(coeffs) = Matrix!Good(stream, Read)
      BY <2>2 DEF SamplingInv
    <3>2. Read = Len(stream)
      BY <3>1 DEF Read
    <3> QED
      BY <3>1, <3>2
  <2> QED
    BY <2>1, <2>2 DEF SamplesInOrder, Matrix!SamplesInOrder, Matrix!ctr, First
<1> QED
  BY <1>1, SamplingAlways, PTL

-----------------------------------------------------------------------------
(* The sponge, for every rate, every input and every way to cut input and  *)
(* output into calls.                                                      *)

LEMMA DivisionIs ==
  ASSUME NEW R \in Nat \ {0}, NEW q \in Nat, NEW r \in Nat, r < R
  PROVE  (q * R + r) \div R = q /\ (q * R + r) % R = r
OBVIOUS

LEMMA DivisionOf ==
  ASSUME NEW R \in Nat \ {0}, NEW x \in Nat
  PROVE  /\ x \div R \in Nat /\ x % R \in Nat /\ x % R < R
         /\ x = (x \div R) * R + (x % R)
OBVIOUS

LEMMA Products ==
  ASSUME NEW R \in Nat \ {0}
  PROVE  /\ \A a, b \in Nat : a < b => a * R + R <= b * R
         /\ \A a \in Nat : a * R \in Nat /\ (a + 1) * R = a * R + R
OBVIOUS

\* Block k with the first at bytes of it filled in.
Filled(k, at) == [i \in Hash!Place |-> IF i < at THEN {k * Rate + i} ELSE {}]

\* The first n blocks of the padded input.
Blocks(n) == [k \in 1..n |-> Hash!InputBlock(k - 1)]

\* The number of the block with the padding.
Last == total \div Rate

\* Byte m of the output, from the definition.
Expected(m) == [past |-> Blocks(Last + 1 + ((m - 1) \div Rate)), at |-> (m - 1) % Rate]

LEMMA FilledNone == \A k : Filled(k, 0) = Hash!Zero
BY DEF Filled, Hash!Zero, Hash!Place

LEMMA FilledMore ==
  ASSUME Rate \in Nat \ {0}, NEW k \in Nat, NEW at \in Nat, NEW n \in Nat, at + n <= Rate
  PROVE  Hash!WithBytes(Filled(k, at), at, k * Rate + at, n) = Filled(k, at + n)
<1> DEFINE base == k * Rate
<1>1. base \in Nat
  OBVIOUS
<1>2. Filled(k, at) = [i \in Hash!Place |-> IF i < at THEN {base + i} ELSE {}]
      /\ Filled(k, at + n) = [i \in Hash!Place |-> IF i < at + n THEN {base + i} ELSE {}]
  BY DEF Filled
<1> HIDE DEF base
<1>3. ASSUME NEW i \in Hash!Place
      PROVE  (IF i \in at..(at + n - 1) THEN Hash!Xor(Filled(k, at)[i], {base + at + i - at}) ELSE Filled(k, at)[i])
             = (IF i < at + n THEN {base + i} ELSE {})
  <2>1. i \in Int /\ 0 <= i /\ Filled(k, at)[i] = IF i < at THEN {base + i} ELSE {}
    BY <1>2, <1>3 DEF Hash!Place
  <2>2. CASE i < at
    BY <2>1, <2>2
  <2>3. CASE at <= i /\ i < at + n
    <3>1. i \in at..(at + n - 1) /\ base + at + i - at = base + i /\ Filled(k, at)[i] = {}
      BY <1>1, <2>1, <2>3
    <3>2. Hash!Xor({}, {base + i}) = {base + i}
      BY DEF Hash!Xor
    <3> QED
      BY <2>3, <3>1, <3>2
  <2>4. CASE at + n <= i
    BY <2>1, <2>4
  <2> QED
    BY <2>1, <2>2, <2>3, <2>4
<1>4. Hash!WithBytes(Filled(k, at), at, base + at, n)
      = [i \in Hash!Place |-> IF i \in at..(at + n - 1) THEN Hash!Xor(Filled(k, at)[i], {base + at + i - at})
                              ELSE Filled(k, at)[i]]
  BY DEF Hash!WithBytes
<1> QED
  BY <1>2, <1>3, <1>4 DEF base

\* A block that the input fills is one of the padded input.
LEMMA FilledWhole ==
  ASSUME Rate \in Nat \ {0}, total \in Nat, NEW k \in Nat, k * Rate + Rate <= total
  PROVE  Filled(k, Rate) = Hash!InputBlock(k)
<1> DEFINE base == k * Rate
<1>1. base \in Nat /\ base + Rate <= total
  OBVIOUS
<1>2. k # Last
  <2>1. Last \in Nat /\ total < Last * Rate + Rate
    BY DivisionOf DEF Last
  <2> QED
    BY <2>1
<1>3. ASSUME NEW i \in Hash!Place
      PROVE  {base + i} = (IF base + i < total THEN {base + i} ELSE {})
                          \cup (IF base + i = total THEN {Hash!Domain} ELSE {})
                          \cup (IF k = Last /\ i = Rate - 1 THEN {Hash!End} ELSE {})
             /\ i < Rate
  <2>1. base + i \in Int /\ base + i < total /\ i < Rate
    BY <1>1, <1>3 DEF Hash!Place
  <2> QED
    BY <1>2, <2>1
<1>4. Hash!InputBlock(k) = [i \in Hash!Place |->
                              (IF base + i < total THEN {base + i} ELSE {})
                              \cup (IF base + i = total THEN {Hash!Domain} ELSE {})
                              \cup (IF k = Last /\ i = Rate - 1 THEN {Hash!End} ELSE {})]
  BY DEF Hash!InputBlock, Last
<1>5. Filled(k, Rate) = [i \in Hash!Place |-> IF i < Rate THEN {base + i} ELSE {}]
  BY DEF Filled
<1> HIDE DEF base
<1> QED
  BY <1>3, <1>4, <1>5

\* Behind the padding there is nothing.
LEMMA NothingBehind ==
  ASSUME Rate \in Nat \ {0}, total \in Nat, NEW k \in Nat, k > Last
  PROVE  Hash!InputBlock(k) = Hash!Zero
<1> DEFINE base == k * Rate
<1>1. base \in Nat /\ base > total
  <2>1. Last \in Nat /\ total < Last * Rate + Rate
    BY DivisionOf DEF Last
  <2>2. Last * Rate + Rate <= k * Rate
    BY <2>1, Products
  <2> QED
    BY <2>1, <2>2
<1>2. Hash!InputBlock(k) = [i \in Hash!Place |->
                              (IF base + i < total THEN {base + i} ELSE {})
                              \cup (IF base + i = total THEN {Hash!Domain} ELSE {})
                              \cup (IF k = Last /\ i = Rate - 1 THEN {Hash!End} ELSE {})]
  BY DEF Hash!InputBlock, Last
<1> HIDE DEF base
<1>3. ASSUME NEW i \in Hash!Place PROVE ~(base + i < total) /\ base + i # total
  BY <1>1 DEF Hash!Place
<1>4. k # Last
  <2>1. Last \in Nat
    BY DivisionOf DEF Last
  <2> QED
    BY <2>1
<1> QED
  BY <1>2, <1>3, <1>4 DEF Hash!Zero

\* The padding finishes the block that the input ends in.
LEMMA PaddingEnds ==
  ASSUME Rate \in Nat \ {0}, total \in Nat, NEW k \in Nat, NEW at \in Nat, at < Rate,
         total = k * Rate + at
  PROVE  Last = k /\ Hash!Padded(Filled(k, at), at) = Hash!InputBlock(k)
<1> DEFINE base == k * Rate
           b == Filled(k, at)
           c == [b EXCEPT ![at] = Hash!Xor(@, {Hash!Domain})]
<1>1. Last = k
  BY DivisionIs DEF Last
<1>2. base \in Nat /\ total = base + at
  OBVIOUS
<1>3. Hash!InputBlock(k) = [i \in Hash!Place |->
                              (IF base + i < total THEN {base + i} ELSE {})
                              \cup (IF base + i = total THEN {Hash!Domain} ELSE {})
                              \cup (IF k = Last /\ i = Rate - 1 THEN {Hash!End} ELSE {})]
  BY DEF Hash!InputBlock, Last
<1>4. b = [i \in Hash!Place |-> IF i < at THEN {base + i} ELSE {}]
  BY DEF Filled
<1>5. Hash!Padded(b, at) = [c EXCEPT ![Rate - 1] = Hash!Xor(c[Rate - 1], {Hash!End})]
  BY DEF Hash!Padded
<1>6. at \in Hash!Place /\ Rate - 1 \in Hash!Place
  BY DEF Hash!Place
<1> HIDE DEF base, b
<1>7. c = [i \in Hash!Place |-> IF i < at THEN {base + i} ELSE IF i = at THEN {Hash!Domain} ELSE {}]
  <2>1. b[at] = {} /\ Hash!Xor({}, {Hash!Domain}) = {Hash!Domain}
    BY <1>4, <1>6 DEF Hash!Xor
  <2>2. \A i \in Hash!Place : i \in Int
    BY DEF Hash!Place
  <2> QED
    BY <1>4, <1>6, <2>1, <2>2
<1> HIDE DEF c
<1>8. Hash!Xor(c[Rate - 1], {Hash!End}) = c[Rate - 1] \cup {Hash!End}
  <2>1. Hash!End \notin c[Rate - 1]
    <3>1. Hash!End = -2 /\ Hash!Domain = -1
      BY DEF Hash!End, Hash!Domain
    <3>2. base + (Rate - 1) # -2
      BY <1>2
    <3> QED
      BY <1>6, <1>7, <3>1, <3>2
  <2> QED
    BY <2>1 DEF Hash!Xor
<1>9. ASSUME NEW i \in Hash!Place
      PROVE  (IF i = Rate - 1 THEN c[Rate - 1] \cup {Hash!End} ELSE c[i])
             = (IF base + i < total THEN {base + i} ELSE {})
               \cup (IF base + i = total THEN {Hash!Domain} ELSE {})
               \cup (IF k = Last /\ i = Rate - 1 THEN {Hash!End} ELSE {})
  <2>1. c[i] = (IF base + i < total THEN {base + i} ELSE {})
               \cup (IF base + i = total THEN {Hash!Domain} ELSE {})
    <3>1. i \in Int /\ (base + i < total <=> i < at) /\ (base + i = total <=> i = at)
      BY <1>2, <1>9 DEF Hash!Place
    <3>2. c[i] = IF i < at THEN {base + i} ELSE IF i = at THEN {Hash!Domain} ELSE {}
      BY <1>7, <1>9
    <3> QED
      BY <3>1, <3>2
  <2>2. CASE i = Rate - 1
    BY <1>1, <2>1, <2>2
  <2>3. CASE i # Rate - 1
    BY <2>1, <2>3
  <2> QED
    BY <2>2, <2>3
<1>10. Hash!Padded(b, at) = [i \in Hash!Place |-> IF i = Rate - 1 THEN c[Rate - 1] \cup {Hash!End} ELSE c[i]]
  <2>1. c = [i \in Hash!Place |-> c[i]]
    BY <1>7
  <2> QED
    BY <1>5, <1>6, <1>8, <2>1
<1> QED
  BY <1>1, <1>3, <1>9, <1>10 DEF b

LEMMA SequenceOf ==
  ASSUME NEW S, NEW n \in Nat, NEW f, f = [k \in 1..n |-> f[k]], \A k \in 1..n : f[k] \in S
  PROVE  f \in Seq(S) /\ Len(f) = n
OBVIOUS

LEMMA BlocksAre ==
  ASSUME NEW n \in Nat, NEW S, \A k \in 1..n : Hash!InputBlock(k - 1) \in S
  PROVE  /\ Blocks(n) \in Seq(S) /\ Len(Blocks(n)) = n
         /\ \A k \in 1..n : Blocks(n)[k] = Hash!InputBlock(k - 1)
<1> DEFINE b == Blocks(n)
<1>1. b = [k \in 1..n |-> b[k]] /\ \A k \in 1..n : b[k] = Hash!InputBlock(k - 1)
  BY Zenon DEF Blocks
<1> HIDE DEF b
<1>2. \A k \in 1..n : b[k] \in S
  BY <1>1
<1>3. b \in Seq(S) /\ Len(b) = n
  BY <1>1, <1>2, SequenceOf
<1> QED
  BY <1>1, <1>3 DEF b

LEMMA BlocksAppend ==
  ASSUME NEW n \in Nat
  PROVE  Append(Blocks(n), Hash!InputBlock(n)) = Blocks(n + 1)
<1> DEFINE B == {Hash!InputBlock(k - 1) : k \in 1..(n + 1)}
           x == Hash!InputBlock(n)
<1>1. n + 1 \in 1..(n + 1) /\ (n + 1) - 1 = n /\ n + 1 \in Nat /\ \A k \in 1..n : k \in 1..(n + 1)
  OBVIOUS
<1>2. x \in B /\ \A k \in 1..(n + 1) : Hash!InputBlock(k - 1) \in B
  BY <1>1
<1> HIDE DEF B
<1>3. Blocks(n) \in Seq(B) /\ Len(Blocks(n)) = n /\ \A k \in 1..n : Blocks(n)[k] = Hash!InputBlock(k - 1)
  BY <1>1, <1>2, BlocksAre
<1>4. /\ Blocks(n + 1) \in Seq(B) /\ Len(Blocks(n + 1)) = n + 1
      /\ \A k \in 1..(n + 1) : Blocks(n + 1)[k] = Hash!InputBlock(k - 1)
  BY <1>1, <1>2, BlocksAre
<1>5. Blocks(n + 1)[n + 1] = x
  BY <1>1, <1>4
<1> HIDE DEF B, x
<1> DEFINE a == Append(Blocks(n), x)
<1>6. a \in Seq(B) /\ Len(a) = n + 1 /\ a[n + 1] = x /\ \A k \in 1..n : a[k] = Blocks(n)[k]
  BY <1>2, <1>3, AppendProperties
<1> HIDE DEF a
<1>7. \A k \in 1..(n + 1) : a[k] = Blocks(n + 1)[k]
  <2> SUFFICES ASSUME NEW k \in 1..(n + 1) PROVE a[k] = Blocks(n + 1)[k]
    OBVIOUS
  <2>1. CASE k = n + 1
    BY <1>5, <1>6, <2>1
  <2>2. CASE k \in 1..n
    BY <1>3, <1>4, <1>6, <2>2
  <2> QED
    BY <2>1, <2>2
<1>8. a = Blocks(n + 1)
  BY <1>4, <1>6, <1>7, SeqEqual
<1> QED
  BY <1>8 DEF a, x

LEMMA BlocksNone == Blocks(0) = <<>>
BY DEF Blocks

(***************************************************************************)
(* The invariant.  While the input is absorbed, the state holds its blocks *)
(* and the beginning of the next; afterwards it is in step with the output.*)
(***************************************************************************)
SpongeTypes ==
    /\ total \in Nat /\ absorbed \in Nat /\ todo \in Nat
    /\ pos \in Nat /\ pos <= Rate
    /\ mode \in {"new", "absorbing", "squeezing"}

Absorbing ==
    \E n \in Nat :
        /\ past = Blocks(n)
        /\ block = Filled(n, pos)
        /\ absorbed = n * Rate + pos
        /\ pos < Rate
        /\ absorbed + todo <= total
        /\ out = <<>>

OutIs(o, length) ==
    /\ o \in Seq({Expected(m) : m \in Nat \ {0}}) /\ Len(o) = length
    /\ \A m \in 1..length : o[m] = Expected(m)

Squeezing ==
    \E n \in Nat :
        /\ past = Blocks(Last + n)
        /\ block = Hash!InputBlock(Last + n)
        /\ Len(out) + Rate = n * Rate + pos
        /\ OutIs(out, Len(out))
        /\ Len(out) \in Nat

SpongeInv ==
    /\ SpongeTypes
    /\ mode = "new" => Absorbing /\ absorbed = 0 /\ todo = 0
    /\ mode = "absorbing" => Absorbing
    /\ mode = "squeezing" => Squeezing

LEMMA SpongeInit == Hash!SpongeAssumption /\ Hash!Init => SpongeInv
<1> SUFFICES ASSUME Hash!SpongeAssumption, Hash!Init PROVE SpongeInv
  OBVIOUS
<1>1. /\ total \in 0..MaxInput /\ absorbed = 0 /\ todo = 0 /\ past = <<>> /\ block = Hash!Zero
      /\ pos = 0 /\ mode = "new" /\ out = <<>> /\ Rate \in Nat \ {0} /\ MaxInput \in Nat
  BY DEF Hash!Init, Hash!SpongeAssumption
<1>2. total \in Nat /\ 0 * Rate + 0 = 0 /\ 0 < Rate /\ 0 + 0 <= total /\ 0 \in Nat
  BY <1>1
<1>3. past = Blocks(0) /\ block = Filled(0, 0)
  BY <1>1, BlocksNone, FilledNone
<1>4. Absorbing
  BY <1>1, <1>2, <1>3 DEF Absorbing
<1> QED
  BY <1>1, <1>2, <1>4 DEF SpongeInv, SpongeTypes

LEMMA SpongeInitState == ASSUME SpongeInv, Hash!InitState PROVE SpongeInv'
BY DEF SpongeInv, SpongeTypes, Hash!InitState, Absorbing, Filled, Blocks, Hash!InputBlock, Hash!Place

LEMMA SpongeAbsorbCall == ASSUME SpongeInv, Hash!AbsorbCall PROVE SpongeInv'
<1>1. /\ mode = "absorbing" /\ UNCHANGED <<total, absorbed, past, block, pos, mode, out>>
      /\ todo' \in 1..(total - absorbed)
  BY DEF Hash!AbsorbCall
<1>2. total \in Nat /\ absorbed \in Nat
  BY DEF SpongeInv, SpongeTypes
<1>3. todo' \in Nat /\ absorbed + todo' <= total
  <2> DEFINE t == todo'
  <2>1. t \in 1..(total - absorbed)
    BY <1>1
  <2> HIDE DEF t
  <2>2. t \in Nat /\ absorbed + t <= total
    BY <1>2, <2>1
  <2> QED
    BY <2>2 DEF t
<1>4. PICK n \in Nat :
         /\ past = Blocks(n) /\ block = Filled(n, pos) /\ absorbed = n * Rate + pos /\ pos < Rate /\ out = <<>>
  BY <1>1 DEF SpongeInv, Absorbing
<1>5. Blocks(n)' = Blocks(n) /\ Filled(n, pos)' = Filled(n, pos)
  BY <1>1 DEF Blocks, Filled, Hash!InputBlock, Hash!Place
<1>6. Absorbing'
  BY <1>1, <1>3, <1>4, <1>5 DEF Absorbing
<1> QED
  BY <1>1, <1>3, <1>6 DEF SpongeInv, SpongeTypes

\* The input stays what it was, and with it the blocks.
LEMMA InputStays ==
  ASSUME total' = total
  PROVE  /\ Last' = Last
         /\ \A n : Blocks(n)' = Blocks(n) /\ Hash!InputBlock(n)' = Hash!InputBlock(n)
         /\ \A m : Expected(m)' = Expected(m)
BY DEF Last, Blocks, Hash!InputBlock, Hash!Place, Expected

LEMMA SpongeAbsorbBlock ==
  ASSUME Hash!SpongeAssumption, SpongeInv, Hash!AbsorbBlock PROVE SpongeInv'
<1> DEFINE room == Rate - pos
<1>1. /\ mode = "absorbing" /\ pos + todo >= Rate
      /\ past' = Append(past, Hash!WithBytes(block, pos, absorbed, room))
      /\ block' = Hash!Zero /\ absorbed' = absorbed + room /\ todo' = todo - room /\ pos' = 0
      /\ total' = total /\ mode' = mode /\ out' = out
  BY DEF Hash!AbsorbBlock, Hash!Fills
<1>2. PICK n \in Nat :
         /\ past = Blocks(n) /\ block = Filled(n, pos) /\ absorbed = n * Rate + pos /\ pos < Rate
         /\ absorbed + todo <= total /\ out = <<>>
  BY <1>1 DEF SpongeInv, Absorbing
<1>3. total \in Nat /\ absorbed \in Nat /\ todo \in Nat /\ pos \in Nat /\ Rate \in Nat \ {0}
  BY DEF SpongeInv, SpongeTypes, Hash!SpongeAssumption
<1> DEFINE base == n * Rate
<1>4. base \in Nat /\ (n + 1) * Rate = base + Rate /\ absorbed = base + pos
  BY <1>2, <1>3, Products
<1>5. room \in Nat /\ pos + room = Rate /\ base + Rate <= total
      /\ absorbed' = base + Rate /\ todo' \in Nat /\ absorbed' + todo' <= total
  <2> HIDE DEF base
  <2> QED
    BY <1>1, <1>2, <1>3, <1>4
<1> HIDE DEF room
<1>6. Hash!WithBytes(block, pos, absorbed, room) = Hash!InputBlock(n)
  <2>1. Hash!WithBytes(Filled(n, pos), pos, n * Rate + pos, room) = Filled(n, pos + room)
    BY <1>3, <1>5, FilledMore
  <2>2. Filled(n, Rate) = Hash!InputBlock(n)
    BY <1>3, <1>5, FilledWhole
  <2> QED
    BY <1>2, <1>5, <2>1, <2>2
<1>7. past' = Blocks(n + 1)
  BY <1>1, <1>2, <1>6, BlocksAppend
<1>8. block' = Filled(n + 1, 0) /\ n + 1 \in Nat
  BY <1>1, FilledNone
<1>9. Blocks(n + 1)' = Blocks(n + 1) /\ Filled(n + 1, pos)' = Filled(n + 1, 0)
  BY <1>1, InputStays DEF Filled, Hash!Place
<1>10. absorbed' = (n + 1) * Rate + pos' /\ pos' < Rate /\ pos' \in Nat
  <2> HIDE DEF base
  <2> QED
    BY <1>1, <1>3, <1>4, <1>5
<1>11. Absorbing'
  BY <1>1, <1>2, <1>5, <1>7, <1>8, <1>9, <1>10 DEF Absorbing
<1>12. absorbed' \in Nat
  <2> HIDE DEF base
  <2> QED
    BY <1>3, <1>4, <1>5
<1> QED
  BY <1>1, <1>3, <1>5, <1>10, <1>11, <1>12 DEF SpongeInv, SpongeTypes

LEMMA SpongeAbsorbRest ==
  ASSUME Hash!SpongeAssumption, SpongeInv, Hash!AbsorbRest PROVE SpongeInv'
<1>1. /\ mode = "absorbing" /\ ~(pos + todo >= Rate)
      /\ block' = Hash!WithBytes(block, pos, absorbed, todo)
      /\ absorbed' = absorbed + todo /\ pos' = pos + todo /\ todo' = 0
      /\ total' = total /\ past' = past /\ mode' = mode /\ out' = out
  BY DEF Hash!AbsorbRest, Hash!Fills
<1>2. PICK n \in Nat :
         /\ past = Blocks(n) /\ block = Filled(n, pos) /\ absorbed = n * Rate + pos /\ pos < Rate
         /\ absorbed + todo <= total /\ out = <<>>
  BY <1>1 DEF SpongeInv, Absorbing
<1>3. total \in Nat /\ absorbed \in Nat /\ todo \in Nat /\ pos \in Nat /\ Rate \in Nat \ {0}
  BY DEF SpongeInv, SpongeTypes, Hash!SpongeAssumption
<1> DEFINE base == n * Rate
<1>4. base \in Nat /\ absorbed = base + pos
  BY <1>2, <1>3, Products
<1>5. /\ pos' \in Nat /\ pos' < Rate /\ absorbed' = base + pos' /\ absorbed' \in Nat
      /\ absorbed' + todo' <= total
  <2> HIDE DEF base
  <2> QED
    BY <1>1, <1>2, <1>3, <1>4
<1>6. block' = Filled(n, pos')
  <2>1. pos + todo <= Rate
    BY <1>1, <1>3
  <2>2. Hash!WithBytes(Filled(n, pos), pos, n * Rate + pos, todo) = Filled(n, pos + todo)
    BY <1>3, <2>1, FilledMore
  <2> QED
    BY <1>1, <1>2, <2>2
<1>7. Filled(n, pos)' = Filled(n, pos') /\ Blocks(n)' = Blocks(n)
  BY <1>1, InputStays DEF Filled, Hash!Place
<1>8. Absorbing'
  BY <1>1, <1>2, <1>5, <1>6, <1>7 DEF Absorbing
<1> QED
  BY <1>1, <1>3, <1>5, <1>8 DEF SpongeInv, SpongeTypes

(***************************************************************************)
(* After the padding nothing is squeezed yet, and a block is due.          *)
(***************************************************************************)
LEMMA LastType == ASSUME Rate \in Nat \ {0}, total \in Nat PROVE Last \in Nat
BY DivisionOf DEF Last

LEMMA SqueezingBegins ==
  ASSUME Rate \in Nat \ {0}, total \in Nat, total' = total, past' = Blocks(Last),
         block' = Hash!InputBlock(Last), pos' = Rate, out' = <<>>
  PROVE  Squeezing'
<1>1. Last + 0 = Last /\ 0 \in Nat
  BY LastType
<1>2. (past = Blocks(Last + 0))' /\ (block = Hash!InputBlock(Last + 0))'
  <2>1. Last' = Last /\ Blocks(Last)' = Blocks(Last) /\ Hash!InputBlock(Last)' = Hash!InputBlock(Last)
    BY InputStays
  <2>2. Last' + 0 = Last
    BY <1>1, <2>1
  <2>3. Blocks(Last + 0)' = Blocks(Last) /\ Hash!InputBlock(Last + 0)' = Hash!InputBlock(Last)
    BY <2>1, <2>2 DEF Blocks, Hash!InputBlock
  <2> QED
    BY <2>3
<1>3. Len(out') = 0 /\ 0 \in Nat /\ 0 + Rate = 0 * Rate + pos'
  OBVIOUS
<1>4. OutIs(out, Len(out))'
  BY <1>3 DEF OutIs
<1> QED
  BY <1>2, <1>3, <1>4 DEF Squeezing

LEMMA SpongeFinalize ==
  ASSUME Hash!SpongeAssumption, SpongeInv, Hash!Finalize PROVE SpongeInv'
<1>1. /\ mode = "absorbing" /\ todo = 0 /\ absorbed = total
      /\ block' = Hash!Padded(block, pos) /\ pos' = Rate /\ mode' = "squeezing"
      /\ total' = total /\ absorbed' = absorbed /\ todo' = todo /\ past' = past /\ out' = out
  BY DEF Hash!Finalize
<1>2. PICK n \in Nat :
         /\ past = Blocks(n) /\ block = Filled(n, pos) /\ absorbed = n * Rate + pos /\ pos < Rate
         /\ out = <<>>
  BY <1>1 DEF SpongeInv, Absorbing
<1>3. total \in Nat /\ absorbed \in Nat /\ todo \in Nat /\ pos \in Nat /\ Rate \in Nat \ {0}
  BY DEF SpongeInv, SpongeTypes, Hash!SpongeAssumption
<1>4. Last = n /\ block' = Hash!InputBlock(n)
  <2>1. total = n * Rate + pos
    BY <1>1, <1>2
  <2>2. Last = n /\ Hash!Padded(Filled(n, pos), pos) = Hash!InputBlock(n)
    BY <1>2, <1>3, <2>1, PaddingEnds
  <2> QED
    BY <1>1, <1>2, <2>2
<1>5. Squeezing'
  BY <1>1, <1>2, <1>3, <1>4, SqueezingBegins
<1> QED
  BY <1>1, <1>3, <1>5 DEF SpongeInv, SpongeTypes

LEMMA SpongeAbsorbOnce ==
  ASSUME Hash!SpongeAssumption, SpongeInv, Hash!AbsorbOnce PROVE SpongeInv'
<1> DEFINE rest == total % Rate
<1>1. /\ mode = "new"
      /\ past' = [k \in 1..Last |-> Hash!WithBytes(Hash!Zero, 0, (k - 1) * Rate, Rate)]
      /\ block' = Hash!Padded(Hash!WithBytes(Hash!Zero, 0, total - rest, rest), rest)
      /\ absorbed' = total /\ pos' = Rate /\ mode' = "squeezing"
      /\ total' = total /\ todo' = todo /\ out' = out
  BY DEF Hash!AbsorbOnce, Last
<1>2. total \in Nat /\ todo \in Nat /\ Rate \in Nat \ {0} /\ out = <<>>
  BY <1>1 DEF SpongeInv, SpongeTypes, Hash!SpongeAssumption, Absorbing
<1>3. Last \in Nat /\ rest \in Nat /\ rest < Rate /\ total = Last * Rate + rest
  BY <1>2, DivisionOf DEF Last
<1> HIDE DEF rest
<1>4. past' = Blocks(Last)
  <2>1. ASSUME NEW k \in 1..Last
        PROVE  Hash!WithBytes(Hash!Zero, 0, (k - 1) * Rate, Rate) = Hash!InputBlock(k - 1)
    <3> DEFINE j == k - 1
    <3>1. j \in Nat /\ j < Last
      BY <1>3
    <3> HIDE DEF j
    <3>2. j * Rate + Rate <= total /\ j * Rate \in Nat
      <4>1. j * Rate + Rate <= Last * Rate /\ j * Rate \in Nat /\ Last * Rate \in Nat
        BY <1>2, <1>3, <3>1, Products
      <4> DEFINE a == j * Rate
                 b == Last * Rate
      <4>2. a + Rate <= b /\ a \in Nat /\ b \in Nat /\ total = b + rest
        BY <1>3, <4>1
      <4> HIDE DEF a, b
      <4>3. a + Rate <= total
        BY <1>2, <1>3, <4>2
      <4> QED
        BY <4>2, <4>3 DEF a
    <3>3. Hash!WithBytes(Filled(j, 0), 0, j * Rate + 0, Rate) = Filled(j, 0 + Rate)
      <4>1. 0 \in Nat /\ 0 + Rate <= Rate
        BY <1>2
      <4> QED
        BY <1>2, <3>1, <4>1, FilledMore
    <3>4. 0 + Rate = Rate /\ j * Rate + 0 = j * Rate
      BY <1>2, <3>2
    <3>5. Filled(j, Rate) = Hash!InputBlock(j)
      BY <1>2, <3>1, <3>2, FilledWhole
    <3>6. Hash!WithBytes(Hash!Zero, 0, j * Rate, Rate) = Hash!InputBlock(j)
      BY <3>3, <3>4, <3>5, FilledNone
    <3> QED
      BY <3>6 DEF j
  <2> QED
    BY <1>1, <2>1 DEF Blocks
<1>5. block' = Hash!InputBlock(Last)
  <2>1. total - rest = Last * Rate + 0 /\ 0 + rest = rest /\ 0 + rest <= Rate
    <3>1. Last * Rate \in Nat
      BY <1>2, <1>3, Products
    <3> QED
      BY <1>2, <1>3, <3>1
  <2>2. Hash!WithBytes(Filled(Last, 0), 0, Last * Rate + 0, rest) = Filled(Last, 0 + rest)
    BY <1>2, <1>3, <2>1, FilledMore
  <2>3. Hash!Padded(Filled(Last, rest), rest) = Hash!InputBlock(Last)
    BY <1>2, <1>3, PaddingEnds
  <2> QED
    BY <1>1, <2>1, <2>2, <2>3, FilledNone
<1>6. Squeezing'
  BY <1>1, <1>2, <1>4, <1>5, SqueezingBegins
<1> QED
  BY <1>1, <1>2, <1>6 DEF SpongeInv, SpongeTypes

(***************************************************************************)
(* Bytes of one block are the next bytes of the output.                    *)
(***************************************************************************)
LEMMA BytesExpected ==
  ASSUME Rate \in Nat \ {0}, total \in Nat, NEW q \in Nat, NEW r \in Nat, r < Rate
  PROVE  Expected(q * Rate + r + 1) = [past |-> Blocks(Last + 1 + q), at |-> r]
<1> DEFINE m == q * Rate + r + 1
<1>1. m - 1 = q * Rate + r
  <2> DEFINE base == q * Rate
  <2>1. base \in Nat
    BY Products
  <2> HIDE DEF base
  <2>2. (base + r + 1) - 1 = base + r
    BY <2>1
  <2> QED
    BY <2>2 DEF base
<1>2. (m - 1) \div Rate = q /\ (m - 1) % Rate = r
  BY <1>1, DivisionIs
<1> HIDE DEF m
<1>3. Expected(m) = [past |-> Blocks(Last + 1 + q), at |-> r]
  BY <1>2 DEF Expected
<1> QED
  BY <1>3 DEF m

LEMMA OutGrows ==
  ASSUME Rate \in Nat \ {0}, total \in Nat, NEW q \in Nat, NEW from \in Nat, NEW n \in Nat,
         from + n <= Rate, OutIs(out, q * Rate + from), NEW o,
         o = out \o Hash!Bytes(Blocks(Last + 1 + q), from, n)
  PROVE  OutIs(o, q * Rate + from + n)
<1> DEFINE E == {Expected(m) : m \in Nat \ {0}}
           base == q * Rate
           more == Hash!Bytes(Blocks(Last + 1 + q), from, n)
           length == base + from
<1>1. base \in Nat
  BY Products
<1>2. ASSUME NEW i \in 1..n
      PROVE  more[i] = Expected(length + i) /\ more[i] \in E
  <2> DEFINE r == from + i - 1
  <2>1. r \in Nat /\ r < Rate /\ base + r + 1 = length + i /\ length + i \in Nat \ {0}
    <3> HIDE DEF base
    <3> QED
      BY <1>1
  <2>2. more[i] = [past |-> Blocks(Last + 1 + q), at |-> r]
    BY DEF Hash!Bytes
  <2> HIDE DEF r, more
  <2>3. Expected(base + r + 1) = [past |-> Blocks(Last + 1 + q), at |-> r]
    BY <2>1, BytesExpected
  <2>4. more[i] = Expected(length + i)
    BY <2>1, <2>2, <2>3
  <2> QED
    BY <2>1, <2>4
<1>3. more \in Seq(E) /\ Len(more) = n
  <2>1. more = [i \in 1..n |-> more[i]]
    BY DEF Hash!Bytes
  <2>2. \A i \in 1..n : more[i] \in E
    BY <1>2
  <2> HIDE DEF more, E
  <2> QED
    BY <2>1, <2>2
<1>4. out \in Seq(E) /\ Len(out) = length /\ \A m \in 1..length : out[m] = Expected(m)
  BY DEF OutIs
<1>5. length \in Nat
  <2> HIDE DEF base
  <2> QED
    BY <1>1
<1> HIDE DEF E, more, length
<1>6. /\ o \in Seq(E) /\ Len(o) = length + n
      /\ \A i \in 1..(length + n) : o[i] = IF i <= length THEN out[i] ELSE more[i - length]
  <2>1. o = out \o more
    BY DEF more
  <2>2. /\ out \o more \in Seq(E) /\ Len(out \o more) = Len(out) + Len(more)
        /\ \A i \in 1..(Len(out) + Len(more)) : (out \o more)[i] = IF i <= Len(out) THEN out[i] ELSE more[i - Len(out)]
    <3>1. out \in Seq(E) /\ more \in Seq(E)
      BY <1>3, <1>4
    <3> QED
      BY <3>1, ConcatProperties
  <2> QED
    BY <1>3, <1>4, <2>1, <2>2
<1>7. \A i \in 1..(length + n) : o[i] = Expected(i)
  <2> SUFFICES ASSUME NEW i \in 1..(length + n) PROVE o[i] = Expected(i)
    OBVIOUS
  <2>1. CASE i <= length
    <3>1. i \in 1..length
      BY <1>5, <2>1
    <3> QED
      BY <1>4, <1>6, <2>1, <3>1
  <2>2. CASE ~(i <= length)
    <3>1. i - length \in 1..n /\ length + (i - length) = i
      BY <1>5, <2>2
    <3>2. more[i - length] = Expected(length + (i - length))
      BY <1>2, <3>1
    <3> QED
      BY <1>6, <2>2, <3>1, <3>2
  <2> QED
    BY <2>1, <2>2
<1> QED
  BY <1>6, <1>7 DEF OutIs, E, length

LEMMA OutStays == ASSUME total' = total, NEW length PROVE OutIs(out', length) => OutIs(out, length)'
BY InputStays DEF OutIs, Expected, Blocks, Last, Hash!InputBlock, Hash!Place

(***************************************************************************)
(* A pass that gives n bytes of block q of the output, which ends at pos'. *)
(***************************************************************************)
LEMMA SqueezingGoesOn ==
  ASSUME Rate \in Nat \ {0}, total \in Nat, total' = total, NEW q \in Nat, NEW from \in Nat, NEW n \in Nat,
         from + n <= Rate, OutIs(out, q * Rate + from),
         past' = Blocks(Last + 1 + q), block' = Hash!Zero,
         out' = out \o Hash!Bytes(past', from, n), pos' = from + n
  PROVE  Squeezing'
<1> DEFINE base == q * Rate
           length == base + from + n
<1>1. base \in Nat /\ (q + 1) * Rate = base + Rate /\ length \in Nat /\ q + 1 \in Nat
      /\ length + Rate = (q + 1) * Rate + pos'
  <2>1. base \in Nat /\ (q + 1) * Rate = base + Rate
    BY Products
  <2> HIDE DEF base
  <2> QED
    BY <2>1
<1>2. OutIs(out', length)
  BY OutGrows
<1>3. OutIs(out, length)' /\ Len(out') = length
  <2>1. OutIs(out', length) => OutIs(out, length)'
    BY OutStays, Zenon
  <2> HIDE DEF length
  <2> QED
    BY <1>2, <2>1 DEF OutIs
<1>4. Last \in Nat /\ Last + 1 + q = Last + (q + 1) /\ Last + (q + 1) > Last
  BY LastType
<1> HIDE DEF length
<1>5. past' = Blocks(Last + (q + 1)) /\ block' = Hash!InputBlock(Last + (q + 1))
  <2>1. Hash!InputBlock(Last + (q + 1)) = Hash!Zero
    BY <1>4, NothingBehind
  <2> QED
    BY <1>4, <2>1
<1>6. (past = Blocks(Last + (q + 1)))' /\ (block = Hash!InputBlock(Last + (q + 1)))'
  BY <1>5 DEF Blocks, Hash!InputBlock, Last, Hash!Place
<1>7. OutIs(out, Len(out))'
  BY <1>3 DEF OutIs
<1> QED
  BY <1>1, <1>3, <1>6, <1>7 DEF Squeezing

LEMMA SqueezingKept ==
  ASSUME Squeezing, UNCHANGED <<total, past, block, pos, out>> PROVE Squeezing'
<1>1. PICK n \in Nat :
         /\ past = Blocks(Last + n) /\ block = Hash!InputBlock(Last + n)
         /\ Len(out) + Rate = n * Rate + pos /\ OutIs(out, Len(out)) /\ Len(out) \in Nat
  BY DEF Squeezing
<1>2. (past = Blocks(Last + n))' /\ (block = Hash!InputBlock(Last + n))'
  BY <1>1 DEF Blocks, Hash!InputBlock, Last, Hash!Place
<1>3. OutIs(out, Len(out))'
  BY <1>1 DEF OutIs, Expected, Blocks, Last, Hash!InputBlock, Hash!Place
<1> QED
  BY <1>1, <1>2, <1>3 DEF Squeezing

LEMMA AbsorbingKept ==
  ASSUME Absorbing, UNCHANGED <<total, absorbed, todo, past, block, pos, out>> PROVE Absorbing'
BY DEF Absorbing, Filled, Blocks, Hash!InputBlock, Hash!Place

LEMMA SpongeSqueezeCall == ASSUME Hash!SpongeAssumption, SpongeInv, Hash!SqueezeCall PROVE SpongeInv'
<1>1. /\ mode = "squeezing" /\ UNCHANGED <<total, absorbed, past, block, pos, mode, out>>
      /\ todo' \in 1..(MaxOutput - Len(out))
  BY DEF Hash!SqueezeCall
<1>2. Squeezing /\ SpongeTypes
  BY <1>1 DEF SpongeInv
<1>3. Len(out) \in Nat /\ MaxOutput \in Nat
  BY <1>2 DEF Squeezing, Hash!SpongeAssumption
<1>4. todo' \in Nat
  <2> DEFINE t == todo'
             room == MaxOutput - Len(out)
  <2>1. t \in 1..room /\ room \in Int
    BY <1>1, <1>3
  <2> HIDE DEF t, room
  <2>2. t \in Nat
    BY <2>1
  <2> QED
    BY <2>2 DEF t
<1>5. Squeezing'
  BY <1>1, <1>2, SqueezingKept
<1> QED
  BY <1>1, <1>2, <1>4, <1>5 DEF SpongeInv, SpongeTypes

\* Where the output stands: behind b whole blocks of it the next is due, or
\* pos bytes of it are out.
LEMMA SqueezingStands ==
  ASSUME Rate \in Nat \ {0}, SpongeTypes, Squeezing
  PROVE  \E q \in Nat :
            \/ /\ pos = Rate /\ OutIs(out, q * Rate + 0)
               /\ Append(past, block) = Blocks(Last + 1 + q)
            \/ /\ pos < Rate /\ OutIs(out, q * Rate + pos)
               /\ past = Blocks(Last + 1 + q) /\ block = Hash!Zero
<1>1. PICK b \in Nat :
         /\ past = Blocks(Last + b) /\ block = Hash!InputBlock(Last + b)
         /\ Len(out) + Rate = b * Rate + pos /\ OutIs(out, Len(out)) /\ Len(out) \in Nat
  BY DEF Squeezing
<1>2. total \in Nat /\ Last \in Nat /\ pos \in Nat /\ pos <= Rate
  BY LastType DEF SpongeTypes
<1>3. CASE pos = Rate
  <2>1. Len(out) = b * Rate + 0
    <3> DEFINE base == b * Rate
    <3>1. base \in Nat /\ Len(out) + Rate = base + pos
      BY <1>1, Products
    <3> HIDE DEF base
    <3>2. Len(out) = base + 0
      BY <1>1, <1>3, <3>1
    <3> QED
      BY <3>2 DEF base
  <2>2. Last + b \in Nat /\ (Last + b) + 1 = Last + 1 + b
    BY <1>2
  <2>3. Append(past, block) = Blocks(Last + 1 + b)
    <3> DEFINE k == Last + b
    <3>1. k \in Nat /\ k + 1 = Last + 1 + b /\ past = Blocks(k) /\ block = Hash!InputBlock(k)
      BY <1>1, <2>2
    <3> HIDE DEF k
    <3>2. Append(past, block) = Blocks(k + 1)
      BY <3>1, BlocksAppend
    <3> QED
      BY <3>1, <3>2
  <2> QED
    BY <1>1, <1>3, <2>1, <2>3
<1>4. CASE pos < Rate
  <2> DEFINE q == b - 1
  <2>1. b # 0
    <3>1. ASSUME b = 0 PROVE FALSE
      <4>1. b * Rate = 0
        BY <3>1
      <4> QED
        BY <1>1, <1>2, <1>4, <4>1
    <3> QED
      BY <3>1
  <2>2. q \in Nat /\ b = q + 1
    BY <2>1
  <2> HIDE DEF q
  <2>3. Len(out) = q * Rate + pos
    <3> DEFINE base == q * Rate
    <3>1. base \in Nat /\ Len(out) + Rate = (base + Rate) + pos
      <4>1. b * Rate = q * Rate + Rate /\ q * Rate \in Nat
        BY <2>2, Products
      <4> QED
        BY <1>1, <4>1
    <3> HIDE DEF base
    <3>2. Len(out) = base + pos
      BY <1>1, <1>2, <3>1
    <3> QED
      BY <3>2 DEF base
  <2>4. Last + b = Last + 1 + q /\ Last + b > Last /\ Last + b \in Nat
    BY <1>2, <2>2
  <2>5. block = Hash!Zero
    BY <1>1, <1>2, <2>4, NothingBehind
  <2> QED
    BY <1>1, <1>4, <2>2, <2>3, <2>4, <2>5
<1>5. pos = Rate \/ pos < Rate
  BY <1>2
<1> QED
  BY <1>3, <1>4, <1>5, Zenon

LEMMA SpongeSqueezeSome ==
  ASSUME Hash!SpongeAssumption, SpongeInv, Hash!SqueezeSome PROVE SpongeInv'
<1> DEFINE from == IF pos = Rate THEN 0 ELSE pos
           n == IF from + todo < Rate THEN todo ELSE Rate - from
<1>1. /\ mode = "squeezing" /\ todo > 0
      /\ past' = (IF pos = Rate THEN Append(past, block) ELSE past)
      /\ block' = (IF pos = Rate THEN Hash!Zero ELSE block)
      /\ out' = out \o Hash!Bytes(past', from, n)
      /\ pos' = from + n /\ todo' = todo - n
      /\ total' = total /\ absorbed' = absorbed /\ mode' = mode
  BY DEF Hash!SqueezeSome
<1>2. Squeezing /\ SpongeTypes /\ Rate \in Nat \ {0}
  BY <1>1 DEF SpongeInv, Hash!SpongeAssumption
<1>3. total \in Nat /\ todo \in Nat /\ pos \in Nat /\ pos <= Rate /\ absorbed \in Nat
  BY <1>2 DEF SpongeTypes
<1>4. from \in Nat /\ from < Rate
  BY <1>2, <1>3
<1> HIDE DEF from
<1>5. n \in Nat /\ from + n <= Rate /\ todo - n \in Nat
  BY <1>2, <1>3, <1>4
<1> HIDE DEF n
<1>6. PICK q \in Nat :
         \/ /\ pos = Rate /\ OutIs(out, q * Rate + 0)
            /\ Append(past, block) = Blocks(Last + 1 + q)
         \/ /\ pos < Rate /\ OutIs(out, q * Rate + pos)
            /\ past = Blocks(Last + 1 + q) /\ block = Hash!Zero
  BY <1>2, SqueezingStands
<1>7. /\ OutIs(out, q * Rate + from)
      /\ past' = Blocks(Last + 1 + q) /\ block' = Hash!Zero
  <2>1. CASE pos = Rate
    <3>1. from = 0 /\ ~(pos < Rate)
      BY <1>2, <2>1 DEF from
    <3> QED
      BY <1>1, <1>6, <2>1, <3>1
  <2>2. CASE pos # Rate
    BY <1>1, <1>6, <2>2 DEF from
  <2> QED
    BY <2>1, <2>2
<1>8. Squeezing'
  BY <1>1, <1>2, <1>3, <1>4, <1>5, <1>7, SqueezingGoesOn
<1>9. pos' \in Nat /\ pos' <= Rate /\ todo' \in Nat
  BY <1>1, <1>4, <1>5
<1> QED
  BY <1>1, <1>2, <1>3, <1>8, <1>9 DEF SpongeInv, SpongeTypes

LEMMA SpongeSqueezeBlock ==
  ASSUME Hash!SpongeAssumption, SpongeInv, Hash!SqueezeBlock PROVE SpongeInv'
<1>1. /\ mode = "squeezing" /\ pos = Rate
      /\ past' = Append(past, block) /\ block' = Hash!Zero
      /\ out' = out \o Hash!Bytes(past', 0, Rate)
      /\ pos' = pos /\ todo' = todo /\ total' = total /\ absorbed' = absorbed /\ mode' = mode
  BY DEF Hash!SqueezeBlock
<1>2. Squeezing /\ SpongeTypes /\ Rate \in Nat \ {0}
  BY <1>1 DEF SpongeInv, Hash!SpongeAssumption
<1>3. total \in Nat /\ todo \in Nat /\ pos \in Nat /\ absorbed \in Nat
  BY <1>2 DEF SpongeTypes
<1>4. PICK q \in Nat : OutIs(out, q * Rate + 0) /\ Append(past, block) = Blocks(Last + 1 + q)
  <2>1. ~(pos < Rate)
    BY <1>1, <1>2
  <2> QED
    BY <1>2, <2>1, SqueezingStands, Zenon
<1>5. 0 \in Nat /\ Rate \in Nat /\ 0 + Rate = Rate /\ 0 + Rate <= Rate
  BY <1>2
<1>6. Squeezing'
  BY <1>1, <1>2, <1>3, <1>4, <1>5, SqueezingGoesOn
<1> QED
  BY <1>1, <1>2, <1>3, <1>6 DEF SpongeInv, SpongeTypes

LEMMA SpongeMoves == [Next]_vars => [Hash!Next]_spongeVars
BY DEF Next, vars, CoapStep, KemStep, SpongeStep, PermutationStep, SamplingStep, spongeVars

LEMMA SpongeKeeps == SpongeInv /\ UNCHANGED spongeVars => SpongeInv'
BY SqueezingKept, AbsorbingKept DEF spongeVars, SpongeInv, SpongeTypes

LEMMA SpongeAlways == Spec => []SpongeInv
<1>1. Hash!SpongeAssumption
  BY RoutineAssumption
<1>2. Init => SpongeInv
  BY <1>1, SpongeInit DEF Init
<1>3. SpongeInv /\ [Next]_vars => SpongeInv'
  <2> SUFFICES ASSUME SpongeInv, [Hash!Next]_spongeVars PROVE SpongeInv'
    BY SpongeMoves
  <2>1. CASE UNCHANGED spongeVars
    BY <2>1, SpongeKeeps
  <2>2. CASE Hash!Next
    BY <1>1, <2>2, SpongeInitState, SpongeAbsorbCall, SpongeAbsorbBlock, SpongeAbsorbRest, SpongeFinalize,
       SpongeAbsorbOnce, SpongeSqueezeCall, SpongeSqueezeSome, SpongeSqueezeBlock DEF Hash!Next
  <2> QED
    BY <2>1, <2>2
<1> QED
  BY <1>2, <1>3, PTL DEF Spec

\* For every rate and every length: however the input is cut into calls, and
\* the output into calls and blocks, each byte of the output is the one that
\* the padded input determines.
THEOREM OutputIsDetermined == Spec => []OutputIsTheStream
<1>1. SpongeInv => OutputIsTheStream
  <2> SUFFICES ASSUME SpongeInv, NEW m \in 1..Len(out) PROVE out[m] = Expected(m)
    BY DEF OutputIsTheStream, Hash!OutputIsTheStream, Expected, Blocks, Last
  <2>1. out # <<>>
    OBVIOUS
  <2>2. Squeezing
    BY <2>1 DEF SpongeInv, SpongeTypes, Absorbing
  <2> QED
    BY <2>2 DEF Squeezing, OutIs
<1> QED
  BY <1>1, SpongeAlways, PTL

-----------------------------------------------------------------------------
(* The permutation, for every state.                                       *)

\* Where the walk of rho comes by, and when.
Places == << <<1, 0>>, <<0, 2>>, <<2, 1>>, <<1, 2>>, <<2, 3>>, <<3, 3>>, <<3, 0>>, <<0, 1>>,
             <<1, 3>>, <<3, 1>>, <<1, 4>>, <<4, 4>>, <<4, 0>>, <<0, 3>>, <<3, 4>>, <<4, 3>>,
             <<3, 2>>, <<2, 2>>, <<2, 0>>, <<0, 4>>, <<4, 2>>, <<2, 4>>, <<4, 1>>, <<1, 1>> >>
When == << 24, 7, 1, 13, 19, 0, 23, 3, 8, 10, 18, 2, 17, 4, 21, 6, 9, 16, 5, 14, 12, 22, 20, 15, 11 >>

LEMMA PlacesFollow ==
  \A t \in 1..23 : Places[t + 1] = <<Places[t][2], (2 * Places[t][1] + 3 * Places[t][2]) % 5>>
BY DEF Places

LEMMA PlacesOnce ==
  \A t \in 0..23 : When[5 * Places[t + 1][1] + Places[t + 1][2] + 1] = t
BY DEF Places, When

LEMMA WalkPlaces == \A t \in 0..23 : Permutation!Walk[t] = Places[t + 1]
<1> DEFINE Next1(f, t) == IF t = 0 THEN <<1, 0>>
                          ELSE <<f[t - 1][2], (2 * f[t - 1][1] + 3 * f[t - 1][2]) % 5>>
           w == [t \in 0..23 |-> Places[t + 1]]
<1>1. w = [t \in 0..23 |-> Next1(w, t)]
  <2>1. ASSUME NEW t \in 0..23 PROVE w[t] = Next1(w, t)
    <3>1. CASE t = 0
      BY <3>1 DEF Places
    <3>2. CASE t # 0
      <4>1. t \in 1..23 /\ t - 1 \in 0..23 /\ (t - 1) + 1 = t
        BY <3>2
      <4>2. w[t - 1] = Places[t] /\ w[t] = Places[t + 1]
        BY <4>1
      <4> HIDE DEF w
      <4> QED
        BY <3>2, <4>1, <4>2, PlacesFollow
    <3> QED
      BY <3>1, <3>2
  <2> HIDE DEF Next1
  <2> QED
    BY <2>1
<1>2. Permutation!Walk = [t \in 0..23 |-> Next1(Permutation!Walk, t)]
  <2>1. \E f : f = [t \in 0..23 |-> Next1(f, t)]
    BY <1>1
  <2> QED
    BY <2>1 DEF Permutation!Walk
<1> DEFINE walk == Permutation!Walk
           Same(t) == walk[t] = Places[t + 1]
<1>3. walk = [t \in 0..23 |-> Next1(walk, t)]
  BY <1>2
<1> HIDE DEF walk
<1>4. Same(0)
  <2>1. walk[0] = Next1(walk, 0)
    BY <1>3
  <2> QED
    BY <2>1 DEF Places
<1>5. ASSUME NEW t \in 1..23, Same(t - 1) PROVE Same(t)
  <2>1. walk[t] = Next1(walk, t) /\ t # 0 /\ (t - 1) + 1 = t
    <3>1. t \in 0..23 /\ t # 0 /\ (t - 1) + 1 = t
      OBVIOUS
    <3> HIDE DEF Next1
    <3>2. walk[t] = Next1(walk, t)
      BY <1>3, <3>1
    <3> QED
      BY <3>1, <3>2
  <2>2. walk[t - 1] = Places[t]
    BY <1>5, <2>1
  <2>3. walk[t] = <<Places[t][2], (2 * Places[t][1] + 3 * Places[t][2]) % 5>>
    BY <2>1, <2>2
  <2> QED
    BY <2>3, PlacesFollow
<1> HIDE DEF Same
<1>6. Same(1) /\ Same(2) /\ Same(3) /\ Same(4) /\ Same(5) /\ Same(6)
  BY <1>4, <1>5
<1>7. Same(7) /\ Same(8) /\ Same(9) /\ Same(10) /\ Same(11) /\ Same(12)
  BY <1>5, <1>6
<1>8. Same(13) /\ Same(14) /\ Same(15) /\ Same(16) /\ Same(17) /\ Same(18)
  BY <1>5, <1>7
<1>9. Same(19) /\ Same(20) /\ Same(21) /\ Same(22) /\ Same(23)
  BY <1>5, <1>8
<1>10. \A t \in 0..23 : Same(t)
  BY <1>4, <1>6, <1>7, <1>8, <1>9
<1> QED
  BY <1>10 DEF Same, walk

LEMMA OffsetAt ==
  ASSUME NEW t \in 0..23
  PROVE  Permutation!Offset(Places[t + 1][1], Places[t + 1][2]) = ((t + 1) * (t + 2)) \div 2
<1> DEFINE x == Places[t + 1][1]
           y == Places[t + 1][2]
           s == CHOOSE s \in 0..23 : Permutation!Walk[s] = <<x, y>>
<1>1. Places[t + 1] = <<x, y>>
  BY DEF Places
<1>2. s \in 0..23 /\ Permutation!Walk[s] = <<x, y>>
  BY <1>1, WalkPlaces
<1> HIDE DEF s
<1>3. Places[s + 1] = Places[t + 1]
  BY <1>1, <1>2, WalkPlaces
<1>4. s = t
  BY <1>2, <1>3, PlacesOnce
<1> QED
  BY <1>4 DEF Permutation!Offset, s

LEMMA PlacesAll ==
  \A x, y \in 0..4 : ~(x = 0 /\ y = 0) =>
     LET t == When[5 * x + y + 1] IN t \in 0..23 /\ Places[t + 1] = <<x, y>>
BY DEF Places, When

\* The table of the code, with rho, pi and the order of the lanes in it.
LEMMA MovesAre ==
  \A x, y \in 0..4 :
     LET z == (x + 3 * y) % 5
         t == When[5 * z + x + 1]
         move == Permutation!Moves[5 * y + x + 1]
     IN  /\ move[1] = 5 * x + z
         /\ move[2] = IF z = 0 /\ x = 0 THEN 0 ELSE (((t + 1) * (t + 2)) \div 2) % 64
BY DEF When, Permutation!Moves

(***************************************************************************)
(* Lanes as sets of bits.                                                  *)
(***************************************************************************)
LEMMA XorBits ==
  ASSUME NEW a \in SUBSET Permutation!Bit64, NEW b \in SUBSET Permutation!Bit64
  PROVE  Permutation!Xor(a, b) \in SUBSET Permutation!Bit64
BY DEF Permutation!Xor

LEMMA XorAssociates ==
  ASSUME NEW a, NEW b, NEW c
  PROVE  Permutation!Xor(Permutation!Xor(a, b), c) = Permutation!Xor(a, Permutation!Xor(b, c))
BY DEF Permutation!Xor

LEMMA RolBits ==
  ASSUME NEW a \in SUBSET Permutation!Bit64, NEW n \in Nat
  PROVE  Permutation!Rol(a, n) \in SUBSET Permutation!Bit64
<1>1. ASSUME NEW i \in Permutation!Bit64 PROVE (i + n) % 64 \in Permutation!Bit64
  <2> DEFINE j == i + n
  <2>1. j \in Int
    BY DEF Permutation!Bit64
  <2> HIDE DEF j
  <2>2. j % 64 \in 0..63
    BY <2>1
  <2> QED
    BY <2>2 DEF Permutation!Bit64, j
<1> QED
  BY <1>1 DEF Permutation!Rol

LEMMA RolNone ==
  ASSUME NEW a \in SUBSET Permutation!Bit64 PROVE Permutation!Rol(a, 0) = a
<1>1. \A i \in a : i \in Int /\ (i + 0) % 64 = i
  BY DEF Permutation!Bit64
<1> QED
  BY <1>1 DEF Permutation!Rol

LEMMA RolTurns ==
  ASSUME NEW a \in SUBSET Permutation!Bit64, NEW n \in Nat
  PROVE  Permutation!Rol(a, n) = Permutation!Rol(a, n % 64)
<1>1. \A i \in a : (i + n) % 64 = (i + (n % 64)) % 64
  <2>1. \A i \in 0..63 : (i + n) % 64 = (i + (n % 64)) % 64
    OBVIOUS
  <2> QED
    BY <2>1 DEF Permutation!Bit64
<1> QED
  BY <1>1 DEF Permutation!Rol

-----------------------------------------------------------------------------
\* The state of the definition from the lanes of the code.
Spread(a) == [x \in 0..4 |-> [y \in 0..4 |-> a[5 * y + x]]]

Lanes == [Permutation!Lane -> SUBSET Permutation!Bit64]

\* What theta adds to column x.
Added(a, x) ==
    Permutation!Xor(Permutation!Column(a, (x + 4) % 5),
                    Permutation!Rol(Permutation!Column(a, (x + 1) % 5), 1))

LEMMA LaneOf == \A x, y \in 0..4 : 5 * y + x \in Permutation!Lane
BY DEF Permutation!Lane

LEMMA Around ==
  \A x \in 0..4 : /\ (x - 1) % 5 = (x + 4) % 5 /\ (x + 4) % 5 \in 0..4 /\ (x + 1) % 5 \in 0..4
                  /\ (x + 2) % 5 \in 0..4
OBVIOUS

LEMMA Along == \A x, y \in 0..4 : (x + 3 * y) % 5 \in 0..4
OBVIOUS

LEMMA LaneFacts ==
  \A x, y \in 0..4 : /\ (5 * y + x) \div 5 = y /\ (5 * y + x) % 5 = x
                     /\ (5 * y + x + 1) % 5 = (x + 1) % 5 /\ (5 * y + x + 2) % 5 = (x + 2) % 5
OBVIOUS

LEMMA ColumnBits ==
  ASSUME NEW a \in Lanes, NEW x \in 0..4
  PROVE  Permutation!Column(a, x) \in SUBSET Permutation!Bit64
<1>1. /\ a[x] \in SUBSET Permutation!Bit64 /\ a[x + 5] \in SUBSET Permutation!Bit64
      /\ a[x + 10] \in SUBSET Permutation!Bit64 /\ a[x + 15] \in SUBSET Permutation!Bit64
      /\ a[x + 20] \in SUBSET Permutation!Bit64
  <2>1. /\ x \in Permutation!Lane /\ x + 5 \in Permutation!Lane /\ x + 10 \in Permutation!Lane
        /\ x + 15 \in Permutation!Lane /\ x + 20 \in Permutation!Lane
    BY DEF Permutation!Lane
  <2> QED
    BY <2>1 DEF Lanes
<1> QED
  BY <1>1, XorBits DEF Permutation!Column

LEMMA AddedBits ==
  ASSUME NEW a \in Lanes, NEW x \in 0..4
  PROVE  Added(a, x) \in SUBSET Permutation!Bit64
<1>1. (x + 4) % 5 \in 0..4 /\ (x + 1) % 5 \in 0..4 /\ 1 \in Nat
  BY Around
<1>2. /\ Permutation!Column(a, (x + 4) % 5) \in SUBSET Permutation!Bit64
      /\ Permutation!Column(a, (x + 1) % 5) \in SUBSET Permutation!Bit64
  BY <1>1, ColumnBits
<1>3. Permutation!Rol(Permutation!Column(a, (x + 1) % 5), 1) \in SUBSET Permutation!Bit64
  BY <1>1, <1>2, RolBits
<1> QED
  BY <1>2, <1>3, XorBits DEF Added

(***************************************************************************)
(* The steps of the definition, from the lanes.                            *)
(***************************************************************************)
LEMMA ThetaOf ==
  ASSUME NEW a, NEW x \in 0..4, NEW y \in 0..4
  PROVE  Permutation!Theta(Spread(a))[x][y] = Permutation!Xor(a[5 * y + x], Added(a, x))
<1> DEFINE s == Spread(a)
           c == [z \in 0..4 |-> Permutation!Xor(s[z][0], Permutation!Xor(s[z][1],
                                   Permutation!Xor(s[z][2], Permutation!Xor(s[z][3], s[z][4]))))]
<1>1. \A z, w \in 0..4 : s[z][w] = a[5 * w + z]
  BY DEF Spread
<1>2. Permutation!Theta(s)[x][y]
      = Permutation!Xor(s[x][y], Permutation!Xor(c[(x - 1) % 5], Permutation!Rol(c[(x + 1) % 5], 1)))
  BY DEF Permutation!Theta
<1> HIDE DEF s
<1>3. ASSUME NEW z \in 0..4 PROVE c[z] = Permutation!Column(a, z)
  <2>1. s[z][0] = a[z] /\ s[z][1] = a[z + 5] /\ s[z][2] = a[z + 10] /\ s[z][3] = a[z + 15] /\ s[z][4] = a[z + 20]
    <3>1. /\ 5 * 0 + z = z /\ 5 * 1 + z = z + 5 /\ 5 * 2 + z = z + 10 /\ 5 * 3 + z = z + 15 /\ 5 * 4 + z = z + 20
          /\ {0, 1, 2, 3, 4} \subseteq 0..4
      OBVIOUS
    <3>2. s[z][0] = a[5 * 0 + z] /\ s[z][1] = a[5 * 1 + z] /\ s[z][2] = a[5 * 2 + z]
          /\ s[z][3] = a[5 * 3 + z] /\ s[z][4] = a[5 * 4 + z]
      BY <1>1, <3>1
    <3> QED
      BY <3>1, <3>2
  <2> QED
    BY <2>1, XorAssociates DEF Permutation!Column
<1> HIDE DEF c
<1>4. c[(x - 1) % 5] = Permutation!Column(a, (x + 4) % 5) /\ c[(x + 1) % 5] = Permutation!Column(a, (x + 1) % 5)
  BY <1>3, Around
<1> QED
  BY <1>1, <1>2, <1>4 DEF Added, s

LEMMA RhoOf ==
  ASSUME NEW T, NEW x \in 0..4, NEW y \in 0..4
  PROVE  Permutation!Rho(T)[x][y] = IF x = 0 /\ y = 0 THEN T[x][y]
                                    ELSE Permutation!Rol(T[x][y], Permutation!Offset(x, y))
BY DEF Permutation!Rho

LEMMA PiOf ==
  ASSUME NEW R, NEW x \in 0..4, NEW y \in 0..4
  PROVE  Permutation!Pi(R)[x][y] = R[(x + 3 * y) % 5][x]
BY DEF Permutation!Pi

LEMMA ChiOf ==
  ASSUME NEW P, NEW x \in 0..4, NEW y \in 0..4
  PROVE  Permutation!Chi(P)[x][y] = Permutation!Xor(P[x][y], P[(x + 2) % 5][y] \ P[(x + 1) % 5][y])
BY DEF Permutation!Chi

LEMMA IotaOf ==
  ASSUME NEW C, C = [x \in 0..4 |-> [y \in 0..4 |-> C[x][y]]], NEW n, NEW x \in 0..4, NEW y \in 0..4
  PROVE  Permutation!Iota(C, n)[x][y] = IF x = 0 /\ y = 0 THEN Permutation!Xor(C[0][0], Permutation!Constant(n))
                                        ELSE C[x][y]
BY DEF Permutation!Iota

\* BCa to BCu for the new lane l, and the new lane before iota.
Moved(a, l) ==
    LET move == Permutation!Moves[l + 1]
    IN  Permutation!Rol(Permutation!Xor(a[move[1]], Added(a, move[1] % 5)), move[2])

Mixed(a, x, y) ==
    Permutation!Xor(Moved(a, 5 * y + x),
                    Moved(a, 5 * y + ((x + 2) % 5)) \ Moved(a, 5 * y + ((x + 1) % 5)))

LEMMA TriangleType == \A t \in 0..23 : ((t + 1) * (t + 2)) \div 2 \in Nat
OBVIOUS

LEMMA MovedIs ==
  ASSUME NEW a \in Lanes, NEW x \in 0..4, NEW y \in 0..4
  PROVE  /\ Permutation!Pi(Permutation!Rho(Permutation!Theta(Spread(a))))[x][y] = Moved(a, 5 * y + x)
         /\ Moved(a, 5 * y + x) \in SUBSET Permutation!Bit64
<1> DEFINE T == Permutation!Theta(Spread(a))
           z == (x + 3 * y) % 5
           t == When[5 * z + x + 1]
           move == Permutation!Moves[5 * y + x + 1]
           v == Permutation!Xor(a[5 * x + z], Added(a, z))
           turn == ((t + 1) * (t + 2)) \div 2
<1>1. z \in 0..4
  BY Along
<1>2. move[1] = 5 * x + z /\ move[2] = IF z = 0 /\ x = 0 THEN 0 ELSE turn % 64
  BY MovesAre
<1>3. ~(z = 0 /\ x = 0) => t \in 0..23 /\ Places[t + 1] = <<z, x>>
  BY <1>1, PlacesAll
<1> HIDE DEF z, t, move
<1>4. v \in SUBSET Permutation!Bit64
  <2>1. 5 * x + z \in Permutation!Lane
    BY <1>1, LaneOf
  <2>2. a[5 * x + z] \in SUBSET Permutation!Bit64
    BY <2>1 DEF Lanes
  <2> QED
    BY <1>1, <2>2, AddedBits, XorBits
<1>5. move[1] % 5 = z
  BY <1>1, <1>2, LaneFacts
<1>6. Moved(a, 5 * y + x) = Permutation!Rol(v, move[2])
  BY <1>2, <1>5 DEF Moved, move
<1>7. T[z][x] = v
  BY <1>1, ThetaOf
<1> HIDE DEF T, v
<1>8. Permutation!Pi(Permutation!Rho(T))[x][y] = Permutation!Rho(T)[z][x]
  BY PiOf DEF z
<1>9. Permutation!Rho(T)[z][x] = IF z = 0 /\ x = 0 THEN v ELSE Permutation!Rol(v, Permutation!Offset(z, x))
  BY <1>1, <1>7, RhoOf
<1>10. Permutation!Rho(T)[z][x] = Permutation!Rol(v, move[2]) /\ move[2] \in Nat
  <2>1. CASE z = 0 /\ x = 0
    BY <1>2, <1>4, <1>9, <2>1, RolNone
  <2>2. CASE ~(z = 0 /\ x = 0)
    <3>1. t \in 0..23 /\ Places[t + 1] = <<z, x>>
      BY <1>3, <2>2
    <3>2. Permutation!Offset(z, x) = turn
      <4>1. Places[t + 1][1] = z /\ Places[t + 1][2] = x
        BY <3>1
      <4> QED
        BY <3>1, <4>1, OffsetAt
    <3>3. turn \in Nat
      BY <3>1, TriangleType
    <3> HIDE DEF turn
    <3>4. Permutation!Rol(v, turn) = Permutation!Rol(v, turn % 64) /\ turn % 64 \in Nat
      BY <1>4, <3>3, RolTurns
    <3>5. move[2] = turn % 64
      BY <1>2, <2>2
    <3> QED
      BY <1>9, <2>2, <3>2, <3>4, <3>5
  <2> QED
    BY <2>1, <2>2
<1>11. Permutation!Rol(v, move[2]) \in SUBSET Permutation!Bit64
  BY <1>4, <1>10, RolBits
<1> QED
  BY <1>6, <1>8, <1>10, <1>11 DEF T

LEMMA MixedIs ==
  ASSUME NEW a \in Lanes, NEW x \in 0..4, NEW y \in 0..4
  PROVE  /\ Permutation!Chi(Permutation!Pi(Permutation!Rho(Permutation!Theta(Spread(a)))))[x][y] = Mixed(a, x, y)
         /\ Mixed(a, x, y) \in SUBSET Permutation!Bit64
<1> DEFINE P == Permutation!Pi(Permutation!Rho(Permutation!Theta(Spread(a))))
           x1 == (x + 1) % 5
           x2 == (x + 2) % 5
<1>1. x1 \in 0..4 /\ x2 \in 0..4
  BY Around
<1>2. Permutation!Chi(P)[x][y] = Permutation!Xor(P[x][y], P[x2][y] \ P[x1][y])
  BY ChiOf
<1> HIDE DEF P
<1>3. /\ P[x][y] = Moved(a, 5 * y + x) /\ Moved(a, 5 * y + x) \in SUBSET Permutation!Bit64
  BY MovedIs DEF P
<1> HIDE DEF x1, x2
<1>4. /\ P[x1][y] = Moved(a, 5 * y + x1) /\ Moved(a, 5 * y + x1) \in SUBSET Permutation!Bit64
      /\ P[x2][y] = Moved(a, 5 * y + x2) /\ Moved(a, 5 * y + x2) \in SUBSET Permutation!Bit64
  BY <1>1, MovedIs DEF P
<1>5. Mixed(a, x, y) = Permutation!Xor(P[x][y], P[x2][y] \ P[x1][y])
  BY <1>3, <1>4 DEF Mixed, x1, x2
<1>6. P[x2][y] \ P[x1][y] \in SUBSET Permutation!Bit64
  BY <1>4
<1>7. Mixed(a, x, y) \in SUBSET Permutation!Bit64
  BY <1>3, <1>5, <1>6, XorBits
<1> QED
  BY <1>2, <1>5, <1>7 DEF P

\* The bits of the n-th constant.
RoundBits(n) == Permutation!RoundConstants[n + 1]

LEMMA RoundBitsType == \A n \in 0..23 : RoundBits(n) \in SUBSET Permutation!Bit64
BY DEF RoundBits, Permutation!RoundConstants, Permutation!Bit64

LEMMA LaneIs == \A l \in Permutation!Lane : \E x, y \in 0..4 : l = 5 * y + x
<1> SUFFICES ASSUME NEW l \in 0..24 PROVE \E x, y \in 0..4 : l = 5 * y + x
  BY DEF Permutation!Lane
<1>1. l % 5 \in 0..4 /\ l \div 5 \in 0..4 /\ l = 5 * (l \div 5) + (l % 5)
  OBVIOUS
<1> QED
  BY <1>1

\* A round of the code, lane by lane.
LEMMA RoundIs ==
  ASSUME NEW a \in Lanes, NEW n \in 0..23
  PROVE  /\ \A x, y \in 0..4 : Permutation!RoundOf(a, n)[5 * y + x]
               = IF x = 0 /\ y = 0 THEN Permutation!Xor(Mixed(a, 0, 0), RoundBits(n)) ELSE Mixed(a, x, y)
         /\ Permutation!RoundOf(a, n) \in Lanes
<1> DEFINE c == [x \in 0..4 |-> Permutation!Column(a, x)]
           d == [x \in 0..4 |-> Permutation!Xor(c[(x + 4) % 5], Permutation!Rol(c[(x + 1) % 5], 1))]
           bc == [l \in Permutation!Lane |->
                    LET move == Permutation!Moves[l + 1]
                    IN  Permutation!Rol(Permutation!Xor(a[move[1]], d[move[1] % 5]), move[2])]
           after(l, k) == (5 * (l \div 5)) + ((l + k) % 5)
           e == [l \in Permutation!Lane |-> Permutation!Xor(bc[l], bc[after(l, 2)] \ bc[after(l, 1)])]
<1>1. Permutation!RoundOf(a, n) = [e EXCEPT ![0] = Permutation!Xor(e[0], RoundBits(n))]
  BY DEF Permutation!RoundOf, RoundBits
<1>2. \A x \in 0..4 : d[x] = Added(a, x)
  BY Around DEF Added
<1> HIDE DEF d, c
<1>3. ASSUME NEW x \in 0..4, NEW y \in 0..4 PROVE bc[5 * y + x] = Moved(a, 5 * y + x)
  <2>1. 5 * y + x \in Permutation!Lane /\ Permutation!Moves[5 * y + x + 1][1] % 5 \in 0..4
    <3>1. \A z \in 0..4 : (5 * x + z) % 5 = z
      OBVIOUS
    <3> QED
      BY <3>1, LaneOf, MovesAre, Along
  <2> QED
    BY <1>2, <2>1 DEF Moved
<1> HIDE DEF bc
<1>4. ASSUME NEW x \in 0..4, NEW y \in 0..4 PROVE e[5 * y + x] = Mixed(a, x, y)
  <2> DEFINE l == 5 * y + x
  <2>1. after(l, 1) = 5 * y + ((x + 1) % 5) /\ after(l, 2) = 5 * y + ((x + 2) % 5)
    BY LaneFacts
  <2>2. l \in Permutation!Lane /\ (x + 1) % 5 \in 0..4 /\ (x + 2) % 5 \in 0..4
    BY LaneOf, Around
  <2> HIDE DEF after
  <2>3. e[l] = Permutation!Xor(bc[l], bc[after(l, 2)] \ bc[after(l, 1)])
    BY <2>2
  <2> HIDE DEF e
  <2>4. bc[l] = Moved(a, 5 * y + x) /\ bc[after(l, 1)] = Moved(a, 5 * y + ((x + 1) % 5))
        /\ bc[after(l, 2)] = Moved(a, 5 * y + ((x + 2) % 5))
    BY <1>3, <2>1, <2>2
  <2> QED
    BY <2>3, <2>4 DEF Mixed
<1>5. e = [l \in Permutation!Lane |-> e[l]]
  OBVIOUS
<1> HIDE DEF e, after
<1>6. ASSUME NEW x \in 0..4, NEW y \in 0..4
      PROVE  Permutation!RoundOf(a, n)[5 * y + x]
               = IF x = 0 /\ y = 0 THEN Permutation!Xor(Mixed(a, 0, 0), RoundBits(n)) ELSE Mixed(a, x, y)
  <2>1. 5 * y + x \in Permutation!Lane /\ (5 * y + x = 0 <=> x = 0 /\ y = 0)
    BY LaneOf
  <2>2. Permutation!RoundOf(a, n)[5 * y + x]
        = IF 5 * y + x = 0 THEN Permutation!Xor(e[0], RoundBits(n)) ELSE e[5 * y + x]
    BY <1>1, <1>5, <2>1
  <2>3. e[0] = Mixed(a, 0, 0)
    <3>1. 0 \in 0..4 /\ 5 * 0 + 0 = 0
      OBVIOUS
    <3> QED
      BY <1>4, <3>1
  <2> QED
    BY <1>4, <2>1, <2>2, <2>3
<1>7. \A l \in Permutation!Lane : Permutation!RoundOf(a, n)[l] \in SUBSET Permutation!Bit64
  <2> SUFFICES ASSUME NEW l \in Permutation!Lane PROVE Permutation!RoundOf(a, n)[l] \in SUBSET Permutation!Bit64
    OBVIOUS
  <2>1. PICK x \in 0..4, y \in 0..4 : l = 5 * y + x
    BY LaneIs
  <2>2. Mixed(a, x, y) \in SUBSET Permutation!Bit64 /\ Mixed(a, 0, 0) \in SUBSET Permutation!Bit64
    <3>1. 0 \in 0..4
      OBVIOUS
    <3> QED
      BY <3>1, MixedIs
  <2>3. Permutation!Xor(Mixed(a, 0, 0), RoundBits(n)) \in SUBSET Permutation!Bit64
    BY <2>2, XorBits, RoundBitsType
  <2> QED
    BY <1>6, <2>1, <2>2, <2>3
<1>8. Permutation!RoundOf(a, n) = [l \in Permutation!Lane |-> Permutation!RoundOf(a, n)[l]]
  BY <1>1, <1>5
<1> QED
  BY <1>6, <1>7, <1>8 DEF Lanes

(***************************************************************************)
(* A round of the code is one of the definition.                           *)
(***************************************************************************)
LEMMA RoundAgrees ==
  ASSUME Permutation!KeccakAssumption, NEW a \in Lanes, NEW n \in 0..23
  PROVE  /\ Permutation!Definition(Spread(a), n) = Spread(Permutation!RoundOf(a, n))
         /\ Permutation!RoundOf(a, n) \in Lanes
<1> DEFINE C == Permutation!Chi(Permutation!Pi(Permutation!Rho(Permutation!Theta(Spread(a)))))
           D == Permutation!Iota(C, n)
           r == Permutation!RoundOf(a, n)
<1>1. Permutation!Definition(Spread(a), n) = D
  BY DEF Permutation!Definition
<1>2. C = [x \in 0..4 |-> [y \in 0..4 |-> C[x][y]]]
  BY DEF Permutation!Chi
<1>3. \A x, y \in 0..4 : C[x][y] = Mixed(a, x, y)
  BY MixedIs
<1> HIDE DEF C
<1>4. Permutation!Constant(n) = RoundBits(n)
  BY DEF Permutation!KeccakAssumption, RoundBits
<1>5. ASSUME NEW x \in 0..4, NEW y \in 0..4 PROVE D[x][y] = r[5 * y + x]
  <2>1. D[x][y] = IF x = 0 /\ y = 0 THEN Permutation!Xor(C[0][0], RoundBits(n)) ELSE C[x][y]
    BY <1>2, <1>4, IotaOf
  <2>2. C[0][0] = Mixed(a, 0, 0) /\ C[x][y] = Mixed(a, x, y)
    <3>1. 0 \in 0..4
      OBVIOUS
    <3> QED
      BY <1>3, <3>1
  <2>3. r[5 * y + x] = IF x = 0 /\ y = 0 THEN Permutation!Xor(Mixed(a, 0, 0), RoundBits(n)) ELSE Mixed(a, x, y)
    BY RoundIs
  <2> QED
    BY <2>1, <2>2, <2>3
<1>6. D = [x \in 0..4 |-> [y \in 0..4 |-> D[x][y]]]
  <2>1. D = [C EXCEPT ![0] = [C[0] EXCEPT ![0] = Permutation!Xor(C[0][0], Permutation!Constant(n))]]
    BY DEF Permutation!Iota
  <2> HIDE DEF D
  <2> QED
    BY <1>2, <2>1
<1>7. r \in Lanes
  BY RoundIs
<1> HIDE DEF D, r
<1>8. D = Spread(r)
  BY <1>5, <1>6 DEF Spread
<1> QED
  BY <1>1, <1>7, <1>8 DEF r

KeccakInv ==
    /\ \E k \in 0..12 : round = 2 * k
    /\ lanes \in Lanes
    /\ reference = Spread(lanes)

LEMMA KeccakInit == Permutation!KeccakAssumption /\ Permutation!Init => KeccakInv
<1> SUFFICES ASSUME Permutation!KeccakAssumption, Permutation!Init PROVE KeccakInv
  OBVIOUS
<1>1. round = 2 * 0 /\ 0 \in 0..12
  BY DEF Permutation!Init
<1>2. lanes \in Lanes
  BY DEF Permutation!Init, Permutation!KeccakAssumption, Lanes
<1>3. reference = Spread(lanes)
  BY DEF Permutation!Init, Spread
<1> QED
  BY <1>1, <1>2, <1>3 DEF KeccakInv

LEMMA KeccakPass ==
  ASSUME Permutation!KeccakAssumption, KeccakInv, Permutation!Next PROVE KeccakInv'
<1> DEFINE half == Permutation!RoundOf(lanes, round)
<1>1. /\ round < 24 /\ round' = round + 2
      /\ lanes' = Permutation!RoundOf(half, round + 1)
      /\ reference' = Permutation!Definition(Permutation!Definition(reference, round), round + 1)
  BY DEF Permutation!Next, Permutation!Pass
<1>2. PICK k \in 0..12 : round = 2 * k
  BY DEF KeccakInv
<1>3. round \in 0..23 /\ round + 1 \in 0..23 /\ k + 1 \in 0..12 /\ round' = 2 * (k + 1)
  BY <1>1, <1>2
<1>4. lanes \in Lanes /\ reference = Spread(lanes)
  BY DEF KeccakInv
<1>5. Permutation!Definition(reference, round) = Spread(half) /\ half \in Lanes
  BY <1>3, <1>4, RoundAgrees
<1> HIDE DEF half
<1>6. /\ Permutation!Definition(Spread(half), round + 1) = Spread(Permutation!RoundOf(half, round + 1))
      /\ Permutation!RoundOf(half, round + 1) \in Lanes
  BY <1>3, <1>5, RoundAgrees
<1>7. reference' = Spread(lanes') /\ lanes' \in Lanes
  BY <1>1, <1>5, <1>6
<1>8. (reference = Spread(lanes))' /\ (lanes \in Lanes)'
  BY <1>7 DEF Spread, Lanes, Permutation!Lane, Permutation!Bit64
<1> QED
  BY <1>3, <1>8 DEF KeccakInv

LEMMA KeccakMoves == [Next]_vars => [Permutation!Next]_permutationVars
BY DEF Next, vars, CoapStep, KemStep, SpongeStep, PermutationStep, SamplingStep, permutationVars

LEMMA KeccakKeeps == KeccakInv /\ UNCHANGED permutationVars => KeccakInv'
BY DEF permutationVars, KeccakInv, Spread, Lanes, Permutation!Lane, Permutation!Bit64

LEMMA KeccakAlways == Spec => []KeccakInv
<1>1. Permutation!KeccakAssumption
  BY RoutineAssumption
<1>2. Init => KeccakInv
  BY <1>1, KeccakInit DEF Init
<1>3. KeccakInv /\ [Next]_vars => KeccakInv'
  BY <1>1, KeccakMoves, KeccakPass, KeccakKeeps
<1> QED
  BY <1>2, <1>3, PTL DEF Spec

\* Every state is permuted as FIPS 202 says, after each pass of the loop.
THEOREM RoundsAreThoseDefined == Spec => []PermutesAsDefined
<1>1. KeccakInv => PermutesAsDefined
  BY DEF KeccakInv, PermutesAsDefined, Permutation!PermutesAsDefined, Spread
<1> QED
  BY <1>1, KeccakAlways, PTL

-----------------------------------------------------------------------------
(* Congruence modulo q.                                                    *)

\* x and y stand for the same residue.
Cong(x, y) == (x - y) % 3329 = 0

LEMMA CongIs ==
  ASSUME NEW x \in Int, NEW y \in Int, NEW k \in Int, x - y = 3329 * k PROVE Cong(x, y)
<1> DEFINE d == x - y
<1>1. d = 3329 * k
  OBVIOUS
<1> HIDE DEF d
<1>2. d % 3329 = 0
  BY <1>1
<1> QED
  BY <1>2 DEF Cong, d

LEMMA CongMeans ==
  ASSUME NEW x \in Int, NEW y \in Int, Cong(x, y) PROVE \E k \in Int : x = y + 3329 * k
<1> DEFINE d == x - y
           k == d \div 3329
<1>1. d \in Int /\ d % 3329 = 0
  BY DEF Cong
<1>2. x = y + d
  OBVIOUS
<1> HIDE DEF d
<1>3. k \in Int /\ d = 3329 * k
  BY <1>1
<1> HIDE DEF k
<1>4. x = y + 3329 * k
  BY <1>2, <1>3
<1> QED
  BY <1>3, <1>4

LEMMA CongSame == ASSUME NEW x \in Int PROVE Cong(x, x)
BY DEF Cong

LEMMA CongTurns == ASSUME NEW x \in Int, NEW y \in Int, Cong(x, y) PROVE Cong(y, x)
BY DEF Cong

LEMMA CongFollows ==
  ASSUME NEW x \in Int, NEW y \in Int, NEW z \in Int, Cong(x, y), Cong(y, z)
  PROVE  Cong(x, z)
BY DEF Cong

LEMMA CongSum ==
  ASSUME NEW a \in Int, NEW b \in Int, NEW x \in Int, NEW y \in Int, Cong(a, x), Cong(b, y)
  PROVE  Cong(a + b, x + y) /\ Cong(a - b, x - y)
BY DEF Cong

LEMMA CongTimes ==
  ASSUME NEW c \in Int, NEW a \in Int, NEW x \in Int, Cong(a, x)
  PROVE  Cong(c * a, c * x)
<1>1. PICK k \in Int : a = x + 3329 * k
  BY CongMeans
<1> DEFINE i == c * k
<1>2. i \in Int /\ c * a \in Int /\ c * x \in Int
  BY <1>1
<1>3. c * a - c * x = 3329 * i
  BY <1>1
<1> HIDE DEF i
<1> QED
  BY <1>2, <1>3, CongIs

LEMMA CongProduct ==
  ASSUME NEW a \in Int, NEW b \in Int, NEW x \in Int, NEW y \in Int, Cong(a, x), Cong(b, y)
  PROVE  Cong(a * b, x * y)
<1>1. Cong(a * b, a * y)
  BY CongTimes
<1>2. Cong(y * a, y * x)
  BY CongTimes
<1>3. a * y = y * a /\ x * y = y * x
  OBVIOUS
<1>4. Cong(a * y, x * y)
  BY <1>2, <1>3
<1>5. a * b \in Int /\ a * y \in Int /\ x * y \in Int
  OBVIOUS
<1> QED
  BY <1>1, <1>4, <1>5, CongFollows

-----------------------------------------------------------------------------
(* The reductions keep the residue, or divide it by 2^16: 169 is 2^-16.    *)

\* An int16_t loses a multiple of 2^16.
LEMMA Wrap16Is ==
  ASSUME NEW x \in Int PROVE \E k \in Int : Kem!Wrap16(x) = x - 65536 * k
<1> DEFINE y == x + 32768
           k == y \div 65536
<1>1. y \in Int /\ Kem!Wrap16(x) = (y % 65536) - 32768
  BY DEF Kem!Wrap16
<1>2. x = y - 32768
  OBVIOUS
<1> HIDE DEF y
<1>3. k \in Int /\ y % 65536 = y - 65536 * k
  BY <1>1
<1> HIDE DEF k
<1>4. Kem!Wrap16(x) = x - 65536 * k
  BY <1>1, <1>2, <1>3
<1> QED
  BY <1>3, <1>4

LEMMA MontgomeryIs ==
  ASSUME NEW c \in Nat, c <= 30000, NEW a, Between(a, 65536 * c)
  PROVE  Cong(Kem!montgomery_reduce(a), 169 * a) /\ Between(Kem!montgomery_reduce(a), c + 1665)
<1> DEFINE w == Kem!Wrap16(a)
           t == Kem!Wrap16(w * (-3327))
           n == a - t * 3329
           h == n \div 65536
<1>1. a \in Int /\ -(65536 * c) <= a /\ a <= 65536 * c
  BY DEF Between
<1>2. Kem!montgomery_reduce(a) = Kem!Wrap16(h)
  BY DEF Kem!montgomery_reduce, Kem!Q, Kem!QInv
<1>3. PICK k \in Int : w = a - 65536 * k
  BY <1>1, Wrap16Is
<1> HIDE DEF w
<1>4. PICK l \in Int : t = w * (-3327) - 65536 * l
  <2> DEFINE x == w * (-3327)
  <2>1. x \in Int
    BY <1>1, <1>3
  <2> HIDE DEF x
  <2>2. \E l \in Int : Kem!Wrap16(x) = x - 65536 * l
    BY <2>1, Wrap16Is
  <2> QED
    BY <2>2 DEF x
<1> DEFINE m == l - 3327 * k
<1>5. n = 65536 * (169 * a + 3329 * m)
  <2> HIDE DEF t
  <2>1. t = -(3327 * a) + 218038272 * k - 65536 * l
    BY <1>1, <1>3, <1>4
  <2>2. n = a - 3329 * (-(3327 * a) + 218038272 * k - 65536 * l)
    BY <1>1, <2>1
  <2> QED
    BY <1>1, <2>2
<1>6. m \in Int
  OBVIOUS
<1> HIDE DEF m, n
<1>7. h = 169 * a + 3329 * m /\ h \in Int
  BY <1>1, <1>5, <1>6
<1>8. Between(Kem!montgomery_reduce(a), c + 1665) /\ Between(h, c + 1665)
  <2>1. Between(Kem!montgomery_reduce(a), c + 1665)
    BY MontgomeryRange
  <2>2. Short(t)
    <3>1. w * (-3327) \in Int
      BY <1>1, <1>3
    <3> QED
      BY <3>1, Wrap16Range
  <2> HIDE DEF t
  <2>3. n = a - t * 3329 /\ t \in Int /\ -32768 <= t /\ t <= 32767
    BY <2>2 DEF Short, n
  <2>4. n \in Int /\ n <= 65536 * c + 109084672 /\ n >= -(65536 * c) - 109084672
    BY <1>1, <2>3
  <2>5. 65536 * h <= n /\ n < 65536 * h + 65536
    BY <1>7, <2>4
  <2> QED
    BY <1>7, <2>1, <2>4, <2>5 DEF Between
<1> HIDE DEF h
<1>9. Short(h)
  BY <1>8 DEF Between, Short
<1>10. Kem!montgomery_reduce(a) = h
  BY <1>2, <1>9, Wrap16Fits
<1>11. Cong(h, 169 * a)
  <2> DEFINE x == 169 * a
  <2>1. x \in Int /\ h = x + 3329 * m
    BY <1>1, <1>7
  <2> HIDE DEF x
  <2>2. Cong(h, x)
    BY <1>6, <1>7, <2>1 DEF Cong
  <2> QED
    BY <2>2 DEF x
<1> QED
  BY <1>8, <1>10, <1>11

LEMMA BarrettIs ==
  ASSUME NEW a, Short(a) PROVE Cong(Kem!barrett_reduce(a), a) /\ Kem!barrett_reduce(a) \in Int
<1>1. PICK t \in Int : Kem!barrett_reduce(a) = a - t * 3329 /\ Between(a - t * 3329, 1664)
  BY BarrettTakes
<1> DEFINE d == a - t * 3329
<1>2. a \in Int /\ d \in Int /\ d = a - 3329 * t
  BY DEF Short
<1>3. Kem!barrett_reduce(a) = d
  BY <1>1
<1> HIDE DEF d
<1>4. Cong(d, a)
  BY <1>2 DEF Cong
<1> QED
  BY <1>2, <1>3, <1>4

\* A product that is small enough to be reduced.
LEMMA SmallProduct ==
  ASSUME NEW a, Between(a, 4096), NEW b, Short(b)
  PROVE  Between(a * b, 65536 * 2048)
<1> DEFINE p == a * b
<1>1. a \in Int /\ -4096 <= a /\ a <= 4096 /\ b \in Int /\ -32768 <= b /\ b <= 32767
  BY DEF Between, Short
<1>2. p \in Int /\ -134217728 <= p /\ p <= 134217728
  <2>1. CASE b >= 0
    <3>1. -4096 * b <= a * b /\ a * b <= 4096 * b
      BY <1>1, <2>1
    <3> QED
      BY <1>1, <3>1
  <2>2. CASE b < 0
    <3>1. 4096 * b <= a * b /\ a * b <= -4096 * b
      BY <1>1, <2>2
    <3> QED
      BY <1>1, <3>1
  <2> QED
    BY <1>1, <2>1, <2>2
<1> HIDE DEF p
<1>3. Between(p, 65536 * 2048)
  BY <1>2 DEF Between
<1> QED
  BY <1>3 DEF p

\* fqmul of a small factor and of any.
LEMMA FqmulIs ==
  ASSUME NEW a, NEW b,
         \/ Between(a, 4096) /\ Short(b)
         \/ Short(a) /\ Between(b, 4096)
  PROVE  Cong(Kem!fqmul(a, b), 169 * (a * b)) /\ Between(Kem!fqmul(a, b), 3713)
<1> DEFINE p == a * b
<1>1. Between(p, 65536 * 2048)
  <2>1. CASE Between(a, 4096) /\ Short(b)
    BY <2>1, SmallProduct
  <2>2. CASE Short(a) /\ Between(b, 4096)
    <3>1. Between(b * a, 65536 * 2048)
      BY <2>2, SmallProduct
    <3>2. b * a = a * b
      BY <2>2 DEF Short, Between
    <3> QED
      BY <3>1, <3>2
  <2> QED
    BY <2>1, <2>2
<1>2. Kem!fqmul(a, b) = Kem!montgomery_reduce(p)
  BY DEF Kem!fqmul
<1> HIDE DEF p
<1>3. Cong(Kem!montgomery_reduce(p), 169 * p) /\ Between(Kem!montgomery_reduce(p), 2048 + 1665)
  BY <1>1, MontgomeryIs
<1>4. Cong(Kem!fqmul(a, b), 169 * p) /\ Between(Kem!fqmul(a, b), 3713)
  BY <1>2, <1>3 DEF Between
<1> QED
  BY <1>4 DEF p

-----------------------------------------------------------------------------
(* The zetas of a layer and of the one that undoes it.                     *)

\* The product of two factors, in the domain of Montgomery, is -1.
Opposite(p, q) == Cong(28561 * (p * q), -1)

Undone(k, l) == Opposite(Kem!Zeta(k), Kem!Zeta(l))

LEMMA ZetasUndo ==
  /\ \A d \in 0..63 : Undone(64 + d, 127 - d)
  /\ \A d \in 0..31 : Undone(32 + d, 63 - d)
  /\ \A d \in 0..15 : Undone(16 + d, 31 - d)
  /\ \A d \in 0..7 : Undone(8 + d, 15 - d)
  /\ \A d \in 0..3 : Undone(4 + d, 7 - d)
  /\ \A d \in 0..1 : Undone(2 + d, 3 - d)
  /\ Undone(1, 1)
BY DEF Undone, Opposite, Cong, Kem!Zeta, Kem!zetas

\* The zeta of a coefficient in a layer of ntt, and in one of invntt.
ZetaUp(j, len) == Kem!Zeta(128 \div len + Kem!Block(j, len))
ZetaDown(j, len) == Kem!Zeta(256 \div len - 1 - Kem!Block(j, len))

\* Both coefficients of a pair are in the same block, and its zetas undo each
\* other.
LEMMA LayerPair ==
  ASSUME NEW len \in Lengths, NEW j \in Kem!Index
  PROVE  /\ Kem!Upper(j, len) =>
               ~Kem!Upper(j - len, len) /\ Kem!Block(j - len, len) = Kem!Block(j, len)
         /\ ~Kem!Upper(j, len) =>
               Kem!Upper(j + len, len) /\ Kem!Block(j + len, len) = Kem!Block(j, len)
         /\ Opposite(ZetaUp(j, len), ZetaDown(j, len))
<1>1. j \in Int /\ 0 <= j /\ j <= 255
  BY IndexMeans
<1>2. CASE len = 2
  <2> DEFINE d == j \div 4
  <2>1. d \in Int /\ 0 <= d /\ d <= 63 /\ Kem!Block(j, len) = d
    BY <1>1, <1>2 DEF Kem!Block
  <2>2. /\ Kem!Upper(j, len) =>
              ~Kem!Upper(j - len, len) /\ Kem!Block(j - len, len) = Kem!Block(j, len)
        /\ ~Kem!Upper(j, len) =>
              Kem!Upper(j + len, len) /\ Kem!Block(j + len, len) = Kem!Block(j, len)
    BY <1>1, <1>2 DEF Kem!Upper, Kem!Block
  <2> HIDE DEF d
  <2>3. Undone(64 + d, 127 - d)
    <3>1. d \in 0..63
      BY <2>1
    <3> QED
      BY <3>1, ZetasUndo
  <2>4. ZetaUp(j, len) = Kem!Zeta(64 + d) /\ ZetaDown(j, len) = Kem!Zeta(127 - d)
    BY <1>2, <2>1 DEF ZetaUp, ZetaDown
  <2> QED
    BY <2>2, <2>3, <2>4 DEF Undone
<1>3. CASE len = 4
  <2> DEFINE d == j \div 8
  <2>1. d \in Int /\ 0 <= d /\ d <= 31 /\ Kem!Block(j, len) = d
    BY <1>1, <1>3 DEF Kem!Block
  <2>2. /\ Kem!Upper(j, len) =>
              ~Kem!Upper(j - len, len) /\ Kem!Block(j - len, len) = Kem!Block(j, len)
        /\ ~Kem!Upper(j, len) =>
              Kem!Upper(j + len, len) /\ Kem!Block(j + len, len) = Kem!Block(j, len)
    BY <1>1, <1>3 DEF Kem!Upper, Kem!Block
  <2> HIDE DEF d
  <2>3. Undone(32 + d, 63 - d)
    <3>1. d \in 0..31
      BY <2>1
    <3> QED
      BY <3>1, ZetasUndo
  <2>4. ZetaUp(j, len) = Kem!Zeta(32 + d) /\ ZetaDown(j, len) = Kem!Zeta(63 - d)
    BY <1>3, <2>1 DEF ZetaUp, ZetaDown
  <2> QED
    BY <2>2, <2>3, <2>4 DEF Undone
<1>4. CASE len = 8
  <2> DEFINE d == j \div 16
  <2>1. d \in Int /\ 0 <= d /\ d <= 15 /\ Kem!Block(j, len) = d
    BY <1>1, <1>4 DEF Kem!Block
  <2>2. /\ Kem!Upper(j, len) =>
              ~Kem!Upper(j - len, len) /\ Kem!Block(j - len, len) = Kem!Block(j, len)
        /\ ~Kem!Upper(j, len) =>
              Kem!Upper(j + len, len) /\ Kem!Block(j + len, len) = Kem!Block(j, len)
    BY <1>1, <1>4 DEF Kem!Upper, Kem!Block
  <2> HIDE DEF d
  <2>3. Undone(16 + d, 31 - d)
    <3>1. d \in 0..15
      BY <2>1
    <3> QED
      BY <3>1, ZetasUndo
  <2>4. ZetaUp(j, len) = Kem!Zeta(16 + d) /\ ZetaDown(j, len) = Kem!Zeta(31 - d)
    BY <1>4, <2>1 DEF ZetaUp, ZetaDown
  <2> QED
    BY <2>2, <2>3, <2>4 DEF Undone
<1>5. CASE len = 16
  <2> DEFINE d == j \div 32
  <2>1. d \in Int /\ 0 <= d /\ d <= 7 /\ Kem!Block(j, len) = d
    BY <1>1, <1>5 DEF Kem!Block
  <2>2. /\ Kem!Upper(j, len) =>
              ~Kem!Upper(j - len, len) /\ Kem!Block(j - len, len) = Kem!Block(j, len)
        /\ ~Kem!Upper(j, len) =>
              Kem!Upper(j + len, len) /\ Kem!Block(j + len, len) = Kem!Block(j, len)
    BY <1>1, <1>5 DEF Kem!Upper, Kem!Block
  <2> HIDE DEF d
  <2>3. Undone(8 + d, 15 - d)
    <3>1. d \in 0..7
      BY <2>1
    <3> QED
      BY <3>1, ZetasUndo
  <2>4. ZetaUp(j, len) = Kem!Zeta(8 + d) /\ ZetaDown(j, len) = Kem!Zeta(15 - d)
    BY <1>5, <2>1 DEF ZetaUp, ZetaDown
  <2> QED
    BY <2>2, <2>3, <2>4 DEF Undone
<1>6. CASE len = 32
  <2> DEFINE d == j \div 64
  <2>1. d \in Int /\ 0 <= d /\ d <= 3 /\ Kem!Block(j, len) = d
    BY <1>1, <1>6 DEF Kem!Block
  <2>2. /\ Kem!Upper(j, len) =>
              ~Kem!Upper(j - len, len) /\ Kem!Block(j - len, len) = Kem!Block(j, len)
        /\ ~Kem!Upper(j, len) =>
              Kem!Upper(j + len, len) /\ Kem!Block(j + len, len) = Kem!Block(j, len)
    BY <1>1, <1>6 DEF Kem!Upper, Kem!Block
  <2> HIDE DEF d
  <2>3. Undone(4 + d, 7 - d)
    <3>1. d \in 0..3
      BY <2>1
    <3> QED
      BY <3>1, ZetasUndo
  <2>4. ZetaUp(j, len) = Kem!Zeta(4 + d) /\ ZetaDown(j, len) = Kem!Zeta(7 - d)
    BY <1>6, <2>1 DEF ZetaUp, ZetaDown
  <2> QED
    BY <2>2, <2>3, <2>4 DEF Undone
<1>7. CASE len = 64
  <2> DEFINE d == j \div 128
  <2>1. d \in Int /\ 0 <= d /\ d <= 1 /\ Kem!Block(j, len) = d
    BY <1>1, <1>7 DEF Kem!Block
  <2>2. /\ Kem!Upper(j, len) =>
              ~Kem!Upper(j - len, len) /\ Kem!Block(j - len, len) = Kem!Block(j, len)
        /\ ~Kem!Upper(j, len) =>
              Kem!Upper(j + len, len) /\ Kem!Block(j + len, len) = Kem!Block(j, len)
    BY <1>1, <1>7 DEF Kem!Upper, Kem!Block
  <2> HIDE DEF d
  <2>3. Undone(2 + d, 3 - d)
    <3>1. d \in 0..1
      BY <2>1
    <3> QED
      BY <3>1, ZetasUndo
  <2>4. ZetaUp(j, len) = Kem!Zeta(2 + d) /\ ZetaDown(j, len) = Kem!Zeta(3 - d)
    BY <1>7, <2>1 DEF ZetaUp, ZetaDown
  <2> QED
    BY <2>2, <2>3, <2>4 DEF Undone
<1>8. CASE len = 128
  <2> DEFINE d == j \div 256
  <2>1. d \in Int /\ 0 <= d /\ d <= 0 /\ Kem!Block(j, len) = d
    BY <1>1, <1>8 DEF Kem!Block
  <2>2. /\ Kem!Upper(j, len) =>
              ~Kem!Upper(j - len, len) /\ Kem!Block(j - len, len) = Kem!Block(j, len)
        /\ ~Kem!Upper(j, len) =>
              Kem!Upper(j + len, len) /\ Kem!Block(j + len, len) = Kem!Block(j, len)
    BY <1>1, <1>8 DEF Kem!Upper, Kem!Block
  <2> HIDE DEF d
  <2>3. Undone(1 + d, 1 - d)
    <3>1. d = 0
      BY <2>1
    <3>2. 1 + 0 = 1 /\ 1 - 0 = 1
      OBVIOUS
    <3> QED
      BY <3>1, <3>2, ZetasUndo
  <2>4. ZetaUp(j, len) = Kem!Zeta(1 + d) /\ ZetaDown(j, len) = Kem!Zeta(1 - d)
    BY <1>8, <2>1 DEF ZetaUp, ZetaDown
  <2> QED
    BY <2>2, <2>3, <2>4 DEF Undone
<1> QED
  BY <1>2, <1>3, <1>4, <1>5, <1>6, <1>7, <1>8 DEF Lengths

-----------------------------------------------------------------------------
(* A layer of ntt undoes the layer of invntt of the same length.           *)

\* The two results of a pair of coefficients, and the turned difference.
Up(x, p, y) == x + 169 * (p * y)
Down(x, p, y) == x - 169 * (p * y)
Turned(q, d) == 169 * (q * d)
Times(c, x) == c * x
Difference(x, y) == x - y

LEMMA TimesInt == ASSUME NEW c \in Int, NEW x \in Int PROVE Times(c, x) \in Int
BY DEF Times

LEMMA TimesCong ==
  ASSUME NEW c \in Int, NEW a \in Int, NEW x \in Int, Cong(a, x)
  PROVE  Cong(Times(c, a), Times(c, x))
BY CongTimes DEF Times

LEMMA ButterflyUndoes ==
  ASSUME NEW u \in Int, NEW w \in Int, NEW c \in Int, NEW p \in Int, NEW q \in Int,
         NEW x \in Int, NEW y \in Int, NEW sum \in Int, NEW difference \in Int,
         sum = w + u, difference = u - w, Opposite(p, q),
         Cong(x, Times(c, sum)), Cong(y, Times(c, Turned(q, difference)))
  PROVE  Cong(Down(x, p, y), Times(2 * c, u)) /\ Cong(Up(x, p, y), Times(2 * c, w))
<1> DEFINE d == c * difference
           e == c * sum
           g == 28561 * (p * q)
           h == c * (169 * (q * difference))
           k == 169 * p
           f == 169 * (p * y)
<1>1. /\ d \in Int /\ e \in Int /\ g \in Int /\ h \in Int /\ k \in Int
      /\ Cong(g, -1) /\ Cong(x, e) /\ Cong(y, h)
  BY DEF Opposite, Times, Turned
<1>2. k * y = f
  OBVIOUS
<1>3. k * h = g * d
  <2>1. (169 * p) * (c * (169 * (q * difference))) = (28561 * (p * q)) * (c * difference)
    OBVIOUS
  <2> QED
    BY <2>1
<1>4. e + d = (2 * c) * u /\ e - d = (2 * c) * w
  OBVIOUS
<1> HIDE DEF d, e, f, g, h, k
<1>5. Cong(x - f, e + d) /\ Cong(x + f, e - d)
  <2>1. PICK m \in Int : g = -1 + 3329 * m
    BY <1>1, CongMeans
  <2>2. PICK n \in Int : y = h + 3329 * n
    BY <1>1, CongMeans
  <2> DEFINE i == m * d
             j == k * n
  <2>3. i \in Int /\ j \in Int /\ f \in Int
    BY <1>1, <1>2
  <2>4. f = k * h + 3329 * j
    BY <1>1, <1>2, <2>2
  <2>5. g * d = -d + 3329 * i
    BY <1>1, <2>1
  <2> HIDE DEF i, j
  <2>6. f = -d + 3329 * i + 3329 * j
    BY <1>3, <2>4, <2>5
  <2> QED
    BY <1>1, <2>3, <2>6 DEF Cong
<1>6. Cong(x - f, (2 * c) * u) /\ Cong(x + f, (2 * c) * w)
  BY <1>4, <1>5
<1> QED
  BY <1>6 DEF f, Up, Down, Times

\* What a layer of ntt comes to, as long as nothing is lost in 16 bits.
LEMMA NttLayerIs ==
  ASSUME NEW r, NEW len \in Lengths, NEW b \in Nat, b <= 29000, Kem!Within(r, b),
         NEW j \in Kem!Index
  PROVE  /\ Kem!Upper(j, len) =>
               Cong(Kem!NttLayer(r, len)[j], Down(r[j - len], ZetaUp(j, len), r[j]))
         /\ ~Kem!Upper(j, len) =>
               Cong(Kem!NttLayer(r, len)[j], Up(r[j], ZetaUp(j, len), r[j + len]))
         /\ Between(Kem!NttLayer(r, len)[j], b + 3713)
<1> DEFINE zeta == Kem!Zeta(128 \div len + Kem!Block(j, len))
<1>1. Kem!NttLayer(r, len)[j] =
        IF Kem!Upper(j, len) THEN Kem!Wrap16(r[j - len] - Kem!fqmul(zeta, r[j]))
        ELSE Kem!Wrap16(r[j] + Kem!fqmul(zeta, r[j + len]))
  BY DEF Kem!NttLayer
<1>2. Between(zeta, 1659) /\ zeta = ZetaUp(j, len)
  BY LayerIndex DEF ZetaUp
<1> HIDE DEF zeta
<1>3. Between(zeta, 4096) /\ zeta \in Int
  BY <1>2 DEF Between
<1>4. \A i \in Kem!Index : Between(r[i], b) /\ Short(r[i])
  <2>1. \A i \in Kem!Index : Between(r[i], b)
    BY WithinMeans
  <2> QED
    BY <2>1 DEF Between, Short
<1>5. ASSUME NEW x, NEW y, Between(x, b), Between(y, b), Short(y)
      PROVE  /\ Cong(Kem!Wrap16(x - Kem!fqmul(zeta, y)), Down(x, zeta, y))
             /\ Between(Kem!Wrap16(x - Kem!fqmul(zeta, y)), b + 3713)
             /\ Cong(Kem!Wrap16(x + Kem!fqmul(zeta, y)), Up(x, zeta, y))
             /\ Between(Kem!Wrap16(x + Kem!fqmul(zeta, y)), b + 3713)
  <2> DEFINE f == Kem!fqmul(zeta, y)
             p == zeta * y
             up == x + f
             down == x - f
  <2>1. Cong(f, 169 * p) /\ Between(f, 3713)
    BY <1>3, <1>5, FqmulIs
  <2>2. p \in Int /\ x \in Int /\ -b <= x /\ x <= b
    BY <1>3, <1>5 DEF Between
  <2> HIDE DEF f, p
  <2>3. f \in Int /\ -3713 <= f /\ f <= 3713
    BY <2>1 DEF Between
  <2>4. /\ Cong(down, x - 169 * p) /\ Between(down, b + 3713) /\ Short(down)
        /\ Cong(up, x + 169 * p) /\ Between(up, b + 3713) /\ Short(up)
    BY <2>1, <2>2, <2>3 DEF Cong, Between, Short
  <2> HIDE DEF up, down
  <2>5. Kem!Wrap16(down) = down /\ Kem!Wrap16(up) = up
    BY <2>4, Wrap16Fits
  <2>6. /\ Cong(Kem!Wrap16(down), x - 169 * p) /\ Between(Kem!Wrap16(down), b + 3713)
        /\ Cong(Kem!Wrap16(up), x + 169 * p) /\ Between(Kem!Wrap16(up), b + 3713)
    BY <2>4, <2>5
  <2> QED
    BY <2>6 DEF up, down, p, f, Up, Down
<1>6. CASE Kem!Upper(j, len)
  <2>1. j - len \in Kem!Index
    BY <1>6, LayerIndex
  <2>2. Between(r[j - len], b) /\ Between(r[j], b) /\ Short(r[j])
    BY <1>4, <2>1
  <2> QED
    BY <1>1, <1>2, <1>5, <1>6, <2>2
<1>7. CASE ~Kem!Upper(j, len)
  <2>1. j + len \in Kem!Index
    BY <1>7, LayerIndex
  <2>2. Between(r[j], b) /\ Between(r[j + len], b) /\ Short(r[j + len])
    BY <1>4, <2>1
  <2> QED
    BY <1>1, <1>2, <1>5, <1>7, <2>2
<1> QED
  BY <1>6, <1>7

LEMMA NttLayerGrows ==
  ASSUME NEW r, NEW len \in Lengths, NEW b \in Nat, b <= 29000, Kem!Within(r, b)
  PROVE  Kem!Within(Kem!NttLayer(r, len), b + 3713)
<1>1. \A j \in Kem!Index : Between(Kem!NttLayer(r, len)[j], b + 3713)
  BY NttLayerIs
<1>2. b + 3713 \in Nat
  OBVIOUS
<1> QED
  BY <1>1, <1>2, WithinMeans

\* And a layer of invntt.
LEMMA InvNttLayerIs ==
  ASSUME NEW r, NEW len \in Lengths, Kem!Within(r, 16000), NEW j \in Kem!Index
  PROVE  /\ Kem!Upper(j, len) =>
               Cong(Kem!InvNttLayer(r, len)[j], Turned(ZetaDown(j, len), Difference(r[j], r[j - len])))
         /\ ~Kem!Upper(j, len) =>
               Cong(Kem!InvNttLayer(r, len)[j], r[j] + r[j + len])
<1> DEFINE zeta == Kem!Zeta(256 \div len - 1 - Kem!Block(j, len))
<1>1. Kem!InvNttLayer(r, len)[j] =
        IF Kem!Upper(j, len) THEN Kem!fqmul(zeta, Kem!Wrap16(r[j] - r[j - len]))
        ELSE Kem!barrett_reduce(Kem!Wrap16(r[j] + r[j + len]))
  BY DEF Kem!InvNttLayer
<1>2. Between(zeta, 1659) /\ zeta = ZetaDown(j, len)
  BY LayerIndex DEF ZetaDown
<1> HIDE DEF zeta
<1>3. Between(zeta, 4096)
  BY <1>2 DEF Between
<1>4. \A i \in Kem!Index : Between(r[i], 16000)
  BY WithinMeans
<1>5. CASE Kem!Upper(j, len)
  <2> DEFINE d == r[j] - r[j - len]
  <2>1. j - len \in Kem!Index
    BY <1>5, LayerIndex
  <2>2. Between(r[j - len], 16000) /\ Between(r[j], 16000)
    BY <1>4, <2>1
  <2>3. Short(d)
    BY <2>2 DEF Between, Short
  <2> HIDE DEF d
  <2>4. Kem!Wrap16(d) = d
    BY <2>3, Wrap16Fits
  <2>5. Cong(Kem!fqmul(zeta, d), Turned(zeta, d))
    BY <1>3, <2>3, FqmulIs DEF Turned
  <2>6. Kem!InvNttLayer(r, len)[j] = Kem!fqmul(zeta, d)
    BY <1>1, <1>5, <2>4 DEF d
  <2>7. Difference(r[j], r[j - len]) = d
    BY DEF d, Difference
  <2> QED
    BY <1>2, <1>5, <2>5, <2>6, <2>7
<1>6. CASE ~Kem!Upper(j, len)
  <2> DEFINE d == r[j] + r[j + len]
  <2>1. j + len \in Kem!Index
    BY <1>6, LayerIndex
  <2>2. Between(r[j + len], 16000) /\ Between(r[j], 16000)
    BY <1>4, <2>1
  <2>3. Short(d)
    BY <2>2 DEF Between, Short
  <2> HIDE DEF d
  <2>4. Kem!Wrap16(d) = d
    BY <2>3, Wrap16Fits
  <2>5. Cong(Kem!barrett_reduce(d), d)
    BY <2>3, BarrettIs
  <2>6. Kem!InvNttLayer(r, len)[j] = Kem!barrett_reduce(d)
    BY <1>1, <1>6, <2>4 DEF d
  <2> QED
    BY <1>6, <2>5, <2>6 DEF d
<1> QED
  BY <1>5, <1>6

\* Polynomials that a layer of ntt, or one of invntt, cannot take out of 16 bits.
Wide(r) == Kem!Within(r, 29000)
Narrow(r) == Kem!Within(r, 16000)

LEMMA WideLayer ==
  ASSUME NEW r, NEW len \in Lengths, Wide(r), NEW j \in Kem!Index
  PROVE  /\ Kem!Upper(j, len) =>
               Cong(Kem!NttLayer(r, len)[j], Down(r[j - len], ZetaUp(j, len), r[j]))
         /\ ~Kem!Upper(j, len) =>
               Cong(Kem!NttLayer(r, len)[j], Up(r[j], ZetaUp(j, len), r[j + len]))
         /\ Kem!NttLayer(r, len)[j] \in Int /\ r[j] \in Int
<1> DEFINE b == 29000
<1>1. b \in Nat /\ b <= 29000 /\ Kem!Within(r, b)
  BY DEF Wide
<1> HIDE DEF b
<1>2. Between(r[j], b)
  BY <1>1, WithinMeans
<1> QED
  BY <1>1, <1>2, NttLayerIs DEF Between

LEMMA NarrowLayer ==
  ASSUME NEW r, NEW len \in Lengths, Narrow(r), NEW j \in Kem!Index
  PROVE  /\ Kem!Upper(j, len) =>
               Cong(Kem!InvNttLayer(r, len)[j],
                    Turned(ZetaDown(j, len), Difference(r[j], r[j - len])))
         /\ ~Kem!Upper(j, len) =>
               Cong(Kem!InvNttLayer(r, len)[j], r[j] + r[j + len])
         /\ Kem!InvNttLayer(r, len)[j] \in Int /\ r[j] \in Int
<1>1. IntPoly(r) /\ IntPoly(Kem!InvNttLayer(r, len))
  BY InvNttLayerWithin, WithinIsInt DEF Narrow
<1> QED
  BY <1>1, InvNttLayerIs DEF Narrow, IntPoly

LEMMA NarrowAgain ==
  ASSUME NEW r, NEW len \in Lengths, Narrow(r) PROVE Narrow(Kem!InvNttLayer(r, len))
<1>1. IntPoly(r)
  BY WithinIsInt DEF Narrow
<1>2. Kem!Within(Kem!InvNttLayer(r, len), 2495)
  BY <1>1, InvNttLayerWithin
<1>3. \A j \in Kem!Index : Between(Kem!InvNttLayer(r, len)[j], 2495)
  BY <1>2, WithinMeans
<1>4. \A j \in Kem!Index : Between(Kem!InvNttLayer(r, len)[j], 16000)
  BY <1>3 DEF Between
<1> QED
  BY <1>4, WithinMeans DEF Narrow

LEMMA NttLayerUndoes ==
  ASSUME NEW r, NEW x, NEW c \in Int, NEW len \in Lengths,
         Wide(r), Narrow(x),
         \A j \in Kem!Index : Cong(r[j], Times(c, Kem!InvNttLayer(x, len)[j]))
  PROVE  \A j \in Kem!Index : Cong(Kem!NttLayer(r, len)[j], Times(2 * c, x[j]))
<1> SUFFICES ASSUME NEW j \in Kem!Index
             PROVE  Cong(Kem!NttLayer(r, len)[j], Times(2 * c, x[j]))
  OBVIOUS
<1> DEFINE s == Kem!InvNttLayer(x, len)
           n == Kem!NttLayer(r, len)
<1>1. \A i \in Kem!Index : r[i] \in Int /\ x[i] \in Int /\ s[i] \in Int
  BY WideLayer, NarrowLayer
<1>2. n[j] \in Int
  BY WideLayer
<1>3. \A i \in Kem!Index : ZetaUp(i, len) \in Int /\ ZetaDown(i, len) \in Int
  BY LayerIndex DEF ZetaUp, ZetaDown, Between
\* The pair of coefficients that j is in.
<1>4. ASSUME NEW lo \in Kem!Index, NEW hi \in Kem!Index, lo = hi - len, hi = lo + len,
             Kem!Upper(hi, len), ~Kem!Upper(lo, len)
      PROVE  /\ Cong(Down(r[lo], ZetaUp(hi, len), r[hi]), Times(2 * c, x[hi]))
             /\ Cong(Up(r[lo], ZetaUp(hi, len), r[hi]), Times(2 * c, x[lo]))
  <2> DEFINE q == ZetaDown(hi, len)
             sum == x[lo] + x[hi]
             difference == x[hi] - x[lo]
  <2>1. /\ ZetaUp(hi, len) \in Int /\ q \in Int /\ sum \in Int /\ difference \in Int
        /\ x[lo] \in Int /\ x[hi] \in Int /\ r[lo] \in Int /\ r[hi] \in Int
        /\ s[lo] \in Int /\ s[hi] \in Int
    BY <1>1, <1>3
  <2>2. Opposite(ZetaUp(hi, len), q)
    BY LayerPair
  <2>3. Cong(s[lo], sum)
    BY <1>4, NarrowLayer
  <2>4. Cong(s[hi], Turned(q, difference))
    <3>1. Cong(s[hi], Turned(q, Difference(x[hi], x[hi - len])))
      BY <1>4, NarrowLayer
    <3>2. Difference(x[hi], x[hi - len]) = difference
      BY <1>4 DEF Difference
    <3> HIDE DEF s, q, difference
    <3> QED
      BY <3>1, <3>2
  <2>5. Cong(r[lo], Times(c, s[lo])) /\ Cong(r[hi], Times(c, s[hi]))
    OBVIOUS
  <2> HIDE DEF q, s
  <2>6. sum = x[lo] + x[hi] /\ difference = x[hi] - x[lo]
    OBVIOUS
  <2> HIDE DEF sum, difference
  <2>7. /\ Times(c, s[lo]) \in Int /\ Times(c, s[hi]) \in Int /\ Times(c, sum) \in Int
        /\ Turned(q, difference) \in Int /\ Times(c, Turned(q, difference)) \in Int
    BY <2>1 DEF Times, Turned
  <2>8. /\ Cong(Times(c, s[lo]), Times(c, sum))
        /\ Cong(Times(c, s[hi]), Times(c, Turned(q, difference)))
    BY <2>1, <2>3, <2>4, <2>7, TimesCong
  <2>9. /\ Cong(r[lo], Times(c, sum))
        /\ Cong(r[hi], Times(c, Turned(q, difference)))
    BY <2>1, <2>5, <2>7, <2>8, CongFollows
  <2> QED
    BY <2>1, <2>2, <2>6, <2>9, ButterflyUndoes
<1>5. Times(2 * c, x[j]) \in Int
  <2>1. 2 * c \in Int
    OBVIOUS
  <2> QED
    BY <1>1, <2>1 DEF Times
<1>6. CASE Kem!Upper(j, len)
  <2> DEFINE f == Down(r[j - len], ZetaUp(j, len), r[j])
  <2>1. j - len \in Kem!Index /\ ~Kem!Upper(j - len, len) /\ j = (j - len) + len
    BY <1>6, LayerIndex, LayerPair, IndexMeans DEF Lengths
  <2>2. Cong(f, Times(2 * c, x[j]))
    BY <1>4, <1>6, <2>1
  <2>3. Cong(n[j], f)
    BY <1>6, WideLayer
  <2>4. f \in Int
    BY <1>1, <1>3, <2>1 DEF Down
  <2> HIDE DEF f, n
  <2> QED
    BY <1>2, <1>5, <2>2, <2>3, <2>4, CongFollows DEF n
<1>7. CASE ~Kem!Upper(j, len)
  <2> DEFINE f == Up(r[j], ZetaUp(j, len), r[j + len])
  <2>1. /\ j + len \in Kem!Index /\ Kem!Upper(j + len, len) /\ j = (j + len) - len
        /\ Kem!Block(j + len, len) = Kem!Block(j, len)
    BY <1>7, LayerIndex, LayerPair, IndexMeans DEF Lengths
  <2>2. ZetaUp(j + len, len) = ZetaUp(j, len)
    BY <2>1 DEF ZetaUp
  <2>3. Cong(f, Times(2 * c, x[j]))
    BY <1>4, <1>7, <2>1, <2>2
  <2>4. Cong(n[j], f)
    BY <1>7, WideLayer
  <2>5. f \in Int
    BY <1>1, <1>3, <2>1 DEF Up
  <2> HIDE DEF f, n
  <2> QED
    BY <1>2, <1>5, <2>3, <2>4, <2>5, CongFollows DEF n
<1> QED
  BY <1>6, <1>7

-----------------------------------------------------------------------------
(* ntt undoes invntt, up to the factor 2^16 that the products of the ring   *)
(* lose in turn.                                                           *)

\* The factor of the domain of Montgomery.
Factor == 65536

\* A reduction leaves each residue what it is.
LEMMA ReduceCong ==
  ASSUME NEW a, ShortPoly(a), NEW j \in Kem!Index
  PROVE  Cong(Kem!poly_reduce(a)[j], a[j]) /\ Kem!poly_reduce(a)[j] \in Int /\ a[j] \in Int
<1>1. Kem!poly_reduce(a)[j] = Kem!barrett_reduce(a[j])
  BY DEF Kem!poly_reduce
<1> QED
  BY <1>1, BarrettIs DEF ShortPoly, Short

\* How far the layers of ntt can grow.
LEMMA LayersWide ==
  ASSUME NEW r, Kem!Within(r, 6657)
  PROVE  LET r1 == Kem!NttLayer(r, 128)
             r2 == Kem!NttLayer(r1, 64)
             r3 == Kem!NttLayer(r2, 32)
             r4 == Kem!NttLayer(r3, 16)
             r5 == Kem!NttLayer(r4, 8)
             r6 == Kem!NttLayer(r5, 4)
             r7 == Kem!NttLayer(r6, 2)
         IN  /\ Wide(r) /\ Wide(r1) /\ Wide(r2) /\ Wide(r3) /\ Wide(r4) /\ Wide(r5) /\ Wide(r6)
             /\ ShortPoly(r7) /\ Kem!poly_ntt(r) = Kem!poly_reduce(r7)
<1> DEFINE r1 == Kem!NttLayer(r, 128)
           r2 == Kem!NttLayer(r1, 64)
           r3 == Kem!NttLayer(r2, 32)
           r4 == Kem!NttLayer(r3, 16)
           r5 == Kem!NttLayer(r4, 8)
           r6 == Kem!NttLayer(r5, 4)
           r7 == Kem!NttLayer(r6, 2)
<1>1. {2, 4, 8, 16, 32, 64, 128} \subseteq Lengths
  BY DEF Lengths
<1>2. Kem!poly_ntt(r) = Kem!poly_reduce(r7)
  BY DEF Kem!poly_ntt, Kem!ntt
<1>3. Kem!Within(r1, 10370)
  BY <1>1, NttLayerGrows
<1> HIDE DEF r1
<1>4. Kem!Within(r2, 14083)
  BY <1>1, <1>3, NttLayerGrows
<1> HIDE DEF r2
<1>5. Kem!Within(r3, 17796)
  BY <1>1, <1>4, NttLayerGrows
<1> HIDE DEF r3
<1>6. Kem!Within(r4, 21509)
  BY <1>1, <1>5, NttLayerGrows
<1> HIDE DEF r4
<1>7. Kem!Within(r5, 25222)
  BY <1>1, <1>6, NttLayerGrows
<1> HIDE DEF r5
<1>8. Kem!Within(r6, 28935)
  BY <1>1, <1>7, NttLayerGrows
<1> HIDE DEF r6
<1>9. Kem!Within(r7, 32648)
  BY <1>1, <1>8, NttLayerGrows
<1> HIDE DEF r7
<1>10. ASSUME NEW p, NEW b \in Nat, b <= 29000, Kem!Within(p, b) PROVE Wide(p)
  <2>1. \A j \in Kem!Index : Between(p[j], b)
    BY <1>10, WithinMeans
  <2>2. \A j \in Kem!Index : Between(p[j], 29000)
    BY <1>10, <2>1 DEF Between
  <2> QED
    BY <2>2, WithinMeans DEF Wide
<1>11. Wide(r) /\ Wide(r1) /\ Wide(r2) /\ Wide(r3) /\ Wide(r4) /\ Wide(r5) /\ Wide(r6)
  BY <1>3, <1>4, <1>5, <1>6, <1>7, <1>8, <1>10
<1>12. ShortPoly(r7)
  <2>1. \A j \in Kem!Index : Between(r7[j], 32648)
    BY <1>9, WithinMeans
  <2> QED
    BY <2>1 DEF Between, Short, ShortPoly
<1> QED
  BY <1>2, <1>11, <1>12 DEF r1, r2, r3, r4, r5, r6, r7

\* The inverse transform is undone by the transform: in each coefficient what
\* was there comes back times 2^16, modulo q, for coefficients up to 16000,
\* more than invntt is ever given (ntt and invntt in ntt.c, each with seven
\* layers in 16 bits and the reductions that it makes on the way).
THEOREM NttOfInvntt ==
  ASSUME NEW x, Narrow(x), NEW j \in Kem!Index
  PROVE  Cong(Kem!poly_ntt(Kem!invntt(x))[j], Times(Factor, x[j]))
<1> DEFINE s1 == Kem!InvNttLayer(x, 2)
           s2 == Kem!InvNttLayer(s1, 4)
           s3 == Kem!InvNttLayer(s2, 8)
           s4 == Kem!InvNttLayer(s3, 16)
           s5 == Kem!InvNttLayer(s4, 32)
           s6 == Kem!InvNttLayer(s5, 64)
           s7 == Kem!InvNttLayer(s6, 128)
           r == Kem!invntt(x)
           r1 == Kem!NttLayer(r, 128)
           r2 == Kem!NttLayer(r1, 64)
           r3 == Kem!NttLayer(r2, 32)
           r4 == Kem!NttLayer(r3, 16)
           r5 == Kem!NttLayer(r4, 8)
           r6 == Kem!NttLayer(r5, 4)
           r7 == Kem!NttLayer(r6, 2)
           c == 169 * 1441
<1>1. {2, 4, 8, 16, 32, 64, 128} \subseteq Lengths
  BY DEF Lengths
<1>2. \A i \in Kem!Index : r[i] = Kem!fqmul(s7[i], 1441)
  BY DEF Kem!invntt
<1>3. Kem!Within(r, 6657)
  <2>1. Kem!Within(r, 3328)
    BY InvNttWithin, WithinIsInt DEF Narrow
  <2>2. \A i \in Kem!Index : Between(r[i], 3328)
    BY <2>1, WithinMeans
  <2>3. \A i \in Kem!Index : Between(r[i], 6657)
    BY <2>2 DEF Between
  <2> QED
    BY <2>3, WithinMeans
<1> HIDE DEF r
<1>4. /\ Wide(r) /\ Wide(r1) /\ Wide(r2) /\ Wide(r3) /\ Wide(r4) /\ Wide(r5) /\ Wide(r6)
      /\ ShortPoly(r7) /\ Kem!poly_ntt(r) = Kem!poly_reduce(r7)
  BY <1>3, LayersWide
<1>5. Narrow(s1)
  BY <1>1, NarrowAgain
<1>6. Narrow(s2)
  BY <1>1, <1>5, NarrowAgain
<1>7. Narrow(s3)
  BY <1>1, <1>6, NarrowAgain
<1>8. Narrow(s4)
  BY <1>1, <1>7, NarrowAgain
<1>9. Narrow(s5)
  BY <1>1, <1>8, NarrowAgain
<1>10. Narrow(s6)
  BY <1>1, <1>9, NarrowAgain
<1>11. \A i \in Kem!Index : Cong(r[i], Times(c, s7[i]))
  <2> SUFFICES ASSUME NEW i \in Kem!Index PROVE Cong(r[i], Times(c, s7[i]))
    OBVIOUS
  <2> HIDE DEF s6
  <2>1. Kem!Within(s7, 2495)
    BY <1>1, <1>10, InvNttLayerWithin, WithinIsInt DEF Narrow
  <2> HIDE DEF s7
  <2>2. Between(s7[i], 2495)
    BY <2>1, WithinMeans
  <2>3. Between(s7[i], 4096) /\ Short(1441)
    BY <2>2 DEF Between, Short
  <2>4. Cong(Kem!fqmul(s7[i], 1441), 169 * (s7[i] * 1441))
    BY <2>3, FqmulIs
  <2>5. 169 * (s7[i] * 1441) = Times(c, s7[i])
    BY <2>3 DEF Times, Between
  <2> QED
    BY <1>2, <2>4, <2>5
<1>12. c \in Int
  OBVIOUS
<1> HIDE DEF c
<1>13. \A i \in Kem!Index : Cong(r1[i], Times(2 * c, s6[i]))
  <2> HIDE DEF s1, s2, s3, s4, s5, s6, r2, r3, r4, r5, r6, r7
  <2> DEFINE d == c
  <2>1. d \in Int /\ 2 * d = 2 * c
    BY <1>12
  <2>2. \A i \in Kem!Index : Cong(r[i], Times(d, Kem!InvNttLayer(s6, 128)[i]))
    BY <1>11
  <2> HIDE DEF d, s7
  <2>3. \A i \in Kem!Index : Cong(Kem!NttLayer(r, 128)[i], Times(2 * d, s6[i]))
    BY <1>1, <1>4, <1>10, <2>1, <2>2, NttLayerUndoes
  <2> QED
    BY <2>1, <2>3
<1>14. \A i \in Kem!Index : Cong(r2[i], Times(4 * c, s5[i]))
  <2> HIDE DEF s1, s2, s3, s4, s5, s7, r1, r3, r4, r5, r6, r7
  <2> DEFINE d == 2 * c
  <2>1. d \in Int /\ 2 * d = 4 * c
    BY <1>12
  <2>2. \A i \in Kem!Index : Cong(r1[i], Times(d, Kem!InvNttLayer(s5, 64)[i]))
    BY <1>13
  <2> HIDE DEF d, s6
  <2>3. \A i \in Kem!Index : Cong(Kem!NttLayer(r1, 64)[i], Times(2 * d, s5[i]))
    BY <1>1, <1>4, <1>9, <2>1, <2>2, NttLayerUndoes
  <2> QED
    BY <2>1, <2>3
<1>15. \A i \in Kem!Index : Cong(r3[i], Times(8 * c, s4[i]))
  <2> HIDE DEF s1, s2, s3, s4, s6, s7, r1, r2, r4, r5, r6, r7
  <2> DEFINE d == 4 * c
  <2>1. d \in Int /\ 2 * d = 8 * c
    BY <1>12
  <2>2. \A i \in Kem!Index : Cong(r2[i], Times(d, Kem!InvNttLayer(s4, 32)[i]))
    BY <1>14
  <2> HIDE DEF d, s5
  <2>3. \A i \in Kem!Index : Cong(Kem!NttLayer(r2, 32)[i], Times(2 * d, s4[i]))
    BY <1>1, <1>4, <1>8, <2>1, <2>2, NttLayerUndoes
  <2> QED
    BY <2>1, <2>3
<1>16. \A i \in Kem!Index : Cong(r4[i], Times(16 * c, s3[i]))
  <2> HIDE DEF s1, s2, s3, s5, s6, s7, r1, r2, r3, r5, r6, r7
  <2> DEFINE d == 8 * c
  <2>1. d \in Int /\ 2 * d = 16 * c
    BY <1>12
  <2>2. \A i \in Kem!Index : Cong(r3[i], Times(d, Kem!InvNttLayer(s3, 16)[i]))
    BY <1>15
  <2> HIDE DEF d, s4
  <2>3. \A i \in Kem!Index : Cong(Kem!NttLayer(r3, 16)[i], Times(2 * d, s3[i]))
    BY <1>1, <1>4, <1>7, <2>1, <2>2, NttLayerUndoes
  <2> QED
    BY <2>1, <2>3
<1>17. \A i \in Kem!Index : Cong(r5[i], Times(32 * c, s2[i]))
  <2> HIDE DEF s1, s2, s4, s5, s6, s7, r1, r2, r3, r4, r6, r7
  <2> DEFINE d == 16 * c
  <2>1. d \in Int /\ 2 * d = 32 * c
    BY <1>12
  <2>2. \A i \in Kem!Index : Cong(r4[i], Times(d, Kem!InvNttLayer(s2, 8)[i]))
    BY <1>16
  <2> HIDE DEF d, s3
  <2>3. \A i \in Kem!Index : Cong(Kem!NttLayer(r4, 8)[i], Times(2 * d, s2[i]))
    BY <1>1, <1>4, <1>6, <2>1, <2>2, NttLayerUndoes
  <2> QED
    BY <2>1, <2>3
<1>18. \A i \in Kem!Index : Cong(r6[i], Times(64 * c, s1[i]))
  <2> HIDE DEF s1, s3, s4, s5, s6, s7, r1, r2, r3, r4, r5, r7
  <2> DEFINE d == 32 * c
  <2>1. d \in Int /\ 2 * d = 64 * c
    BY <1>12
  <2>2. \A i \in Kem!Index : Cong(r5[i], Times(d, Kem!InvNttLayer(s1, 4)[i]))
    BY <1>17
  <2> HIDE DEF d, s2
  <2>3. \A i \in Kem!Index : Cong(Kem!NttLayer(r5, 4)[i], Times(2 * d, s1[i]))
    BY <1>1, <1>4, <1>5, <2>1, <2>2, NttLayerUndoes
  <2> QED
    BY <2>1, <2>3
<1>19. \A i \in Kem!Index : Cong(r7[i], Times(128 * c, x[i]))
  <2> HIDE DEF s2, s3, s4, s5, s6, s7, r1, r2, r3, r4, r5, r6
  <2> DEFINE d == 64 * c
  <2>1. d \in Int /\ 2 * d = 128 * c
    BY <1>12
  <2>2. \A i \in Kem!Index : Cong(r6[i], Times(d, Kem!InvNttLayer(x, 2)[i]))
    BY <1>18
  <2> HIDE DEF d, s1
  <2>3. \A i \in Kem!Index : Cong(Kem!NttLayer(r6, 2)[i], Times(2 * d, x[i]))
    BY <1>1, <1>4, <2>1, <2>2, NttLayerUndoes
  <2> QED
    BY <2>1, <2>3
<1> DEFINE p == Kem!poly_ntt(r)[j]
           q == r7[j]
           y == x[j]
<1>20. Cong(p, q) /\ p \in Int /\ q \in Int
  BY <1>4, ReduceCong
<1>21. y \in Int
  BY NarrowLayer, <1>1
<1>22. Cong(q, Times(128 * c, y))
  BY <1>19
<1> HIDE DEF p, q, y, r7
<1>23. Cong(q, Times(Factor, y))
  <2> DEFINE a == Times(128 * c, y)
             b == Times(Factor, y)
             n == 9344 * y
  <2>1. a = 31171712 * y /\ b = 65536 * y /\ n \in Int
    BY <1>21 DEF Times, Factor, c
  <2>2. a = b + 3329 * n /\ a \in Int /\ b \in Int
    BY <1>21, <2>1
  <2>3. Cong(q, a)
    BY <1>22
  <2> HIDE DEF a, b, n
  <2>4. Cong(q, b)
    BY <1>20, <2>1, <2>2, <2>3 DEF Cong
  <2> QED
    BY <2>4 DEF b
<1>24. Cong(p, Times(Factor, y))
  <2> DEFINE b == Times(Factor, y)
  <2>1. b \in Int
    BY <1>21 DEF Times, Factor
  <2>2. Cong(q, b)
    BY <1>23
  <2> HIDE DEF b
  <2>3. Cong(p, b)
    BY <1>20, <2>1, <2>2, CongFollows
  <2> QED
    BY <2>3 DEF b
<1> QED
  BY <1>24 DEF p, y, r

-----------------------------------------------------------------------------
(* ntt of a sum is the sum of the transforms, and invntt of what is        *)
(* balanced is balanced.                                                   *)

Sums(z, x, y) == Cong(z, x + y)
Evens(x, y, u, v) == Cong(x + y, u + v)

LEMMA ButterflySums ==
  ASSUME NEW p \in Int, NEW x \in Int, NEW y \in Int, NEW z \in Int,
         NEW u \in Int, NEW v \in Int, NEW w \in Int, Sums(z, x, y), Sums(w, u, v)
  PROVE  /\ Sums(Down(z, p, w), Down(x, p, u), Down(y, p, v))
         /\ Sums(Up(z, p, w), Up(x, p, u), Up(y, p, v))
<1> DEFINE f == p * u
           g == p * v
           h == p * w
           s == u + v
           t == p * s
<1>1. f \in Int /\ g \in Int /\ h \in Int /\ s \in Int /\ t \in Int /\ t = f + g
  OBVIOUS
<1>2. Cong(w, s) /\ Cong(z, x + y)
  BY DEF Sums
<1> HIDE DEF s
<1>3. Cong(p * w, p * s)
  BY <1>1, <1>2, CongTimes
<1>4. Cong(h, t)
  BY <1>3
<1> HIDE DEF f, g, h, t
<1>5. /\ Cong(z - 169 * h, (x - 169 * f) + (y - 169 * g))
      /\ Cong(z + 169 * h, (x + 169 * f) + (y + 169 * g))
  BY <1>1, <1>2, <1>4 DEF Cong
<1> QED
  BY <1>5 DEF Sums, Down, Up, f, g, h

\* What is made of results that are congruent.
LEMMA SumsFollow ==
  ASSUME NEW x \in Int, NEW y \in Int, NEW z \in Int,
         NEW u \in Int, NEW v \in Int, NEW w \in Int,
         Cong(x, u), Cong(y, v), Cong(z, w), Sums(w, u, v)
  PROVE  Sums(z, x, y)
BY DEF Sums, Cong

LEMMA ButterflyInt ==
  ASSUME NEW p \in Int, NEW x \in Int, NEW y \in Int
  PROVE  Up(x, p, y) \in Int /\ Down(x, p, y) \in Int
BY DEF Up, Down

LEMMA NttLayerSums ==
  ASSUME NEW a, NEW b, NEW c, NEW len \in Lengths, Wide(a), Wide(b), Wide(c),
         \A j \in Kem!Index : Sums(c[j], a[j], b[j])
  PROVE  \A j \in Kem!Index :
            Sums(Kem!NttLayer(c, len)[j], Kem!NttLayer(a, len)[j], Kem!NttLayer(b, len)[j])
<1> SUFFICES ASSUME NEW j \in Kem!Index
             PROVE  Sums(Kem!NttLayer(c, len)[j], Kem!NttLayer(a, len)[j], Kem!NttLayer(b, len)[j])
  OBVIOUS
<1> DEFINE na == Kem!NttLayer(a, len)[j]
           nb == Kem!NttLayer(b, len)[j]
           nc == Kem!NttLayer(c, len)[j]
           z == ZetaUp(j, len)
<1>1. \A i \in Kem!Index : a[i] \in Int /\ b[i] \in Int /\ c[i] \in Int
  BY WideLayer
<1>2. na \in Int /\ nb \in Int /\ nc \in Int /\ z \in Int
  BY WideLayer, LayerIndex DEF ZetaUp, Between
<1>3. CASE Kem!Upper(j, len)
  <2> DEFINE i == j - len
  <2>1. i \in Kem!Index
    BY <1>3, LayerIndex
  <2>2. /\ Cong(na, Down(a[i], z, a[j])) /\ Cong(nb, Down(b[i], z, b[j]))
        /\ Cong(nc, Down(c[i], z, c[j]))
    BY <1>3, WideLayer
  <2> HIDE DEF i, na, nb, nc, z
  <2>3. Sums(Down(c[i], z, c[j]), Down(a[i], z, a[j]), Down(b[i], z, b[j]))
    BY <1>1, <1>2, <2>1, ButterflySums
  <2>4. Down(a[i], z, a[j]) \in Int /\ Down(b[i], z, b[j]) \in Int /\ Down(c[i], z, c[j]) \in Int
    BY <1>1, <1>2, <2>1, ButterflyInt
  <2>5. Sums(nc, na, nb)
    BY <1>2, <2>2, <2>3, <2>4, SumsFollow
  <2> QED
    BY <2>5 DEF na, nb, nc
<1>4. CASE ~Kem!Upper(j, len)
  <2> DEFINE i == j + len
  <2>1. i \in Kem!Index
    BY <1>4, LayerIndex
  <2>2. /\ Cong(na, Up(a[j], z, a[i])) /\ Cong(nb, Up(b[j], z, b[i]))
        /\ Cong(nc, Up(c[j], z, c[i]))
    BY <1>4, WideLayer
  <2> HIDE DEF i, na, nb, nc, z
  <2>3. Sums(Up(c[j], z, c[i]), Up(a[j], z, a[i]), Up(b[j], z, b[i]))
    BY <1>1, <1>2, <2>1, ButterflySums
  <2>4. Up(a[j], z, a[i]) \in Int /\ Up(b[j], z, b[i]) \in Int /\ Up(c[j], z, c[i]) \in Int
    BY <1>1, <1>2, <2>1, ButterflyInt
  <2>5. Sums(nc, na, nb)
    BY <1>2, <2>2, <2>3, <2>4, SumsFollow
  <2> QED
    BY <2>5 DEF na, nb, nc
<1> QED
  BY <1>3, <1>4

LEMMA NttSums ==
  ASSUME NEW a, NEW b, NEW c, Kem!Within(a, 6657), Kem!Within(b, 6657), Kem!Within(c, 6657),
         \A j \in Kem!Index : Sums(c[j], a[j], b[j])
  PROVE  \A j \in Kem!Index :
            Sums(Kem!poly_ntt(c)[j], Kem!poly_ntt(a)[j], Kem!poly_ntt(b)[j])
<1> DEFINE L(r, len) == Kem!NttLayer(r, len)
           A1 == L(a, 128)   A2 == L(A1, 64)   A3 == L(A2, 32)
           A4 == L(A3, 16)   A5 == L(A4, 8)    A6 == L(A5, 4)   A7 == L(A6, 2)
           B1 == L(b, 128)   B2 == L(B1, 64)   B3 == L(B2, 32)
           B4 == L(B3, 16)   B5 == L(B4, 8)    B6 == L(B5, 4)   B7 == L(B6, 2)
           C1 == L(c, 128)   C2 == L(C1, 64)   C3 == L(C2, 32)
           C4 == L(C3, 16)   C5 == L(C4, 8)    C6 == L(C5, 4)   C7 == L(C6, 2)
<1>1. {2, 4, 8, 16, 32, 64, 128} \subseteq Lengths
  BY DEF Lengths
<1>2. /\ Wide(a) /\ Wide(A1) /\ Wide(A2) /\ Wide(A3) /\ Wide(A4) /\ Wide(A5) /\ Wide(A6)
      /\ ShortPoly(A7) /\ Kem!poly_ntt(a) = Kem!poly_reduce(A7)
  BY LayersWide
<1>3. /\ Wide(b) /\ Wide(B1) /\ Wide(B2) /\ Wide(B3) /\ Wide(B4) /\ Wide(B5) /\ Wide(B6)
      /\ ShortPoly(B7) /\ Kem!poly_ntt(b) = Kem!poly_reduce(B7)
  BY LayersWide
<1>4. /\ Wide(c) /\ Wide(C1) /\ Wide(C2) /\ Wide(C3) /\ Wide(C4) /\ Wide(C5) /\ Wide(C6)
      /\ ShortPoly(C7) /\ Kem!poly_ntt(c) = Kem!poly_reduce(C7)
  BY LayersWide
<1>5. \A j \in Kem!Index : Sums(C1[j], A1[j], B1[j])
  BY <1>1, <1>2, <1>3, <1>4, NttLayerSums
<1> HIDE DEF A1, B1, C1
<1>6. \A j \in Kem!Index : Sums(C2[j], A2[j], B2[j])
  BY <1>1, <1>2, <1>3, <1>4, <1>5, NttLayerSums
<1> HIDE DEF A2, B2, C2
<1>7. \A j \in Kem!Index : Sums(C3[j], A3[j], B3[j])
  BY <1>1, <1>2, <1>3, <1>4, <1>6, NttLayerSums
<1> HIDE DEF A3, B3, C3
<1>8. \A j \in Kem!Index : Sums(C4[j], A4[j], B4[j])
  BY <1>1, <1>2, <1>3, <1>4, <1>7, NttLayerSums
<1> HIDE DEF A4, B4, C4
<1>9. \A j \in Kem!Index : Sums(C5[j], A5[j], B5[j])
  BY <1>1, <1>2, <1>3, <1>4, <1>8, NttLayerSums
<1> HIDE DEF A5, B5, C5
<1>10. \A j \in Kem!Index : Sums(C6[j], A6[j], B6[j])
  BY <1>1, <1>2, <1>3, <1>4, <1>9, NttLayerSums
<1> HIDE DEF A6, B6, C6
<1>11. \A j \in Kem!Index : Sums(C7[j], A7[j], B7[j])
  BY <1>1, <1>2, <1>3, <1>4, <1>10, NttLayerSums
<1> HIDE DEF A7, B7, C7
<1> SUFFICES ASSUME NEW j \in Kem!Index
             PROVE  Sums(Kem!poly_reduce(C7)[j], Kem!poly_reduce(A7)[j], Kem!poly_reduce(B7)[j])
  BY <1>2, <1>3, <1>4
<1>12. /\ Cong(Kem!poly_reduce(A7)[j], A7[j]) /\ Kem!poly_reduce(A7)[j] \in Int /\ A7[j] \in Int
       /\ Cong(Kem!poly_reduce(B7)[j], B7[j]) /\ Kem!poly_reduce(B7)[j] \in Int /\ B7[j] \in Int
       /\ Cong(Kem!poly_reduce(C7)[j], C7[j]) /\ Kem!poly_reduce(C7)[j] \in Int /\ C7[j] \in Int
  BY <1>2, <1>3, <1>4, ReduceCong
<1> QED
  BY <1>11, <1>12, SumsFollow

LEMMA TurnedEvens ==
  ASSUME NEW p \in Int, NEW x \in Int, NEW y \in Int, NEW u \in Int, NEW v \in Int,
         NEW k \in Int, NEW l \in Int, NEW m \in Int, NEW n \in Int,
         Evens(x, y, u, v), Evens(k, l, m, n)
  PROVE  /\ Evens(x + k, y + l, u + m, v + n)
         /\ Evens(Turned(p, Difference(x, k)), Turned(p, Difference(y, l)),
                  Turned(p, Difference(u, m)), Turned(p, Difference(v, n)))
<1> DEFINE s == (x - k) + (y - l)
           t == (u - m) + (v - n)
           f == p * (x - k)
           g == p * (y - l)
           h == p * (u - m)
           i == p * (v - n)
<1>1. s \in Int /\ t \in Int /\ Cong(s, t) /\ Evens(x + k, y + l, u + m, v + n)
  BY DEF Evens, Cong
<1>2. p * s = f + g /\ p * t = h + i /\ f \in Int /\ g \in Int /\ h \in Int /\ i \in Int
  OBVIOUS
<1> HIDE DEF s, t
<1>3. Cong(p * s, p * t)
  BY <1>1, CongTimes
<1> HIDE DEF f, g, h, i
<1>4. Cong(169 * f + 169 * g, 169 * h + 169 * i)
  BY <1>2, <1>3 DEF Cong
<1> QED
  BY <1>1, <1>4 DEF Evens, Turned, Difference, f, g, h, i

LEMMA EvensFollow ==
  ASSUME NEW x \in Int, NEW y \in Int, NEW u \in Int, NEW v \in Int,
         NEW k \in Int, NEW l \in Int, NEW m \in Int, NEW n \in Int,
         Cong(x, k), Cong(y, l), Cong(u, m), Cong(v, n), Evens(k, l, m, n)
  PROVE  Evens(x, y, u, v)
BY DEF Evens, Cong

LEMMA TurnedInt ==
  ASSUME NEW p \in Int, NEW x \in Int, NEW y \in Int
  PROVE  Turned(p, Difference(x, y)) \in Int
BY DEF Turned, Difference

LEMMA InvNttLayerEvens ==
  ASSUME NEW a, NEW b, NEW c, NEW d, NEW len \in Lengths,
         Narrow(a), Narrow(b), Narrow(c), Narrow(d),
         \A j \in Kem!Index : Evens(a[j], b[j], c[j], d[j])
  PROVE  \A j \in Kem!Index :
            Evens(Kem!InvNttLayer(a, len)[j], Kem!InvNttLayer(b, len)[j],
                  Kem!InvNttLayer(c, len)[j], Kem!InvNttLayer(d, len)[j])
<1> DEFINE na == Kem!InvNttLayer(a, len)
           nb == Kem!InvNttLayer(b, len)
           nc == Kem!InvNttLayer(c, len)
           nd == Kem!InvNttLayer(d, len)
<1> SUFFICES ASSUME NEW j \in Kem!Index PROVE Evens(na[j], nb[j], nc[j], nd[j])
  OBVIOUS
<1> DEFINE z == ZetaDown(j, len)
<1>1. \A i \in Kem!Index : a[i] \in Int /\ b[i] \in Int /\ c[i] \in Int /\ d[i] \in Int
  BY NarrowLayer
<1>2. na[j] \in Int /\ nb[j] \in Int /\ nc[j] \in Int /\ nd[j] \in Int /\ z \in Int
  BY NarrowLayer, LayerIndex DEF ZetaDown, Between
<1>3. CASE Kem!Upper(j, len)
  <2> DEFINE i == j - len
             ta == Turned(z, Difference(a[j], a[i]))
             tb == Turned(z, Difference(b[j], b[i]))
             tc == Turned(z, Difference(c[j], c[i]))
             td == Turned(z, Difference(d[j], d[i]))
  <2>1. i \in Kem!Index
    BY <1>3, LayerIndex
  <2>2. Cong(na[j], ta) /\ Cong(nb[j], tb) /\ Cong(nc[j], tc) /\ Cong(nd[j], td)
    BY <1>3, NarrowLayer
  <2> HIDE DEF i, na, nb, nc, nd, z
  <2>3. Evens(ta, tb, tc, td)
    BY <1>1, <1>2, <2>1, TurnedEvens
  <2>4. ta \in Int /\ tb \in Int /\ tc \in Int /\ td \in Int
    BY <1>1, <1>2, <2>1, TurnedInt
  <2> HIDE DEF ta, tb, tc, td
  <2> QED
    BY <1>2, <2>2, <2>3, <2>4, EvensFollow
<1>4. CASE ~Kem!Upper(j, len)
  <2> DEFINE i == j + len
             ta == a[j] + a[i]
             tb == b[j] + b[i]
             tc == c[j] + c[i]
             td == d[j] + d[i]
  <2>1. i \in Kem!Index
    BY <1>4, LayerIndex
  <2>2. Cong(na[j], ta) /\ Cong(nb[j], tb) /\ Cong(nc[j], tc) /\ Cong(nd[j], td)
    BY <1>4, NarrowLayer
  <2> HIDE DEF i, na, nb, nc, nd, z
  <2>3. Evens(ta, tb, tc, td)
    BY <1>1, <2>1 DEF Evens, Cong
  <2>4. ta \in Int /\ tb \in Int /\ tc \in Int /\ td \in Int
    BY <1>1, <2>1
  <2> HIDE DEF ta, tb, tc, td
  <2> QED
    BY <1>2, <2>2, <2>3, <2>4, EvensFollow
<1> QED
  BY <1>3, <1>4

\* The last product of invntt: 169 * 1441.
Ending == 243529

LEMMA InvnttEnds ==
  ASSUME NEW r, Narrow(r)
  PROVE  LET s1 == Kem!InvNttLayer(r, 2)
             s2 == Kem!InvNttLayer(s1, 4)
             s3 == Kem!InvNttLayer(s2, 8)
             s4 == Kem!InvNttLayer(s3, 16)
             s5 == Kem!InvNttLayer(s4, 32)
             s6 == Kem!InvNttLayer(s5, 64)
             s7 == Kem!InvNttLayer(s6, 128)
         IN  /\ Narrow(s1) /\ Narrow(s2) /\ Narrow(s3) /\ Narrow(s4) /\ Narrow(s5) /\ Narrow(s6)
             /\ \A j \in Kem!Index :
                   /\ Cong(Kem!invntt(r)[j], Times(Ending, s7[j]))
                   /\ Kem!invntt(r)[j] \in Int /\ s7[j] \in Int
<1> DEFINE s1 == Kem!InvNttLayer(r, 2)
           s2 == Kem!InvNttLayer(s1, 4)
           s3 == Kem!InvNttLayer(s2, 8)
           s4 == Kem!InvNttLayer(s3, 16)
           s5 == Kem!InvNttLayer(s4, 32)
           s6 == Kem!InvNttLayer(s5, 64)
           s7 == Kem!InvNttLayer(s6, 128)
<1>1. {2, 4, 8, 16, 32, 64, 128} \subseteq Lengths
  BY DEF Lengths
<1>2. \A j \in Kem!Index : Kem!invntt(r)[j] = Kem!fqmul(s7[j], 1441)
  BY DEF Kem!invntt
<1>3. Narrow(s1)
  BY <1>1, NarrowAgain
<1> HIDE DEF s1
<1>4. Narrow(s2)
  BY <1>1, <1>3, NarrowAgain
<1> HIDE DEF s2
<1>5. Narrow(s3)
  BY <1>1, <1>4, NarrowAgain
<1> HIDE DEF s3
<1>6. Narrow(s4)
  BY <1>1, <1>5, NarrowAgain
<1> HIDE DEF s4
<1>7. Narrow(s5)
  BY <1>1, <1>6, NarrowAgain
<1> HIDE DEF s5
<1>8. Narrow(s6)
  BY <1>1, <1>7, NarrowAgain
<1> HIDE DEF s6
<1>9. Narrow(s7) /\ Kem!Within(s7, 2495)
  BY <1>1, <1>8, NarrowAgain, InvNttLayerWithin, WithinIsInt DEF Narrow
<1> HIDE DEF s7
<1> SUFFICES ASSUME NEW j \in Kem!Index
             PROVE  /\ Cong(Kem!invntt(r)[j], Times(Ending, s7[j]))
                    /\ Kem!invntt(r)[j] \in Int /\ s7[j] \in Int
  BY <1>3, <1>4, <1>5, <1>6, <1>7, <1>8 DEF s1, s2, s3, s4, s5, s6, s7
<1>10. Between(s7[j], 2495)
  BY <1>9, WithinMeans
<1>11. Between(s7[j], 4096) /\ Short(1441) /\ s7[j] \in Int
  BY <1>10 DEF Between, Short
<1>12. Cong(Kem!fqmul(s7[j], 1441), 169 * (s7[j] * 1441)) /\ Between(Kem!fqmul(s7[j], 1441), 3713)
  BY <1>11, FqmulIs
<1>13. 169 * (s7[j] * 1441) = Times(Ending, s7[j])
  BY <1>11 DEF Times, Ending
<1> QED
  BY <1>2, <1>11, <1>12, <1>13 DEF Between

LEMMA TimesEvens ==
  ASSUME NEW c \in Int, NEW x \in Int, NEW y \in Int, NEW u \in Int, NEW v \in Int,
         Evens(x, y, u, v)
  PROVE  Evens(Times(c, x), Times(c, y), Times(c, u), Times(c, v))
<1> DEFINE s == x + y
           t == u + v
<1>1. s \in Int /\ t \in Int /\ Cong(s, t)
  BY DEF Evens
<1>2. c * s = c * x + c * y /\ c * t = c * u + c * v
  OBVIOUS
<1> HIDE DEF s, t
<1>3. Cong(c * s, c * t)
  BY <1>1, CongTimes
<1> QED
  BY <1>2, <1>3 DEF Evens, Times

LEMMA InvnttEvens ==
  ASSUME NEW a, NEW b, NEW c, NEW d, Narrow(a), Narrow(b), Narrow(c), Narrow(d),
         \A j \in Kem!Index : Evens(a[j], b[j], c[j], d[j])
  PROVE  \A j \in Kem!Index :
            Evens(Kem!invntt(a)[j], Kem!invntt(b)[j], Kem!invntt(c)[j], Kem!invntt(d)[j])
<1> DEFINE L(r, len) == Kem!InvNttLayer(r, len)
           A1 == L(a, 2)   A2 == L(A1, 4)   A3 == L(A2, 8)   A4 == L(A3, 16)
           A5 == L(A4, 32)   A6 == L(A5, 64)   A7 == L(A6, 128)
           B1 == L(b, 2)   B2 == L(B1, 4)   B3 == L(B2, 8)   B4 == L(B3, 16)
           B5 == L(B4, 32)   B6 == L(B5, 64)   B7 == L(B6, 128)
           C1 == L(c, 2)   C2 == L(C1, 4)   C3 == L(C2, 8)   C4 == L(C3, 16)
           C5 == L(C4, 32)   C6 == L(C5, 64)   C7 == L(C6, 128)
           D1 == L(d, 2)   D2 == L(D1, 4)   D3 == L(D2, 8)   D4 == L(D3, 16)
           D5 == L(D4, 32)   D6 == L(D5, 64)   D7 == L(D6, 128)
<1>1. {2, 4, 8, 16, 32, 64, 128} \subseteq Lengths
  BY DEF Lengths
<1>2. /\ Narrow(A1) /\ Narrow(A2) /\ Narrow(A3) /\ Narrow(A4) /\ Narrow(A5) /\ Narrow(A6)
      /\ \A j \in Kem!Index :
            /\ Cong(Kem!invntt(a)[j], Times(Ending, A7[j]))
            /\ Kem!invntt(a)[j] \in Int /\ A7[j] \in Int
  BY InvnttEnds
<1>3. /\ Narrow(B1) /\ Narrow(B2) /\ Narrow(B3) /\ Narrow(B4) /\ Narrow(B5) /\ Narrow(B6)
      /\ \A j \in Kem!Index :
            /\ Cong(Kem!invntt(b)[j], Times(Ending, B7[j]))
            /\ Kem!invntt(b)[j] \in Int /\ B7[j] \in Int
  BY InvnttEnds
<1>4. /\ Narrow(C1) /\ Narrow(C2) /\ Narrow(C3) /\ Narrow(C4) /\ Narrow(C5) /\ Narrow(C6)
      /\ \A j \in Kem!Index :
            /\ Cong(Kem!invntt(c)[j], Times(Ending, C7[j]))
            /\ Kem!invntt(c)[j] \in Int /\ C7[j] \in Int
  BY InvnttEnds
<1>5. /\ Narrow(D1) /\ Narrow(D2) /\ Narrow(D3) /\ Narrow(D4) /\ Narrow(D5) /\ Narrow(D6)
      /\ \A j \in Kem!Index :
            /\ Cong(Kem!invntt(d)[j], Times(Ending, D7[j]))
            /\ Kem!invntt(d)[j] \in Int /\ D7[j] \in Int
  BY InvnttEnds
<1>6. \A j \in Kem!Index : Evens(A1[j], B1[j], C1[j], D1[j])
  BY <1>1, <1>2, <1>3, <1>4, <1>5, InvNttLayerEvens
<1> HIDE DEF A1, B1, C1, D1
<1>7. \A j \in Kem!Index : Evens(A2[j], B2[j], C2[j], D2[j])
  BY <1>1, <1>2, <1>3, <1>4, <1>5, <1>6, InvNttLayerEvens
<1> HIDE DEF A2, B2, C2, D2
<1>8. \A j \in Kem!Index : Evens(A3[j], B3[j], C3[j], D3[j])
  BY <1>1, <1>2, <1>3, <1>4, <1>5, <1>7, InvNttLayerEvens
<1> HIDE DEF A3, B3, C3, D3
<1>9. \A j \in Kem!Index : Evens(A4[j], B4[j], C4[j], D4[j])
  BY <1>1, <1>2, <1>3, <1>4, <1>5, <1>8, InvNttLayerEvens
<1> HIDE DEF A4, B4, C4, D4
<1>10. \A j \in Kem!Index : Evens(A5[j], B5[j], C5[j], D5[j])
  BY <1>1, <1>2, <1>3, <1>4, <1>5, <1>9, InvNttLayerEvens
<1> HIDE DEF A5, B5, C5, D5
<1>11. \A j \in Kem!Index : Evens(A6[j], B6[j], C6[j], D6[j])
  BY <1>1, <1>2, <1>3, <1>4, <1>5, <1>10, InvNttLayerEvens
<1> HIDE DEF A6, B6, C6, D6
<1>12. \A j \in Kem!Index : Evens(A7[j], B7[j], C7[j], D7[j])
  BY <1>1, <1>2, <1>3, <1>4, <1>5, <1>11, InvNttLayerEvens
<1> HIDE DEF A7, B7, C7, D7
<1> SUFFICES ASSUME NEW j \in Kem!Index
             PROVE  Evens(Kem!invntt(a)[j], Kem!invntt(b)[j], Kem!invntt(c)[j], Kem!invntt(d)[j])
  OBVIOUS
<1> DEFINE k == Ending
           x == A7[j]
           y == B7[j]
           u == C7[j]
           v == D7[j]
<1>13. k \in Int /\ x \in Int /\ y \in Int /\ u \in Int /\ v \in Int /\ Evens(x, y, u, v)
  BY <1>2, <1>3, <1>4, <1>5, <1>12 DEF Ending
<1>14. /\ Cong(Kem!invntt(a)[j], Times(k, x)) /\ Kem!invntt(a)[j] \in Int
       /\ Cong(Kem!invntt(b)[j], Times(k, y)) /\ Kem!invntt(b)[j] \in Int
       /\ Cong(Kem!invntt(c)[j], Times(k, u)) /\ Kem!invntt(c)[j] \in Int
       /\ Cong(Kem!invntt(d)[j], Times(k, v)) /\ Kem!invntt(d)[j] \in Int
  BY <1>2, <1>3, <1>4, <1>5
<1> HIDE DEF k, x, y, u, v
<1>15. Evens(Times(k, x), Times(k, y), Times(k, u), Times(k, v))
  BY <1>13, TimesEvens
<1>16. Times(k, x) \in Int /\ Times(k, y) \in Int /\ Times(k, u) \in Int /\ Times(k, v) \in Int
  BY <1>13, TimesInt
<1> QED
  BY <1>14, <1>15, <1>16, EvensFollow

-----------------------------------------------------------------------------
(* The products in the domain of ntt are those of a ring, up to the factor *)
(* that montgomery_reduce takes away.                                      *)

\* The factor that the pair of coefficients j is in is X^2 - 169 * Root(j).
Root(j) == IF j % 4 < 2 THEN Kem!Zeta(64 + j \div 4) ELSE -Kem!Zeta(64 + j \div 4)

\* The product of a0 + a1 X and b0 + b1 X.
Lo(z, a0, a1, b0, b1) == a0 * b0 + 169 * (z * (a1 * b1))
Hi(a0, a1, b0, b1) == a0 * b1 + a1 * b0

Even(j) == j % 2 = 0

Ring(a, b) ==
    [j \in Kem!Index |->
        IF Even(j) THEN Lo(Root(j), a[j], a[j + 1], b[j], b[j + 1])
        ELSE Hi(a[j - 1], a[j], b[j - 1], b[j])]

Small(p) == Kem!Within(p, 4096)

LEMMA RootRange == \A j \in Kem!Index : Between(Root(j), 1659)
<1> SUFFICES ASSUME NEW j \in Kem!Index PROVE Between(Root(j), 1659)
  OBVIOUS
<1> DEFINE k == 64 + j \div 4
<1>1. k \in Int /\ 0 <= k /\ k <= 127
  BY IndexMeans
<1>2. Root(j) = Kem!Zeta(k) \/ Root(j) = -Kem!Zeta(k)
  BY DEF Root
<1> HIDE DEF k
<1>3. Between(Kem!Zeta(k), 1659)
  BY <1>1, ZetaRange
<1> QED
  BY <1>2, <1>3 DEF Between

LEMMA PairIndex ==
  ASSUME NEW j \in Kem!Index
  PROVE  /\ Even(j) => j + 1 \in Kem!Index /\ ~Even(j + 1) /\ Root(j + 1) = Root(j) /\ (j + 1) - 1 = j
         /\ ~Even(j) => j - 1 \in Kem!Index /\ Even(j - 1) /\ Root(j - 1) = Root(j) /\ (j - 1) + 1 = j
<1>1. j \in Int /\ 0 <= j /\ j <= 255
  BY IndexMeans
<1>2. CASE Even(j)
  <2>1. j + 1 \in Int /\ 0 <= j + 1 /\ j + 1 <= 255 /\ ~Even(j + 1) /\ (j + 1) - 1 = j
    BY <1>1, <1>2 DEF Even
  <2>2. (j + 1) \div 4 = j \div 4 /\ ((j + 1) % 4 < 2 <=> j % 4 < 2)
    BY <1>1, <1>2 DEF Even
  <2>3. Root(j + 1) = Root(j)
    BY <2>2 DEF Root
  <2> QED
    BY <1>2, <2>1, <2>3, IndexMeans
<1>3. CASE ~Even(j)
  <2>1. j - 1 \in Int /\ 0 <= j - 1 /\ j - 1 <= 255 /\ Even(j - 1) /\ (j - 1) + 1 = j
    BY <1>1, <1>3 DEF Even
  <2>2. (j - 1) \div 4 = j \div 4 /\ ((j - 1) % 4 < 2 <=> j % 4 < 2)
    BY <1>1, <1>3 DEF Even
  <2>3. Root(j - 1) = Root(j)
    BY <2>2 DEF Root
  <2> QED
    BY <1>3, <2>1, <2>3, IndexMeans
<1> QED
  BY <1>2, <1>3

\* One of the products of a pair.
LEMMA PairProduct ==
  ASSUME NEW z, Between(z, 1659), NEW a0, NEW a1, NEW b0, NEW b1,
         Between(a0, 4096), Between(a1, 4096), Between(b0, 4096), Between(b1, 4096)
  PROVE  LET lo == Kem!Wrap16(Kem!fqmul(Kem!fqmul(a1, b1), z) + Kem!fqmul(a0, b0))
             hi == Kem!Wrap16(Kem!fqmul(a0, b1) + Kem!fqmul(a1, b0))
         IN  /\ Cong(lo, Times(169, Lo(z, a0, a1, b0, b1))) /\ Between(lo, 7426)
             /\ Cong(hi, Times(169, Hi(a0, a1, b0, b1))) /\ Between(hi, 7426)
<1>1. /\ Between(z, 4096) /\ z \in Int /\ a0 \in Int /\ a1 \in Int /\ b0 \in Int /\ b1 \in Int
      /\ Short(a0) /\ Short(a1) /\ Short(b0) /\ Short(b1)
  BY DEF Between, Short
<1> DEFINE f == Kem!fqmul(a1, b1)
           g == Kem!fqmul(f, z)
           h == Kem!fqmul(a0, b0)
           k == Kem!fqmul(a0, b1)
           l == Kem!fqmul(a1, b0)
<1>2. Cong(f, 169 * (a1 * b1)) /\ Between(f, 3713)
  BY <1>1, FqmulIs
<1>3. Cong(h, 169 * (a0 * b0)) /\ Between(h, 3713)
  BY <1>1, FqmulIs
<1>4. Cong(k, 169 * (a0 * b1)) /\ Between(k, 3713)
  BY <1>1, FqmulIs
<1>5. Cong(l, 169 * (a1 * b0)) /\ Between(l, 3713)
  BY <1>1, FqmulIs
<1> HIDE DEF f
<1>6. Cong(g, 169 * (f * z)) /\ Between(g, 3713)
  <2>1. Short(f)
    BY <1>2 DEF Between, Short
  <2> QED
    BY <1>1, <2>1, FqmulIs
<1> DEFINE ab == a1 * b1
           u == f * z
           v == z * ab
           p00 == a0 * b0
           p01 == a0 * b1
           p10 == a1 * b0
<1>7. /\ ab \in Int /\ u \in Int /\ v \in Int /\ p00 \in Int /\ p01 \in Int /\ p10 \in Int /\ f \in Int
  BY <1>1, <1>2 DEF Between
<1>8. Cong(u, 169 * v)
  <2> DEFINE w == 169 * ab
  <2>1. w \in Int /\ Cong(f, w)
    BY <1>2, <1>7
  <2> HIDE DEF w
  <2>2. Cong(Times(z, f), Times(z, w))
    BY <1>1, <1>7, <2>1, TimesCong
  <2>3. z * f = u
    BY <1>1, <1>7
  <2>4. z * w = 169 * v
    <3>1. z * (169 * ab) = 169 * (z * ab)
      BY <1>1, <1>7
    <3> QED
      BY <3>1 DEF w
  <2> QED
    BY <2>2, <2>3, <2>4 DEF Times
<1>9. /\ Lo(z, a0, a1, b0, b1) = p00 + 169 * v
      /\ Hi(a0, a1, b0, b1) = p01 + p10
  BY DEF Lo, Hi
<1>10. /\ Cong(g, 169 * u) /\ Cong(h, 169 * p00) /\ Cong(k, 169 * p01) /\ Cong(l, 169 * p10)
       /\ Between(g, 3713) /\ Between(h, 3713) /\ Between(k, 3713) /\ Between(l, 3713)
  BY <1>3, <1>4, <1>5, <1>6
<1> HIDE DEF g, h, k, l, ab, u, v, p00, p01, p10
<1> DEFINE lo == g + h
           hi == k + l
<1>11. /\ Cong(lo, 169 * (p00 + 169 * v)) /\ Cong(hi, 169 * (p01 + p10))
       /\ Between(lo, 7426) /\ Between(hi, 7426) /\ Short(lo) /\ Short(hi)
  BY <1>7, <1>8, <1>10 DEF Cong, Between, Short
<1> HIDE DEF lo, hi
<1>12. Kem!Wrap16(lo) = lo /\ Kem!Wrap16(hi) = hi
  BY <1>11, Wrap16Fits
<1>13. /\ Cong(Kem!Wrap16(lo), Times(169, Lo(z, a0, a1, b0, b1))) /\ Between(Kem!Wrap16(lo), 7426)
       /\ Cong(Kem!Wrap16(hi), Times(169, Hi(a0, a1, b0, b1))) /\ Between(Kem!Wrap16(hi), 7426)
  BY <1>9, <1>11, <1>12 DEF Times
<1> QED
  BY <1>13 DEF lo, hi, f, g, h, k, l

LEMMA BasemulIs ==
  ASSUME NEW a, NEW b, Small(a), Small(b), NEW j \in Kem!Index
  PROVE  /\ Cong(Kem!poly_basemul_montgomery(a, b)[j], Times(169, Ring(a, b)[j]))
         /\ Between(Kem!poly_basemul_montgomery(a, b)[j], 7426)
<1> DEFINE n == Kem!poly_basemul_montgomery(a, b)[j]
           z == Root(j)
<1>1. n = Kem!basemul(a, b, z, j)
  BY DEF Kem!poly_basemul_montgomery, Root
<1>2. Between(z, 1659)
  BY RootRange
<1>3. \A i \in Kem!Index : Between(a[i], 4096) /\ Between(b[i], 4096)
  BY WithinMeans DEF Small
<1>4. j \in Int /\ j % 2 \in {0, 1}
  BY IndexMeans
<1>5. CASE Even(j)
  <2>1. /\ j - (j % 2) = j
        /\ n = Kem!Wrap16(Kem!fqmul(Kem!fqmul(a[j + 1], b[j + 1]), z) + Kem!fqmul(a[j], b[j]))
    BY <1>1, <1>4, <1>5 DEF Kem!basemul, Even
  <2>2. j + 1 \in Kem!Index
    BY <1>5, PairIndex
  <2>3. Ring(a, b)[j] = Lo(z, a[j], a[j + 1], b[j], b[j + 1])
    BY <1>5 DEF Ring
  <2> HIDE DEF n, z
  <2> DEFINE i == j + 1
  <2>4. Between(a[j], 4096) /\ Between(a[i], 4096) /\ Between(b[j], 4096) /\ Between(b[i], 4096)
    BY <1>3, <2>2
  <2>5. /\ Cong(n, Times(169, Lo(z, a[j], a[i], b[j], b[i])))
        /\ Between(n, 7426)
    BY <1>2, <2>1, <2>4, PairProduct
  <2>6. Cong(n, Times(169, Ring(a, b)[j])) /\ Between(n, 7426)
    BY <2>3, <2>5
  <2> QED
    BY <2>6 DEF n
<1>6. CASE ~Even(j)
  <2>1. /\ j - (j % 2) = j - 1 /\ (j - 1) + 1 = j /\ j # j - 1
    BY <1>4, <1>6 DEF Even
  <2>2. n = Kem!Wrap16(Kem!fqmul(a[j - 1], b[j]) + Kem!fqmul(a[j], b[j - 1]))
    BY <1>1, <2>1 DEF Kem!basemul
  <2>3. j - 1 \in Kem!Index
    BY <1>6, PairIndex
  <2>4. Ring(a, b)[j] = Hi(a[j - 1], a[j], b[j - 1], b[j])
    BY <1>6 DEF Ring
  <2> HIDE DEF n, z
  <2> DEFINE i == j - 1
  <2>5. Between(a[j], 4096) /\ Between(a[i], 4096) /\ Between(b[j], 4096) /\ Between(b[i], 4096)
    BY <1>3, <2>3
  <2>6. /\ Cong(n, Times(169, Hi(a[i], a[j], b[i], b[j])))
        /\ Between(n, 7426)
    BY <1>2, <2>2, <2>5, PairProduct
  <2>7. Cong(n, Times(169, Ring(a, b)[j])) /\ Between(n, 7426)
    BY <2>4, <2>6
  <2> QED
    BY <2>7 DEF n
<1> QED
  BY <1>5, <1>6

\* Ring is a product: it keeps residues, is distributive, and its factors can
\* be taken in any order.
LEMMA LoHiCong ==
  ASSUME NEW z, NEW a0, NEW a1, NEW b0, NEW b1, NEW c0, NEW c1, NEW d0, NEW d1,
         /\ z \in Int /\ a0 \in Int /\ a1 \in Int /\ b0 \in Int
         /\ b1 \in Int /\ c0 \in Int /\ c1 \in Int /\ d0 \in Int
         /\ d1 \in Int,
         Cong(a0, c0), Cong(a1, c1), Cong(b0, d0), Cong(b1, d1)
  PROVE  /\ Cong(Lo(z, a0, a1, b0, b1), Lo(z, c0, c1, d0, d1))
         /\ Cong(Hi(a0, a1, b0, b1), Hi(c0, c1, d0, d1))
<1> DEFINE a00 == a0 * b0   a01 == a0 * b1   a10 == a1 * b0   a11 == a1 * b1
           c00 == c0 * d0   c01 == c0 * d1   c10 == c1 * d0   c11 == c1 * d1
<1>1. /\ a00 \in Int /\ a01 \in Int /\ a10 \in Int /\ a11 \in Int
      /\ c00 \in Int /\ c01 \in Int /\ c10 \in Int /\ c11 \in Int
  OBVIOUS
<1>2. Cong(a00, c00) /\ Cong(a01, c01) /\ Cong(a10, c10) /\ Cong(a11, c11)
  BY CongProduct
<1>3. /\ Lo(z, a0, a1, b0, b1) = a00 + 169 * Times(z, a11) /\ Hi(a0, a1, b0, b1) = a01 + a10
      /\ Lo(z, c0, c1, d0, d1) = c00 + 169 * Times(z, c11) /\ Hi(c0, c1, d0, d1) = c01 + c10
  BY DEF Lo, Hi, Times
<1> HIDE DEF a00, a01, a10, a11, c00, c01, c10, c11
<1>4. Cong(Times(z, a11), Times(z, c11)) /\ Times(z, a11) \in Int /\ Times(z, c11) \in Int
  BY <1>1, <1>2, TimesCong, TimesInt
<1> QED
  BY <1>1, <1>2, <1>3, <1>4 DEF Cong

LEMMA LoSums ==
  ASSUME NEW z, NEW a0, NEW a1, NEW b0, NEW b1, NEW c0, NEW c1,
         /\ z \in Int /\ a0 \in Int /\ a1 \in Int /\ b0 \in Int
         /\ b1 \in Int /\ c0 \in Int /\ c1 \in Int
  PROVE  Lo(z, a0 + c0, a1 + c1, b0, b1) = Lo(z, a0, a1, b0, b1) + Lo(z, c0, c1, b0, b1)
BY DEF Lo

LEMMA HiSums ==
  ASSUME NEW a0, NEW a1, NEW b0, NEW b1, NEW c0, NEW c1,
         /\ a0 \in Int /\ a1 \in Int /\ b0 \in Int
         /\ b1 \in Int /\ c0 \in Int /\ c1 \in Int
  PROVE  Hi(a0 + c0, a1 + c1, b0, b1) = Hi(a0, a1, b0, b1) + Hi(c0, c1, b0, b1)
BY DEF Hi

LEMMA LoHiTurn ==
  ASSUME NEW z, NEW a0, NEW a1, NEW b0, NEW b1,
         /\ z \in Int /\ a0 \in Int /\ a1 \in Int /\ b0 \in Int
         /\ b1 \in Int
  PROVE  /\ Lo(z, a0, a1, b0, b1) = Lo(z, b0, b1, a0, a1) /\ Lo(z, a0, a1, b0, b1) \in Int
         /\ Hi(a0, a1, b0, b1) = Hi(b0, b1, a0, a1) /\ Hi(a0, a1, b0, b1) \in Int
BY DEF Lo, Hi

LEMMA LoHiRegroup ==
  ASSUME NEW z, NEW a0, NEW a1, NEW b0, NEW b1, NEW c0, NEW c1,
         /\ z \in Int /\ a0 \in Int /\ a1 \in Int /\ b0 \in Int
         /\ b1 \in Int /\ c0 \in Int /\ c1 \in Int
  PROVE  /\ Lo(z, Lo(z, a0, a1, b0, b1), Hi(a0, a1, b0, b1), c0, c1)
            = Lo(z, b0, b1, Lo(z, a0, a1, c0, c1), Hi(a0, a1, c0, c1))
         /\ Hi(Lo(z, a0, a1, b0, b1), Hi(a0, a1, b0, b1), c0, c1)
            = Hi(b0, b1, Lo(z, a0, a1, c0, c1), Hi(a0, a1, c0, c1))
BY DEF Lo, Hi

Same(a, b) == \A j \in Kem!Index : Cong(a[j], b[j])
PolySum(a, b) == [j \in Kem!Index |-> a[j] + b[j]]

LEMMA RootInt == \A j \in Kem!Index : Root(j) \in Int
BY RootRange DEF Between

LEMMA RingEven ==
  ASSUME NEW j \in Kem!Index, Even(j)
  PROVE  \A a, b : Ring(a, b)[j] = Lo(Root(j), a[j], a[j + 1], b[j], b[j + 1])
BY DEF Ring

LEMMA RingOdd ==
  ASSUME NEW j \in Kem!Index, ~Even(j)
  PROVE  \A a, b : Ring(a, b)[j] = Hi(a[j - 1], a[j], b[j - 1], b[j])
BY DEF Ring

LEMMA RingTurn ==
  ASSUME NEW a, NEW b, IntPoly(a), IntPoly(b), NEW j \in Kem!Index
  PROVE  Ring(a, b)[j] = Ring(b, a)[j] /\ Ring(a, b)[j] \in Int
<1> DEFINE z == Root(j)
<1>1. z \in Int
  BY RootInt
<1>2. CASE Even(j)
  <2> DEFINE i == j + 1
  <2>1. i \in Kem!Index
    BY <1>2, PairIndex
  <2>2. Ring(a, b)[j] = Lo(z, a[j], a[i], b[j], b[i]) /\ Ring(b, a)[j] = Lo(z, b[j], b[i], a[j], a[i])
    BY <1>2, RingEven
  <2> HIDE DEF i, z
  <2>3. a[j] \in Int /\ a[i] \in Int /\ b[j] \in Int /\ b[i] \in Int
    BY <2>1 DEF IntPoly
  <2> QED
    BY <1>1, <2>2, <2>3, LoHiTurn
<1>3. CASE ~Even(j)
  <2> DEFINE i == j - 1
  <2>1. i \in Kem!Index
    BY <1>3, PairIndex
  <2>2. Ring(a, b)[j] = Hi(a[i], a[j], b[i], b[j]) /\ Ring(b, a)[j] = Hi(b[i], b[j], a[i], a[j])
    BY <1>3, RingOdd
  <2> HIDE DEF i, z
  <2>3. a[j] \in Int /\ a[i] \in Int /\ b[j] \in Int /\ b[i] \in Int
    BY <2>1 DEF IntPoly
  <2> QED
    BY <1>1, <2>2, <2>3, LoHiTurn
<1> QED
  BY <1>2, <1>3

LEMMA RingInt ==
  ASSUME NEW a, NEW b, IntPoly(a), IntPoly(b) PROVE IntPoly(Ring(a, b))
BY RingTurn DEF IntPoly

LEMMA RingSame ==
  ASSUME NEW a, NEW b, NEW c, IntPoly(a), IntPoly(b), IntPoly(c), Same(a, c)
  PROVE  Same(Ring(a, b), Ring(c, b))
<1> SUFFICES ASSUME NEW j \in Kem!Index PROVE Cong(Ring(a, b)[j], Ring(c, b)[j])
  BY DEF Same
<1> DEFINE z == Root(j)
<1>1. z \in Int
  BY RootInt
<1>2. CASE Even(j)
  <2> DEFINE i == j + 1
  <2>1. i \in Kem!Index
    BY <1>2, PairIndex
  <2>2. Ring(a, b)[j] = Lo(z, a[j], a[i], b[j], b[i]) /\ Ring(c, b)[j] = Lo(z, c[j], c[i], b[j], b[i])
    BY <1>2, RingEven
  <2> HIDE DEF i, z
  <2>3. /\ a[j] \in Int /\ a[i] \in Int /\ b[j] \in Int /\ b[i] \in Int /\ c[j] \in Int /\ c[i] \in Int
        /\ Cong(a[j], c[j]) /\ Cong(a[i], c[i]) /\ Cong(b[j], b[j]) /\ Cong(b[i], b[i])
    BY <2>1, CongSame DEF IntPoly, Same
  <2> QED
    BY <1>1, <2>2, <2>3, LoHiCong
<1>3. CASE ~Even(j)
  <2> DEFINE i == j - 1
  <2>1. i \in Kem!Index
    BY <1>3, PairIndex
  <2>2. Ring(a, b)[j] = Hi(a[i], a[j], b[i], b[j]) /\ Ring(c, b)[j] = Hi(c[i], c[j], b[i], b[j])
    BY <1>3, RingOdd
  <2> HIDE DEF i, z
  <2>3. /\ a[j] \in Int /\ a[i] \in Int /\ b[j] \in Int /\ b[i] \in Int /\ c[j] \in Int /\ c[i] \in Int
        /\ Cong(a[j], c[j]) /\ Cong(a[i], c[i]) /\ Cong(b[j], b[j]) /\ Cong(b[i], b[i])
    BY <2>1, CongSame DEF IntPoly, Same
  <2> QED
    BY <1>1, <2>2, <2>3, LoHiCong
<1> QED
  BY <1>2, <1>3

LEMMA PolySumInt ==
  ASSUME NEW a, NEW b, IntPoly(a), IntPoly(b) PROVE IntPoly(PolySum(a, b))
BY DEF IntPoly, PolySum

LEMMA RingSum ==
  ASSUME NEW a, NEW b, NEW c, IntPoly(a), IntPoly(b), IntPoly(c), NEW j \in Kem!Index
  PROVE  Ring(PolySum(a, c), b)[j] = Ring(a, b)[j] + Ring(c, b)[j]
<1> DEFINE z == Root(j)
           d == PolySum(a, c)
<1>1. z \in Int
  BY RootInt
<1>2. \A i \in Kem!Index : d[i] = a[i] + c[i]
  BY DEF PolySum
<1> HIDE DEF d
<1>3. CASE Even(j)
  <2> DEFINE i == j + 1
  <2>1. i \in Kem!Index
    BY <1>3, PairIndex
  <2>2. /\ Ring(a, b)[j] = Lo(z, a[j], a[i], b[j], b[i]) /\ Ring(c, b)[j] = Lo(z, c[j], c[i], b[j], b[i])
        /\ Ring(d, b)[j] = Lo(z, d[j], d[i], b[j], b[i])
    BY <1>3, RingEven
  <2>3. d[j] = a[j] + c[j] /\ d[i] = a[i] + c[i]
    BY <1>2, <2>1
  <2>4. Ring(d, b)[j] = Lo(z, a[j] + c[j], a[i] + c[i], b[j], b[i])
    BY <2>2, <2>3
  <2> HIDE DEF i, z
  <2>5. /\ a[j] \in Int /\ a[i] \in Int /\ b[j] \in Int /\ b[i] \in Int /\ c[j] \in Int /\ c[i] \in Int
    BY <2>1 DEF IntPoly
  <2>6. Lo(z, a[j] + c[j], a[i] + c[i], b[j], b[i])
          = Lo(z, a[j], a[i], b[j], b[i]) + Lo(z, c[j], c[i], b[j], b[i])
    BY <1>1, <2>5, LoSums
  <2>7. Ring(d, b)[j] = Ring(a, b)[j] + Ring(c, b)[j]
    BY <2>2, <2>4, <2>6
  <2> QED
    BY <2>7 DEF d
<1>4. CASE ~Even(j)
  <2> DEFINE i == j - 1
  <2>1. i \in Kem!Index
    BY <1>4, PairIndex
  <2>2. /\ Ring(a, b)[j] = Hi(a[i], a[j], b[i], b[j]) /\ Ring(c, b)[j] = Hi(c[i], c[j], b[i], b[j])
        /\ Ring(d, b)[j] = Hi(d[i], d[j], b[i], b[j])
    BY <1>4, RingOdd
  <2>3. d[j] = a[j] + c[j] /\ d[i] = a[i] + c[i]
    BY <1>2, <2>1
  <2>4. Ring(d, b)[j] = Hi(a[i] + c[i], a[j] + c[j], b[i], b[j])
    BY <2>2, <2>3
  <2> HIDE DEF i, z
  <2>5. /\ a[j] \in Int /\ a[i] \in Int /\ b[j] \in Int /\ b[i] \in Int /\ c[j] \in Int /\ c[i] \in Int
    BY <2>1 DEF IntPoly
  <2>6. Hi(a[i] + c[i], a[j] + c[j], b[i], b[j])
          = Hi(a[i], a[j], b[i], b[j]) + Hi(c[i], c[j], b[i], b[j])
    BY <2>5, HiSums
  <2>7. Ring(d, b)[j] = Ring(a, b)[j] + Ring(c, b)[j]
    BY <2>2, <2>4, <2>6
  <2> QED
    BY <2>7 DEF d
<1> QED
  BY <1>3, <1>4

LEMMA RingRegroup ==
  ASSUME NEW a, NEW b, NEW c, IntPoly(a), IntPoly(b), IntPoly(c), NEW j \in Kem!Index
  PROVE  Ring(Ring(a, b), c)[j] = Ring(b, Ring(a, c))[j]
<1> DEFINE z == Root(j)
<1>1. z \in Int
  BY RootInt
<1>2. CASE Even(j)
  <2> DEFINE i == j + 1
  <2>1. i \in Kem!Index /\ ~Even(i) /\ Root(i) = z /\ i - 1 = j
    BY <1>2, PairIndex
  <2>2. \A p, q : Ring(p, q)[j] = Lo(z, p[j], p[i], q[j], q[i])
    BY <1>2, RingEven
  <2>3. \A p, q : Ring(p, q)[i] = Hi(p[j], p[i], q[j], q[i])
    BY <2>1, RingOdd
  <2> HIDE DEF i, z
  <2>4. /\ a[j] \in Int /\ a[i] \in Int /\ b[j] \in Int /\ b[i] \in Int /\ c[j] \in Int /\ c[i] \in Int
    BY <2>1 DEF IntPoly
  <2>5. Lo(z, Lo(z, a[j], a[i], b[j], b[i]), Hi(a[j], a[i], b[j], b[i]), c[j], c[i])
          = Lo(z, b[j], b[i], Lo(z, a[j], a[i], c[j], c[i]), Hi(a[j], a[i], c[j], c[i]))
    BY <1>1, <2>4, LoHiRegroup
  <2> QED
    BY <2>2, <2>3, <2>5
<1>3. CASE ~Even(j)
  <2> DEFINE i == j - 1
  <2>1. i \in Kem!Index /\ Even(i) /\ Root(i) = z /\ i + 1 = j
    BY <1>3, PairIndex
  <2>2. \A p, q : Ring(p, q)[i] = Lo(z, p[i], p[j], q[i], q[j])
    BY <2>1, RingEven
  <2>3. \A p, q : Ring(p, q)[j] = Hi(p[i], p[j], q[i], q[j])
    BY <1>3, RingOdd
  <2> HIDE DEF i, z
  <2>4. /\ a[j] \in Int /\ a[i] \in Int /\ b[j] \in Int /\ b[i] \in Int /\ c[j] \in Int /\ c[i] \in Int
    BY <2>1 DEF IntPoly
  <2>5. Hi(Lo(z, a[i], a[j], b[i], b[j]), Hi(a[i], a[j], b[i], b[j]), c[i], c[j])
          = Hi(b[i], b[j], Lo(z, a[i], a[j], c[i], c[j]), Hi(a[i], a[j], c[i], c[j]))
    BY <1>1, <2>4, LoHiRegroup
  <2> QED
    BY <2>2, <2>3, <2>5
<1> QED
  BY <1>2, <1>3

LEMMA SmallIsIntPoly == ASSUME NEW p, Small(p) PROVE IntPoly(p)
BY WithinIsInt DEF Small

Three(x, y, e) == PolySum(PolySum(x, y), e)

LEMMA RingThree ==
  ASSUME NEW t, NEW x, NEW y, NEW e, NEW b,
         IntPoly(t), IntPoly(x), IntPoly(y), IntPoly(e), IntPoly(b), Same(t, Three(x, y, e)),
         NEW j \in Kem!Index
  PROVE  /\ Cong(Ring(t, b)[j], Ring(x, b)[j] + Ring(y, b)[j] + Ring(e, b)[j])
         /\ Cong(Ring(b, t)[j], Ring(b, x)[j] + Ring(b, y)[j] + Ring(b, e)[j])
<1> DEFINE p == PolySum(x, y)
           q == Three(x, y, e)
<1>1. IntPoly(p) /\ IntPoly(q)
  BY PolySumInt DEF Three
<1>2. Ring(q, b)[j] = Ring(p, b)[j] + Ring(e, b)[j] /\ Ring(p, b)[j] = Ring(x, b)[j] + Ring(y, b)[j]
  BY <1>1, RingSum DEF Three
<1>3. Same(Ring(t, b), Ring(q, b))
  BY <1>1, RingSame
<1> HIDE DEF p, q
<1>4. Cong(Ring(t, b)[j], Ring(q, b)[j])
  BY <1>3 DEF Same
<1>5. Cong(Ring(t, b)[j], Ring(x, b)[j] + Ring(y, b)[j] + Ring(e, b)[j])
  BY <1>2, <1>4
<1>6. /\ Ring(b, t)[j] = Ring(t, b)[j] /\ Ring(b, x)[j] = Ring(x, b)[j]
      /\ Ring(b, y)[j] = Ring(y, b)[j] /\ Ring(b, e)[j] = Ring(e, b)[j]
  BY RingTurn
<1> QED
  BY <1>5, <1>6

VecSmall(v) == Small(v[0]) /\ Small(v[1])

\* The product of two vectors.
LEMMA AccIs ==
  ASSUME NEW v, NEW w, VecSmall(v), VecSmall(w), NEW j \in Kem!Index
  PROVE  /\ Cong(Kem!polyvec_basemul_acc_montgomery(v, w)[j],
                 Times(169, Ring(v[0], w[0])[j] + Ring(v[1], w[1])[j]))
         /\ Kem!polyvec_basemul_acc_montgomery(v, w)[j] \in Int
<1> DEFINE a == Kem!poly_basemul_montgomery(v[0], w[0])
           b == Kem!poly_basemul_montgomery(v[1], w[1])
           s == Kem!poly_add(a, b)
           x == Ring(v[0], w[0])[j]
           y == Ring(v[1], w[1])[j]
<1>1. Kem!polyvec_basemul_acc_montgomery(v, w) = Kem!poly_reduce(s)
  BY DEF Kem!polyvec_basemul_acc_montgomery
<1>2. /\ Cong(a[j], Times(169, x)) /\ Between(a[j], 7426)
      /\ Cong(b[j], Times(169, y)) /\ Between(b[j], 7426)
  BY BasemulIs DEF VecSmall
<1>3. x \in Int /\ y \in Int
  BY SmallIsIntPoly, RingTurn DEF VecSmall
<1>4. IntPoly(a) /\ IntPoly(b)
  <2>1. \A i \in Kem!Index : Between(a[i], 7426) /\ Between(b[i], 7426)
    BY BasemulIs DEF VecSmall
  <2> QED
    BY <2>1 DEF IntPoly, Between
<1>5. ShortPoly(s)
  BY <1>4, AddShort
<1>6. s[j] = Kem!Wrap16(a[j] + b[j])
  BY DEF Kem!poly_add
<1> HIDE DEF a, b, s, x, y
<1>7. Short(a[j] + b[j])
  BY <1>2 DEF Between, Short
<1>8. s[j] = a[j] + b[j]
  BY <1>6, <1>7, Wrap16Fits
<1>9. Cong(Kem!poly_reduce(s)[j], s[j]) /\ Kem!poly_reduce(s)[j] \in Int
  BY <1>5, ReduceCong
<1>10. Cong(Kem!poly_reduce(s)[j], Times(169, x + y))
  BY <1>2, <1>3, <1>8, <1>9 DEF Cong, Times, Between
<1> QED
  BY <1>1, <1>9, <1>10 DEF x, y

\* The matrix cancels: what the key and the secret of the sender make of it,
\* the secret of the key and the first part of the ciphertext make as well.
LEMMA MatrixCancels ==
  ASSUME NEW A, NEW T, NEW S, NEW E, NEW R, NEW U, NEW D,
         VecSmall(A[0]), VecSmall(A[1]), VecSmall(T), VecSmall(S), VecSmall(E),
         VecSmall(R), VecSmall(U), VecSmall(D),
         \A i \in {0, 1} :
            /\ Same(T[i], Three(Ring(A[i][0], S[0]), Ring(A[i][1], S[1]), E[i]))
            /\ Same(U[i], Three(Ring(A[0][i], R[0]), Ring(A[1][i], R[1]), D[i])),
         NEW j \in Kem!Index
  PROVE  Evens(Kem!polyvec_basemul_acc_montgomery(T, R)[j],
               Kem!polyvec_basemul_acc_montgomery(S, D)[j],
               Kem!polyvec_basemul_acc_montgomery(S, U)[j],
               Kem!polyvec_basemul_acc_montgomery(E, R)[j])
<1>1. \A i \in {0, 1} :
        /\ IntPoly(T[i]) /\ IntPoly(S[i]) /\ IntPoly(E[i]) /\ IntPoly(R[i]) /\ IntPoly(U[i])
        /\ IntPoly(D[i]) /\ \A k \in {0, 1} : IntPoly(A[i][k])
  BY SmallIsIntPoly DEF VecSmall
<1>2. \A i, k \in {0, 1} : /\ IntPoly(Ring(A[i][k], S[k])) /\ IntPoly(Ring(A[i][k], R[i]))
  BY <1>1, RingInt
<1> DEFINE g(i, k) == Ring(Ring(A[i][k], S[k]), R[i])[j]
           e(i) == Ring(E[i], R[i])[j]
           d(i) == Ring(S[i], D[i])[j]
           t(i) == Ring(T[i], R[i])[j]
           u(i) == Ring(S[i], U[i])[j]
<1>3. ASSUME NEW i \in {0, 1} PROVE Cong(t(i), g(i, 0) + g(i, 1) + e(i))
  <2>1. /\ IntPoly(T[i]) /\ IntPoly(Ring(A[i][0], S[0])) /\ IntPoly(Ring(A[i][1], S[1]))
        /\ IntPoly(E[i]) /\ IntPoly(R[i])
        /\ Same(T[i], Three(Ring(A[i][0], S[0]), Ring(A[i][1], S[1]), E[i]))
    BY <1>1, <1>2
  <2> QED
    BY <2>1, RingThree
<1>4. ASSUME NEW i \in {0, 1} PROVE Cong(u(i), g(0, i) + g(1, i) + d(i))
  <2>1. /\ IntPoly(U[i]) /\ IntPoly(Ring(A[0][i], R[0])) /\ IntPoly(Ring(A[1][i], R[1]))
        /\ IntPoly(D[i]) /\ IntPoly(S[i])
        /\ Same(U[i], Three(Ring(A[0][i], R[0]), Ring(A[1][i], R[1]), D[i]))
    BY <1>1, <1>2
  <2>2. Cong(u(i), Ring(S[i], Ring(A[0][i], R[0]))[j] + Ring(S[i], Ring(A[1][i], R[1]))[j] + d(i))
    BY <2>1, RingThree
  <2>3. /\ Ring(S[i], Ring(A[0][i], R[0]))[j] = g(0, i)
        /\ Ring(S[i], Ring(A[1][i], R[1]))[j] = g(1, i)
    BY <1>1, RingRegroup
  <2> QED
    BY <2>2, <2>3
<1>5. \A i \in {0, 1} : /\ e(i) \in Int /\ d(i) \in Int /\ t(i) \in Int /\ u(i) \in Int
                        /\ g(i, 0) \in Int /\ g(i, 1) \in Int
  BY <1>1, <1>2, RingTurn
<1> DEFINE tr == Kem!polyvec_basemul_acc_montgomery(T, R)[j]
           sd == Kem!polyvec_basemul_acc_montgomery(S, D)[j]
           su == Kem!polyvec_basemul_acc_montgomery(S, U)[j]
           er == Kem!polyvec_basemul_acc_montgomery(E, R)[j]
<1>6. /\ Cong(tr, Times(169, t(0) + t(1))) /\ tr \in Int
      /\ Cong(sd, Times(169, d(0) + d(1))) /\ sd \in Int
      /\ Cong(su, Times(169, u(0) + u(1))) /\ su \in Int
      /\ Cong(er, Times(169, e(0) + e(1))) /\ er \in Int
  BY AccIs
<1> DEFINE t0 == t(0)  t1 == t(1)  u0 == u(0)  u1 == u(1)  d0 == d(0)  d1 == d(1)  e0 == e(0)  e1 == e(1)
           g00 == g(0, 0)  g01 == g(0, 1)  g10 == g(1, 0)  g11 == g(1, 1)
<1>7. /\ t0 \in Int /\ t1 \in Int /\ u0 \in Int /\ u1 \in Int /\ d0 \in Int /\ d1 \in Int
      /\ e0 \in Int /\ e1 \in Int /\ g00 \in Int /\ g01 \in Int /\ g10 \in Int /\ g11 \in Int
  BY <1>5
<1>8. /\ Cong(t0, g00 + g01 + e0) /\ Cong(t1, g10 + g11 + e1)
      /\ Cong(u0, g00 + g10 + d0) /\ Cong(u1, g01 + g11 + d1)
  BY <1>3, <1>4
<1>9. /\ Cong(tr, 169 * (t0 + t1)) /\ Cong(sd, 169 * (d0 + d1))
      /\ Cong(su, 169 * (u0 + u1)) /\ Cong(er, 169 * (e0 + e1))
      /\ tr \in Int /\ sd \in Int /\ su \in Int /\ er \in Int
  BY <1>6 DEF Times
<1> HIDE DEF t0, t1, u0, u1, d0, d1, e0, e1, g00, g01, g10, g11, tr, sd, su, er
<1>10. Evens(tr, sd, su, er)
  BY <1>7, <1>8, <1>9 DEF Evens, Cong
<1> QED
  BY <1>10 DEF tr, sd, su, er

-----------------------------------------------------------------------------
(* Keys come out of their bytes as they went in, and both keys and the     *)
(* first part of a ciphertext are products in the ring.                    *)

LEMMA SameFollows ==
  ASSUME NEW a, NEW b, NEW c, IntPoly(a), IntPoly(b), IntPoly(c), Same(a, b), Same(b, c)
  PROVE  Same(a, c)
<1> SUFFICES ASSUME NEW j \in Kem!Index PROVE Cong(a[j], c[j])
  BY DEF Same
<1>1. a[j] \in Int /\ b[j] \in Int /\ c[j] \in Int /\ Cong(a[j], b[j]) /\ Cong(b[j], c[j])
  BY DEF IntPoly, Same
<1> QED
  BY <1>1, CongFollows

\* Two coefficients in three bytes, and back.
LEMMA TripleReturns ==
  ASSUME NEW p \in Int, 0 <= p, p <= 3328, NEW q \in Int, 0 <= q, q <= 3328
  PROVE  /\ ((p % 256) + 256 * (p \div 256 + ((q * 16) % 256))) % 4096 = p
         /\ (p \div 256 + ((q * 16) % 256)) \div 16 + 16 * (q \div 16) = q
<1> DEFINE p0 == p % 256   p1 == p \div 256   q0 == q % 16   q1 == q \div 16
<1>1. /\ p0 \in Int /\ p1 \in Int /\ p = 256 * p1 + p0 /\ 0 <= p0 /\ p0 <= 255 /\ 0 <= p1 /\ p1 <= 15
      /\ q0 \in Int /\ q1 \in Int /\ q = 16 * q1 + q0 /\ 0 <= q0 /\ q0 <= 15 /\ 0 <= q1 /\ q1 <= 255
  OBVIOUS
<1> HIDE DEF p0, p1, q0, q1
<1>2. (q * 16) % 256 = 16 * q0
  BY <1>1
<1>3. (p0 + 256 * (p1 + 16 * q0)) % 4096 = p
  BY <1>1
<1>4. (p1 + 16 * q0) \div 16 = q0
  BY <1>1
<1> QED
  BY <1>1, <1>2, <1>3, <1>4 DEF p0, p1, q1

LEMMA PackingReturns ==
  ASSUME NEW a, Kem!Within(a, 1664)
  PROVE  LET b == Kem!poly_frombytes(Kem!poly_tobytes(a))
         IN  Same(b, a) /\ Small(b)
<1> DEFINE s == Kem!poly_tobytes(a)
           b == Kem!poly_frombytes(s)
<1>1. ASSUME NEW j \in Kem!Index PROVE Cong(b[j], a[j]) /\ Between(b[j], 4096)
  <2> DEFINE k == j \div 2
             p == Kem!Positive(a[2 * k])
             q == Kem!Positive(a[2 * k + 1])
  <2>1. j \in Int /\ 0 <= j /\ j <= 255 /\ k \in Int /\ 0 <= k /\ k <= 127
        /\ 2 * k \in Kem!Index /\ 2 * k + 1 \in Kem!Index
    BY IndexMeans
  <2>2. /\ 3 * k \in 0..383 /\ 3 * k + 1 \in 0..383 /\ 3 * k + 2 \in 0..383
        /\ (3 * k) \div 3 = k /\ (3 * k + 1) \div 3 = k /\ (3 * k + 2) \div 3 = k
        /\ (3 * k) % 3 = 0 /\ (3 * k + 1) % 3 = 1 /\ (3 * k + 2) % 3 = 2
    BY <2>1
  <2>3. /\ s[3 * k] = p % 256
        /\ s[3 * k + 1] = p \div 256 + ((q * 16) % 256)
        /\ s[3 * k + 2] = q \div 16
    BY <2>2 DEF Kem!poly_tobytes
  <2>4. b[j] = IF j % 2 = 0 THEN (s[3 * k] + 256 * s[3 * k + 1]) % 4096
               ELSE s[3 * k + 1] \div 16 + 16 * s[3 * k + 2]
    BY DEF Kem!poly_frombytes
  <2>5. Between(a[2 * k], 1664) /\ Between(a[2 * k + 1], 1664)
    BY <2>1, WithinMeans
  <2>6. /\ p \in Int /\ 0 <= p /\ p <= 3328 /\ Cong(p, a[2 * k])
        /\ q \in Int /\ 0 <= q /\ q <= 3328 /\ Cong(q, a[2 * k + 1])
    BY <2>5 DEF Kem!Positive, Kem!Q, Between, Cong
  <2> HIDE DEF s, b, p, q
  <2>7. CASE j % 2 = 0
    <3>1. 2 * k = j
      BY <2>1, <2>7
    <3>2. b[j] = p
      BY <2>3, <2>4, <2>6, <2>7, TripleReturns
    <3> QED
      BY <2>6, <3>1, <3>2 DEF Between
  <2>8. CASE j % 2 # 0
    <3>1. 2 * k + 1 = j
      BY <2>1, <2>8
    <3>2. b[j] = q
      BY <2>3, <2>4, <2>6, <2>8, TripleReturns
    <3> QED
      BY <2>6, <3>1, <3>2 DEF Between
  <2> QED
    BY <2>7, <2>8
<1> QED
  BY <1>1, WithinMeans DEF Same, Small

\* poly_tomont puts back what two products have lost.
LEMMA TomontUndoes ==
  ASSUME NEW r \in Int, NEW x \in Int, NEW m \in Int,
         Cong(x, Times(169, r)), Cong(m, Times(169, Times(1353, x)))
  PROVE  Cong(m, r)
<1> DEFINE c == 169 * 1353
           y == Times(169, r)
           z == Times(c, x)
           w == Times(c, y)
<1>1. c \in Int
  OBVIOUS
<1>2. z = Times(169, Times(1353, x)) /\ y \in Int /\ z \in Int /\ w \in Int
  BY DEF Times
<1>3. w = r + 3329 * (11608 * r)
  BY DEF Times
<1>4. Cong(m, z) /\ Cong(x, y)
  BY <1>2
<1> HIDE DEF c, y
<1>5. Cong(z, w)
  BY <1>1, <1>2, <1>4, TimesCong
<1> HIDE DEF z, w
<1> DEFINE n == 11608 * r
<1>6. n \in Int /\ w = r + 3329 * n
  BY <1>3
<1> HIDE DEF n
<1> QED
  BY <1>2, <1>4, <1>5, <1>6 DEF Cong

\* The public key, before it is packed.
LEMMA KeyIsProduct ==
  ASSUME NEW a, NEW s, NEW e, VecSmall(a), VecSmall(s), Kem!Within(e, 1664)
  PROVE  LET t == Kem!poly_reduce(Kem!poly_add(
                     Kem!poly_tomont(Kem!polyvec_basemul_acc_montgomery(a, s)), e))
         IN  Same(t, Three(Ring(a[0], s[0]), Ring(a[1], s[1]), e)) /\ Kem!Within(t, 1664)
<1> DEFINE x == Kem!polyvec_basemul_acc_montgomery(a, s)
           m == Kem!poly_tomont(x)
           n == Kem!poly_add(m, e)
           t == Kem!poly_reduce(n)
<1>1. IntVec(a) /\ IntVec(s) /\ IntPoly(e)
  BY SmallIsIntPoly, WithinIsInt DEF IntVec, VecSmall, Kem!Vec
<1>2. Kem!Within(x, 1664)
  BY <1>1, AccWithin
<1>3. ShortPoly(m) /\ ShortPoly(n) /\ Kem!Within(t, 1664)
  BY <1>1, <1>2, WithinIsInt, TomontShort, ShortIsInt, AddShort, ReduceWithin
<1>4. ASSUME NEW j \in Kem!Index
      PROVE  Cong(t[j], Three(Ring(a[0], s[0]), Ring(a[1], s[1]), e)[j])
  <2> DEFINE p == Ring(a[0], s[0])[j]
             q == Ring(a[1], s[1])[j]
             xj == x[j]
             mj == m[j]
             nj == n[j]
             ej == e[j]
  <2>1. Cong(xj, Times(169, p + q))
    BY AccIs
  <2>2. p \in Int /\ q \in Int /\ Between(xj, 1664) /\ Between(ej, 1664)
    BY <1>2, SmallIsIntPoly, RingTurn, WithinMeans DEF VecSmall
  <2>3. mj = Kem!montgomery_reduce(xj * 1353) /\ nj = Kem!Wrap16(mj + ej)
    BY DEF Kem!poly_tomont, Kem!poly_add
  <2>4. Cong(t[j], nj) /\ t[j] \in Int /\ nj \in Int
    BY <1>3, ReduceCong
  <2>5. Three(Ring(a[0], s[0]), Ring(a[1], s[1]), e)[j] = p + q + ej
    BY DEF Three, PolySum
  <2> HIDE DEF p, q, xj, mj, nj, ej, t, n, m, x
  <2> DEFINE y == xj * 1353
             c == 40
  <2>6. c \in Nat /\ c <= 30000 /\ Between(y, 65536 * c) /\ y \in Int
    BY <2>2 DEF Between
  <2>7. Cong(Kem!montgomery_reduce(y), 169 * y) /\ Between(Kem!montgomery_reduce(y), c + 1665)
    <3> HIDE DEF y, c
    <3> QED
      BY <2>6, MontgomeryIs
  <2>8. Cong(mj, 169 * y) /\ Between(mj, 1705)
    BY <2>3, <2>7
  <2>9. Short(mj + ej)
    BY <2>2, <2>8 DEF Between, Short
  <2> DEFINE sum == mj + ej
  <2>10. nj = sum
    <3> HIDE DEF sum
    <3> QED
      BY <2>3, <2>9, Wrap16Fits DEF sum
  <2>11. Cong(t[j], p + q + ej)
    <3>1. Cong(xj, 169 * (p + q)) /\ xj \in Int /\ ej \in Int /\ mj \in Int
      BY <2>1, <2>2, <2>8 DEF Times, Between
    <3> DEFINE pq == p + q
    <3>2. Cong(xj, Times(169, pq)) /\ pq \in Int
      BY <2>1, <2>2
    <3>3. Cong(mj, Times(169, Times(1353, xj)))
      <4>1. y = Times(1353, xj)
        BY <3>1 DEF Times
      <4> QED
        BY <2>8, <4>1 DEF Times
    <3> HIDE DEF pq, y, sum
    <3>4. Cong(mj, pq)
      BY <3>1, <3>2, <3>3, TomontUndoes
    <3>5. Cong(t[j], pq + ej)
      BY <2>4, <2>10, <3>1, <3>2, <3>4 DEF Cong, sum
    <3> QED
      BY <3>5 DEF pq
  <2> QED
    BY <2>5, <2>11
<1> QED
  BY <1>3, <1>4 DEF Same

\* The transform of a polynomial of the ciphertext, which is the product with
\* the transposed matrix and what is added to it.
LEMMA CiphertextIsProduct ==
  ASSUME NEW a, NEW r, NEW u, NEW d, VecSmall(a), VecSmall(r), Kem!Within(u, 3329),
         Kem!Within(d, 6657),
         \A j \in Kem!Index :
            Sums(u[j], Kem!invntt(Kem!polyvec_basemul_acc_montgomery(a, r))[j], d[j])
  PROVE  /\ Same(Kem!poly_ntt(u), Three(Ring(a[0], r[0]), Ring(a[1], r[1]), Kem!poly_ntt(d)))
         /\ Small(Kem!poly_ntt(u)) /\ Small(Kem!poly_ntt(d))
<1> DEFINE x == Kem!polyvec_basemul_acc_montgomery(a, r)
           w == Kem!invntt(x)
<1>1. IntVec(a) /\ IntVec(r)
  BY SmallIsIntPoly DEF IntVec, VecSmall, Kem!Vec
<1>2. Kem!Within(x, 1664)
  BY <1>1, AccWithin
<1>3. Narrow(x) /\ \A j \in Kem!Index : Between(x[j], 1664)
  <2>1. \A j \in Kem!Index : Between(x[j], 1664)
    BY <1>2, WithinMeans
  <2>2. \A j \in Kem!Index : Between(x[j], 16000)
    BY <2>1 DEF Between
  <2> QED
    BY <2>1, <2>2, WithinMeans DEF Narrow
<1>4. Kem!Within(w, 3328)
  BY <1>2, WithinIsInt, InvNttWithin
<1>5. \A j \in Kem!Index : Sums(u[j], w[j], d[j])
  OBVIOUS
<1>6. \A j \in Kem!Index : Cong(x[j], Times(169, Ring(a[0], r[0])[j] + Ring(a[1], r[1])[j]))
  BY AccIs
<1>7. \A j \in Kem!Index : Cong(Kem!poly_ntt(w)[j], Times(Factor, x[j]))
  BY <1>3, NttOfInvntt
<1> HIDE DEF x, w
<1>8. \A j \in Kem!Index : Between(u[j], 3329) /\ Between(w[j], 3328)
  BY <1>4, WithinMeans
<1>9. \A j \in Kem!Index : Between(u[j], 6657) /\ Between(w[j], 6657)
  BY <1>8 DEF Between
<1>10. Kem!Within(u, 6657) /\ Kem!Within(w, 6657) /\ Kem!Within(d, 6657)
  BY <1>9, WithinMeans
<1>11. \A j \in Kem!Index : Sums(Kem!poly_ntt(u)[j], Kem!poly_ntt(w)[j], Kem!poly_ntt(d)[j])
  BY <1>5, <1>10, NttSums
<1>12. Kem!Within(Kem!poly_ntt(u), 1664) /\ Kem!Within(Kem!poly_ntt(w), 1664) /\ Kem!Within(Kem!poly_ntt(d), 1664)
  <2>1. ASSUME NEW p, Kem!Within(p, 6657) PROVE Kem!Within(Kem!poly_ntt(p), 1664)
    <3>1. \A j \in Kem!Index : Between(p[j], 6657)
      BY <2>1, WithinMeans
    <3>2. ShortPoly(p)
      BY <3>1 DEF Between, Short, ShortPoly
    <3> QED
      BY <3>2, NttWithin
  <2> QED
    BY <1>10, <2>1
<1>13. Small(Kem!poly_ntt(u)) /\ Small(Kem!poly_ntt(d))
  <2>1. \A j \in Kem!Index : Between(Kem!poly_ntt(u)[j], 1664) /\ Between(Kem!poly_ntt(d)[j], 1664)
    BY <1>12, WithinMeans
  <2>2. \A j \in Kem!Index : Between(Kem!poly_ntt(u)[j], 4096) /\ Between(Kem!poly_ntt(d)[j], 4096)
    BY <2>1 DEF Between
  <2> QED
    BY <2>2, WithinMeans DEF Small
<1>14. ASSUME NEW j \in Kem!Index
       PROVE  Cong(Kem!poly_ntt(u)[j], Three(Ring(a[0], r[0]), Ring(a[1], r[1]), Kem!poly_ntt(d))[j])
  <2> DEFINE p == Ring(a[0], r[0])[j]
             q == Ring(a[1], r[1])[j]
             nu == Kem!poly_ntt(u)[j]
             nw == Kem!poly_ntt(w)[j]
             nd == Kem!poly_ntt(d)[j]
             xj == x[j]
  <2>1. p \in Int /\ q \in Int
    BY SmallIsIntPoly, RingTurn DEF VecSmall
  <2>2. nu \in Int /\ nw \in Int /\ nd \in Int /\ xj \in Int
    BY <1>3, <1>12, WithinIsInt DEF IntPoly, Between
  <2>3. Cong(xj, Times(169, p + q)) /\ Cong(nw, Times(Factor, xj)) /\ Sums(nu, nw, nd)
    BY <1>6, <1>7, <1>11
  <2>4. Three(Ring(a[0], r[0]), Ring(a[1], r[1]), Kem!poly_ntt(d))[j] = p + q + nd
    BY DEF Three, PolySum
  <2> HIDE DEF p, q, nu, nw, nd, xj
  <2>5. Cong(nu, p + q + nd)
    BY <2>1, <2>2, <2>3 DEF Cong, Times, Factor, Sums
  <2> QED
    BY <2>4, <2>5 DEF nu
<1> QED
  BY <1>13, <1>14 DEF Same

-----------------------------------------------------------------------------
(* Decryption returns the message up to the noise: the matrix, the         *)
(* transforms and the packing of the keys leave no trace.                  *)

LEMMA AccNarrow ==
  ASSUME NEW v, NEW w, VecSmall(v), VecSmall(w)
  PROVE  /\ Kem!Within(Kem!polyvec_basemul_acc_montgomery(v, w), 1664)
         /\ Narrow(Kem!polyvec_basemul_acc_montgomery(v, w))
         /\ \A j \in Kem!Index :
               Between(Kem!invntt(Kem!polyvec_basemul_acc_montgomery(v, w))[j], 3328)
<1> DEFINE x == Kem!polyvec_basemul_acc_montgomery(v, w)
<1>1. IntVec(v) /\ IntVec(w)
  BY SmallIsIntPoly DEF IntVec, VecSmall, Kem!Vec
<1>2. Kem!Within(x, 1664)
  BY <1>1, AccWithin
<1> HIDE DEF x
<1>3. \A j \in Kem!Index : Between(x[j], 1664)
  BY <1>2, WithinMeans
<1>4. \A j \in Kem!Index : Between(x[j], 16000)
  BY <1>3 DEF Between
<1>5. Narrow(x)
  BY <1>4, WithinMeans DEF Narrow
<1>6. Kem!Within(Kem!invntt(x), 3328)
  BY <1>2, WithinIsInt, InvNttWithin
<1>7. \A j \in Kem!Index : Between(Kem!invntt(x)[j], 3328)
  BY <1>6, WithinMeans
<1> QED
  BY <1>2, <1>5, <1>7 DEF x

InRing(A, T, S, E, R, U, D) ==
    \A i \in {0, 1} :
       /\ Same(T[i], Three(Ring(A[i][0], S[0]), Ring(A[i][1], S[1]), E[i]))
       /\ Same(U[i], Three(Ring(A[0][i], R[0]), Ring(A[1][i], R[1]), D[i]))

Combined(v, T, R, p, f) ==
    \A j \in Kem!Index :
       Cong(v[j], Kem!invntt(Kem!polyvec_basemul_acc_montgomery(T, R))[j] + p[j] + f[j])

NoiseOf(p, w, v, E, R, S, D, j) ==
    p[j] + (w[j] - v[j]) + Kem!invntt(Kem!polyvec_basemul_acc_montgomery(E, R))[j]
                         - Kem!invntt(Kem!polyvec_basemul_acc_montgomery(S, D))[j]

\* In the ring: v is what the encryption makes of the key T, the secret R of
\* the sender, its noise p and the message f; w is v after its compression,
\* and the result is what the decryption makes of w, its secret S and the
\* transform U of the first part, of which D is the noise.
LEMMA DecryptionInRing ==
  ASSUME NEW A, NEW T, NEW S, NEW E, NEW R, NEW U, NEW D,
         VecSmall(A[0]), VecSmall(A[1]), VecSmall(T), VecSmall(S), VecSmall(E),
         VecSmall(R), VecSmall(U), VecSmall(D),
         InRing(A, T, S, E, R, U, D),
         NEW v, NEW w, NEW p, NEW f, IntPoly(v), Kem!Within(w, 3329), IntPoly(p), IntPoly(f),
         Combined(v, T, R, p, f),
         NEW j \in Kem!Index
  PROVE  Cong(Kem!poly_reduce(Kem!poly_sub(w, Kem!invntt(Kem!polyvec_basemul_acc_montgomery(S, U))))[j],
              f[j] + NoiseOf(p, w, v, E, R, S, D, j))
<1> DEFINE tr == Kem!polyvec_basemul_acc_montgomery(T, R)
           sd == Kem!polyvec_basemul_acc_montgomery(S, D)
           su == Kem!polyvec_basemul_acc_montgomery(S, U)
           er == Kem!polyvec_basemul_acc_montgomery(E, R)
<1>1. \A i \in Kem!Index : Evens(tr[i], sd[i], su[i], er[i])
  BY MatrixCancels DEF InRing
<1>2. /\ Narrow(tr) /\ \A i \in Kem!Index : Between(Kem!invntt(tr)[i], 3328)
      /\ Narrow(sd) /\ \A i \in Kem!Index : Between(Kem!invntt(sd)[i], 3328)
      /\ Narrow(su) /\ \A i \in Kem!Index : Between(Kem!invntt(su)[i], 3328)
      /\ Narrow(er) /\ \A i \in Kem!Index : Between(Kem!invntt(er)[i], 3328)
  BY AccNarrow
<1> DEFINE itr == Kem!invntt(tr)
           isd == Kem!invntt(sd)
           isu == Kem!invntt(su)
           ier == Kem!invntt(er)
<1>3. Cong(v[j], itr[j] + p[j] + f[j])
  BY DEF Combined
<1> HIDE DEF tr, sd, su, er
<1>4. Evens(itr[j], isd[j], isu[j], ier[j])
  BY <1>1, <1>2, InvnttEvens
<1>5. /\ Between(itr[j], 3328) /\ Between(isd[j], 3328) /\ Between(ier[j], 3328)
      /\ \A i \in Kem!Index : Between(isu[i], 3328)
  BY <1>2
<1> HIDE DEF itr, isd, isu, ier
<1> DEFINE s == Kem!poly_sub(w, isu)
           wj == w[j]
           vj == v[j]
           pj == p[j]
           fj == f[j]
           a == itr[j]
           b == isd[j]
           c == isu[j]
           d == ier[j]
<1>6. Between(wj, 3329) /\ IntPoly(w) /\ IntPoly(isu)
  BY <1>5, WithinMeans, WithinIsInt DEF IntPoly, Between
<1>7. s[j] = Kem!Wrap16(wj - c)
  BY DEF Kem!poly_sub
<1>8. ShortPoly(s)
  BY <1>6, AddShort
<1>9. Cong(Kem!poly_reduce(s)[j], s[j]) /\ Kem!poly_reduce(s)[j] \in Int
  BY <1>8, ReduceCong
<1>10. /\ wj \in Int /\ vj \in Int /\ pj \in Int /\ fj \in Int
       /\ a \in Int /\ b \in Int /\ c \in Int /\ d \in Int /\ Between(c, 3328)
  BY <1>5, <1>6 DEF IntPoly, Between
<1>11. Cong(vj, a + pj + fj) /\ Evens(a, b, c, d)
  BY <1>3, <1>4
<1> DEFINE r == Kem!poly_reduce(s)[j]
           sj == s[j]
<1>12. Cong(r, sj) /\ r \in Int /\ sj = Kem!Wrap16(wj - c)
  BY <1>7, <1>9
<1>13. Cong(r, fj + (pj + (wj - vj) + d - b))
  <2> HIDE DEF s, r, sj, wj, vj, pj, fj, a, b, c, d
  <2>1. Short(wj - c)
    BY <1>6, <1>10 DEF Between, Short
  <2>2. sj = wj - c
    BY <1>12, <2>1, Wrap16Fits
  <2> QED
    BY <1>10, <1>11, <1>12, <2>2 DEF Cong, Evens
<1>14. NoiseOf(p, w, v, E, R, S, D, j) = pj + (wj - vj) + d - b
  BY DEF NoiseOf, ier, isd, er, sd
<1> QED
  BY <1>13, <1>14 DEF isu, su

\* What SHAKE128 samples for the matrix is less than q (rej_uniform).
MatrixReduced == \A seed, x, y : Kem!Within(Xof(seed, x, y), 3328)

\* The keypair that is made from coins.
KeySeeds(coins) == Kem!hash_g(Kem!Left(coins), <<"k">>)
MatrixOf(coins) == Kem!gen_matrix(Kem!Left(KeySeeds(coins)), FALSE)
SecretOf(coins) == [i \in Kem!Vec |-> Kem!cbd3(Prf(Kem!Right(KeySeeds(coins)), i))]
ErrorOf(coins) == [i \in Kem!Vec |-> Kem!cbd3(Prf(Kem!Right(KeySeeds(coins)), 2 + i))]

\* The transforms of its secret and of its error.
SecretNtt(coins) == Kem!polyvec_ntt(SecretOf(coins))
ErrorNtt(coins) == Kem!polyvec_ntt(ErrorOf(coins))

TimesSecret(a, skpv) ==
    [i \in Kem!Vec |-> Kem!poly_tomont(Kem!polyvec_basemul_acc_montgomery(a[i], skpv))]
KeyPoly(a, skpv, e) == Kem!polyvec_reduce(Kem!polyvec_add(TimesSecret(a, skpv), e))
PackedKey(a, skpv, e, seed) ==
    [t |-> [i \in Kem!Vec |-> Kem!poly_tobytes(KeyPoly(a, skpv, e)[i])], seed |-> seed]
PkOf(coins) ==
    PackedKey(MatrixOf(coins), SecretNtt(coins), ErrorNtt(coins), Kem!Left(KeySeeds(coins)))
PackedSecret(skpv) == [i \in Kem!Vec |-> Kem!poly_tobytes(skpv[i])]
KeypairOf(coins) ==
    [pk |-> PkOf(coins),
     sk |-> [s |-> PackedSecret(SecretNtt(coins)), pk |-> PkOf(coins),
             h |-> Kem!hash_h(PkOf(coins)), z |-> Kem!Right(coins)]]

\* Both keys as they are unpacked.
KeyIn(pk) == [i \in Kem!Vec |-> Kem!poly_frombytes(pk.t[i])]
SecretIn(sk) == [i \in Kem!Vec |-> Kem!poly_frombytes(sk.s[i])]

\* The message that a ciphertext is decrypted to, as a polynomial and as bytes.
DecryptedPoly(c, sk) ==
    Kem!poly_reduce(Kem!poly_sub(Kem!poly_decompress(c.v),
        Kem!invntt(Kem!polyvec_basemul_acc_montgomery(SecretIn(sk),
            Kem!polyvec_ntt(Kem!polyvec_decompress(c.b))))))
Decrypted(c, sk) == Kem!poly_tomsg(DecryptedPoly(c, sk))

\* The transform of the secret of the sender.
SenderNtt(m, pk) == Kem!polyvec_ntt(SpOf(Drawn(m, pk)))

\* The noise in the first part of a ciphertext: what was sampled for it, and
\* what compression took away or added.
NoiseU(m, pk) ==
    [i \in Kem!Vec |-> [j \in Kem!Index |->
        EpOf(Drawn(m, pk))[i][j]
        + (Kem!polyvec_decompress(CiphertextOf(m, pk).b)[i][j] - SumOf(m, pk).b[i][j])]]

\* The noise of the decryption: that of v, more by the error of the key times
\* the secret of the sender, less by the secret of the key times that of u.
Noise(coins, m) ==
    LET pk == PkOf(coins)
    IN  [j \in Kem!Index |->
            NoiseOf(EppOf(Drawn(m, pk)), Kem!poly_decompress(CiphertextOf(m, pk).v), SumOf(m, pk).v,
                    ErrorNtt(coins), SenderNtt(m, pk),
                    SecretIn(KeypairOf(coins).sk), Kem!polyvec_ntt(NoiseU(m, pk)), j)]

LEMMA Indices == Kem!Vec = {0, 1}
BY DEF Kem!Vec

LEMMA HalfIsSmall ==
  ASSUME NEW p, NEW b \in Nat, b <= 4096, Kem!Within(p, b) PROVE Small(p)
<1>1. \A j \in Kem!Index : Between(p[j], b)
  BY WithinMeans
<1>2. \A j \in Kem!Index : Between(p[j], 4096)
  BY <1>1 DEF Between
<1> QED
  BY <1>2, WithinMeans DEF Small

LEMMA PrfOctets == ASSUME SamplersTyped PROVE \A seed, nonce : Octets(Prf(seed, nonce), 191)
BY DEF SamplersTyped

\* The transform of what cbd3 samples.
LEMMA SampledNtt ==
  ASSUME NEW v, \A i \in Kem!Vec : Kem!Within(v[i], 3)
  PROVE  /\ \A i \in Kem!Vec : Kem!Within(Kem!polyvec_ntt(v)[i], 1664)
         /\ VecSmall(Kem!polyvec_ntt(v))
<1>1. ASSUME NEW i \in Kem!Vec PROVE Kem!Within(Kem!polyvec_ntt(v)[i], 1664)
  <2>1. Kem!polyvec_ntt(v)[i] = Kem!poly_ntt(v[i])
    BY DEF Kem!polyvec_ntt
  <2>2. \A j \in Kem!Index : Between(v[i][j], 3)
    BY WithinMeans
  <2>3. ShortPoly(v[i])
    BY <2>2 DEF Between, Short, ShortPoly
  <2> QED
    BY <2>1, <2>3, NttWithin
<1>2. \A i \in Kem!Vec : Small(Kem!polyvec_ntt(v)[i])
  BY <1>1, HalfIsSmall
<1> QED
  BY <1>1, <1>2, Indices DEF VecSmall

LEMMA KeyRanges ==
  ASSUME SamplersTyped, MatrixReduced, NEW coins
  PROVE  /\ \A i \in {0, 1} : /\ VecSmall(MatrixOf(coins)[i])
                              /\ Kem!Within(SecretNtt(coins)[i], 1664)
                              /\ Kem!Within(ErrorNtt(coins)[i], 1664)
         /\ VecSmall(SecretNtt(coins)) /\ VecSmall(ErrorNtt(coins))
<1>1. \A i \in Kem!Vec : Kem!Within(SecretOf(coins)[i], 3) /\ Kem!Within(ErrorOf(coins)[i], 3)
  BY PrfOctets, Cbd3Within DEF SecretOf, ErrorOf
<1>2. /\ \A i \in Kem!Vec : Kem!Within(SecretNtt(coins)[i], 1664) /\ Kem!Within(ErrorNtt(coins)[i], 1664)
      /\ VecSmall(SecretNtt(coins)) /\ VecSmall(ErrorNtt(coins))
  BY <1>1, SampledNtt DEF SecretNtt, ErrorNtt
<1>3. ASSUME NEW i \in {0, 1} PROVE VecSmall(MatrixOf(coins)[i])
  <2>1. \A x, y, seed : Small(Xof(seed, x, y))
    BY HalfIsSmall DEF MatrixReduced
  <2>2. \A k \in {0, 1} : MatrixOf(coins)[i][k] = Xof(Kem!Left(KeySeeds(coins)), k, i)
    BY Indices DEF MatrixOf, Kem!gen_matrix
  <2> QED
    BY <2>1, <2>2 DEF VecSmall
<1> QED
  BY <1>2, <1>3, Indices

\* The public key in the ring.
LEMMA KeyInRing ==
  ASSUME SamplersTyped, MatrixReduced, NEW coins, NEW i \in {0, 1}
  PROVE  LET S == SecretIn(KeypairOf(coins).sk)
             T == KeyIn(PkOf(coins))
         IN  /\ Same(T[i], Three(Ring(MatrixOf(coins)[i][0], S[0]),
                                 Ring(MatrixOf(coins)[i][1], S[1]), ErrorNtt(coins)[i]))
             /\ Small(T[i]) /\ Small(S[i])
<1> DEFINE S == SecretIn(KeypairOf(coins).sk)
           T == KeyIn(PkOf(coins))
           s == SecretNtt(coins)
           e == ErrorNtt(coins)
           a == MatrixOf(coins)
           t == Kem!poly_reduce(Kem!poly_add(
                    Kem!poly_tomont(Kem!polyvec_basemul_acc_montgomery(a[i], s)), e[i]))
<1>1. VecSmall(a[i]) /\ VecSmall(s) /\ VecSmall(e) /\ Kem!Within(e[i], 1664)
      /\ \A k \in {0, 1} : Kem!Within(s[k], 1664)
  BY KeyRanges
<1>2. \A k \in {0, 1} : S[k] = Kem!poly_frombytes(Kem!poly_tobytes(s[k]))
  BY Indices DEF SecretIn, KeypairOf, PackedSecret
<1>3. \A k \in {0, 1} : Same(S[k], s[k]) /\ Small(S[k])
  BY <1>1, <1>2, PackingReturns
<1>4. T[i] = Kem!poly_frombytes(Kem!poly_tobytes(t))
  BY Indices DEF KeyIn, PkOf, PackedKey, KeyPoly, TimesSecret, Kem!polyvec_reduce, Kem!polyvec_add
<1> HIDE DEF S, s, e, a, T
<1>5. Same(t, Three(Ring(a[i][0], s[0]), Ring(a[i][1], s[1]), e[i])) /\ Kem!Within(t, 1664)
  BY <1>1, KeyIsProduct
<1> HIDE DEF t
<1>6. Same(T[i], t) /\ Small(T[i])
  BY <1>4, <1>5, PackingReturns
<1> DEFINE x == Ring(a[i][0], s[0])
           y == Ring(a[i][1], s[1])
           u == Ring(a[i][0], S[0])
           v == Ring(a[i][1], S[1])
<1>7. /\ IntPoly(a[i][0]) /\ IntPoly(a[i][1]) /\ IntPoly(s[0]) /\ IntPoly(s[1]) /\ IntPoly(S[0])
      /\ IntPoly(S[1]) /\ IntPoly(e[i]) /\ IntPoly(t) /\ IntPoly(T[i])
  BY <1>1, <1>3, <1>5, <1>6, SmallIsIntPoly, WithinIsInt DEF VecSmall
<1>8. IntPoly(x) /\ IntPoly(y) /\ IntPoly(u) /\ IntPoly(v)
  BY <1>7, RingInt
<1>9. \A j \in Kem!Index : Cong(u[j], x[j]) /\ Cong(v[j], y[j])
  <2>1. Same(Ring(S[0], a[i][0]), Ring(s[0], a[i][0])) /\ Same(Ring(S[1], a[i][1]), Ring(s[1], a[i][1]))
    BY <1>3, <1>7, RingSame
  <2>2. \A j \in Kem!Index :
          /\ u[j] = Ring(S[0], a[i][0])[j] /\ x[j] = Ring(s[0], a[i][0])[j]
          /\ v[j] = Ring(S[1], a[i][1])[j] /\ y[j] = Ring(s[1], a[i][1])[j]
    BY <1>7, RingTurn
  <2> QED
    BY <2>1, <2>2 DEF Same
<1> HIDE DEF x, y, u, v
<1>10. Same(T[i], Three(u, v, e[i]))
  <2> SUFFICES ASSUME NEW j \in Kem!Index PROVE Cong(T[i][j], Three(u, v, e[i])[j])
    BY DEF Same
  <2> DEFINE Tj == T[i][j]  tj == t[j]  ej == e[i][j]  xj == x[j]  yj == y[j]  uj == u[j]  vj == v[j]
  <2>1. Three(u, v, e[i])[j] = uj + vj + ej /\ Three(x, y, e[i])[j] = xj + yj + ej
    BY DEF Three, PolySum
  <2>2. Cong(Tj, tj) /\ Cong(tj, xj + yj + ej) /\ Cong(uj, xj) /\ Cong(vj, yj)
    BY <1>5, <1>6, <1>9, <2>1 DEF Same, x, y
  <2>3. /\ Tj \in Int /\ tj \in Int /\ ej \in Int /\ xj \in Int /\ yj \in Int /\ uj \in Int /\ vj \in Int
    BY <1>7, <1>8 DEF IntPoly
  <2> HIDE DEF Tj, tj, ej, xj, yj, uj, vj
  <2>4. Cong(Tj, uj + vj + ej)
    BY <2>2, <2>3 DEF Cong
  <2> QED
    BY <2>1, <2>4 DEF Tj
<1> QED
  BY <1>3, <1>6, <1>10 DEF u, v, S, T, a, e

\* The sum of three small coefficients is reduced as it stands.
LEMMA NoisySum ==
  ASSUME NEW w, NEW p, NEW b \in Nat, b <= 3328, Kem!Within(w, b), Kem!Within(p, 2)
  PROVE  /\ Kem!Within(Kem!poly_reduce(Kem!poly_add(w, p)), 1664)
         /\ \A j \in Kem!Index : /\ Cong(Kem!poly_reduce(Kem!poly_add(w, p))[j], w[j] + p[j])
                                 /\ Kem!poly_add(w, p)[j] = w[j] + p[j]
<1> DEFINE s == Kem!poly_add(w, p)
<1>1. ShortPoly(s)
  BY WithinIsInt, AddShort
<1>2. ASSUME NEW j \in Kem!Index PROVE s[j] = w[j] + p[j]
  <2>1. s[j] = Kem!Wrap16(w[j] + p[j])
    BY DEF Kem!poly_add
  <2>2. Between(w[j], b) /\ Between(p[j], 2)
    BY WithinMeans
  <2>3. Short(w[j] + p[j])
    BY <2>2 DEF Between, Short
  <2> QED
    BY <2>1, <2>3, Wrap16Fits
<1> HIDE DEF s
<1>3. Kem!Within(Kem!poly_reduce(s), 1664)
  BY <1>1, ReduceWithin
<1>4. \A j \in Kem!Index : Cong(Kem!poly_reduce(s)[j], s[j])
  BY <1>1, ReduceCong
<1> QED
  BY <1>2, <1>3, <1>4 DEF s

LEMMA SenderRanges ==
  ASSUME SamplersTyped, NEW m, NEW pk
  PROVE  /\ VecSmall(SenderNtt(m, pk))
         /\ \A i \in {0, 1} : Kem!Within(EpOf(Drawn(m, pk))[i], 2)
         /\ Kem!Within(EppOf(Drawn(m, pk)), 2)
<1>1. \A i \in Kem!Vec : Kem!Within(SpOf(Drawn(m, pk))[i], 3)
  BY PrfOctets, Cbd3Within DEF SpOf
<1>2. VecSmall(SenderNtt(m, pk))
  BY <1>1, SampledNtt DEF SenderNtt
<1>3. \A i \in Kem!Vec : Kem!Within(EpOf(Drawn(m, pk))[i], 2)
  BY PrfOctets, Cbd2Within DEF EpOf
<1>4. Kem!Within(EppOf(Drawn(m, pk)), 2)
  BY PrfOctets, Cbd2Within DEF EppOf
<1> QED
  BY <1>2, <1>3, <1>4, Indices

\* The first part of the ciphertext in the ring.
LEMMA FirstPartInRing ==
  ASSUME SamplersTyped, MatrixReduced, NEW coins, NEW m, NEW i \in {0, 1}
  PROVE  LET pk == PkOf(coins)
             A == MatrixOf(coins)
             R == SenderNtt(m, pk)
             U == Kem!polyvec_ntt(Kem!polyvec_decompress(CiphertextOf(m, pk).b))
             D == Kem!polyvec_ntt(NoiseU(m, pk))
         IN  /\ Same(U[i], Three(Ring(A[0][i], R[0]), Ring(A[1][i], R[1]), D[i]))
             /\ Small(U[i]) /\ Small(D[i])
<1> DEFINE pk == PkOf(coins)
           A == MatrixOf(coins)
           R == SenderNtt(m, pk)
           a == Kem!gen_matrix(pk.seed, TRUE)[i]
           p == EpOf(Drawn(m, pk))[i]
           x == Kem!polyvec_basemul_acc_montgomery(a, R)
           w == Kem!invntt(x)
           b == SumOf(m, pk).b
           c == Kem!polyvec_decompress(Kem!polyvec_compress(b))
           d == NoiseU(m, pk)[i]
<1>1. VecSmall(R) /\ Kem!Within(p, 2) /\ VecSmall(A[0]) /\ VecSmall(A[1])
  BY KeyRanges, SenderRanges
<1>2. a[0] = A[0][i] /\ a[1] = A[1][i]
  <2>1. pk.seed = Kem!Left(KeySeeds(coins))
    BY DEF PkOf, PackedKey
  <2> QED
    BY <2>1, Indices DEF MatrixOf, Kem!gen_matrix
<1>3. VecSmall(a)
  BY <1>1, <1>2 DEF VecSmall
<1>4. \A k \in {0, 1} : b[k] = Kem!poly_reduce(Kem!poly_add(
                               Kem!invntt(Kem!polyvec_basemul_acc_montgomery(
                                   Kem!gen_matrix(pk.seed, TRUE)[k], R)), EpOf(Drawn(m, pk))[k]))
  BY Indices DEF SumOf, InverseOf, ProductOf, TimesMatrix, SenderNtt, Kem!polyvec_reduce,
                 Kem!polyvec_add, Kem!polyvec_invntt_tomont
<1>5. \A k \in {0, 1} : IntPoly(b[k])
  <2> SUFFICES ASSUME NEW k \in {0, 1} PROVE IntPoly(b[k])
    OBVIOUS
  <2> DEFINE ak == Kem!gen_matrix(pk.seed, TRUE)[k]
             wk == Kem!invntt(Kem!polyvec_basemul_acc_montgomery(ak, R))
             pk0 == EpOf(Drawn(m, pk))[k]
  <2>1. VecSmall(ak)
    <3>1. ak[0] = A[0][k] /\ ak[1] = A[1][k]
      <4>1. pk.seed = Kem!Left(KeySeeds(coins))
        BY DEF PkOf, PackedKey
      <4> QED
        BY <4>1, Indices DEF MatrixOf, Kem!gen_matrix
    <3> QED
      BY <1>1, <3>1 DEF VecSmall
  <2>2. Kem!Within(pk0, 2)
    BY SenderRanges
  <2>3. b[k] = Kem!poly_reduce(Kem!poly_add(wk, pk0))
    BY <1>4
  <2> HIDE DEF ak, pk0, b, R
  <2>4. \A j \in Kem!Index : Between(wk[j], 3328)
    BY <1>1, <2>1, AccNarrow
  <2> HIDE DEF wk
  <2>5. Kem!Within(wk, 3328)
    BY <2>4, WithinMeans
  <2>6. Kem!Within(b[k], 1664)
    BY <2>2, <2>3, <2>5, NoisySum
  <2> QED
    BY <2>6, WithinIsInt
<1>6. Kem!Within(c[i], 3329)
  BY <1>5, CompressVecOctets, DecompressVecWithin, Indices
<1>7. CiphertextOf(m, pk).b = Kem!polyvec_compress(b)
  BY DEF CiphertextOf, Kem!pack_ciphertext
<1>8. \A j \in Kem!Index : d[j] = p[j] + (c[i][j] - b[i][j])
  BY <1>7, Indices DEF NoiseU
<1>9. b[i] = Kem!poly_reduce(Kem!poly_add(w, p))
  BY <1>4
<1> DEFINE u == c[i]
           v == b[i]
<1> HIDE DEF pk, A, a, R, p, b, c, d
<1>10. \A j \in Kem!Index : Between(w[j], 3328)
  BY <1>1, <1>3, AccNarrow
<1> HIDE DEF x, w
<1>11. Kem!Within(w, 3328)
  BY <1>10, WithinMeans
<1>12. Kem!Within(v, 1664) /\ \A j \in Kem!Index : Cong(v[j], w[j] + p[j])
  BY <1>1, <1>9, <1>11, NoisySum
<1> HIDE DEF u, v
<1>13. \A j \in Kem!Index : d[j] = p[j] + (u[j] - v[j]) /\ Between(u[j], 3329) /\ Between(v[j], 1664)
                            /\ Between(p[j], 2)
  BY <1>1, <1>6, <1>8, <1>12, WithinMeans DEF u, v
<1>14. \A j \in Kem!Index : Between(d[j], 6657) /\ Sums(u[j], w[j], d[j])
  BY <1>10, <1>12, <1>13 DEF Between, Sums, Cong
<1>15. Kem!Within(d, 6657) /\ Kem!Within(u, 3329)
  BY <1>6, <1>14, WithinMeans DEF u
<1>16. /\ Same(Kem!poly_ntt(u), Three(Ring(a[0], R[0]), Ring(a[1], R[1]), Kem!poly_ntt(d)))
       /\ Small(Kem!poly_ntt(u)) /\ Small(Kem!poly_ntt(d))
  BY <1>1, <1>3, <1>14, <1>15, CiphertextIsProduct DEF w, x
<1>17. /\ Kem!polyvec_ntt(c)[i] = Kem!poly_ntt(u)
       /\ Kem!polyvec_ntt(NoiseU(m, pk))[i] = Kem!poly_ntt(d)
  BY Indices DEF Kem!polyvec_ntt, u, d
<1>18. /\ Same(Kem!polyvec_ntt(c)[i],
               Three(Ring(A[0][i], R[0]), Ring(A[1][i], R[1]), Kem!polyvec_ntt(NoiseU(m, pk))[i]))
       /\ Small(Kem!polyvec_ntt(c)[i]) /\ Small(Kem!polyvec_ntt(NoiseU(m, pk))[i])
  BY <1>2, <1>16, <1>17
<1> QED
  BY <1>7, <1>18 DEF c, pk, A, R

LEMMA MessageRange ==
  ASSUME NEW m, NEW j \in Kem!Index
  PROVE  /\ Kem!poly_frommsg(m)[j] = Kem!FromBit(Kem!Bit(m, j))
         /\ Between(Kem!poly_frommsg(m)[j], 1665)
<1>1. Kem!poly_frommsg(m)[j] = Kem!FromBit(Kem!Bit(m, j))
  BY DEF Kem!poly_frommsg
<1>2. Kem!FromBit(Kem!Bit(m, j)) \in {0, 1665}
  BY DEF Kem!FromBit, Kem!Q
<1> QED
  BY <1>1, <1>2 DEF Between

\* The second part of a ciphertext, before it is compressed.
LEMMA SecondPart ==
  ASSUME SamplersTyped, NEW coins, NEW m,
         VecSmall(KeyIn(PkOf(coins))), VecSmall(SenderNtt(m, PkOf(coins)))
  PROVE  LET pk == PkOf(coins)
             v == SumOf(m, pk).v
         IN  /\ \A j \in Kem!Index :
                   Cong(v[j], Kem!invntt(Kem!polyvec_basemul_acc_montgomery(
                                 KeyIn(pk), SenderNtt(m, pk)))[j]
                              + EppOf(Drawn(m, pk))[j] + Kem!poly_frommsg(m)[j])
             /\ IntPoly(v)
             /\ Kem!Within(Kem!poly_decompress(Kem!poly_compress(v)), 3329)
<1> DEFINE pk == PkOf(coins)
           v == SumOf(m, pk).v
           w == Kem!invntt(Kem!polyvec_basemul_acc_montgomery(KeyIn(pk), SenderNtt(m, pk)))
           p == EppOf(Drawn(m, pk))
           f == Kem!poly_frommsg(m)
           s == Kem!poly_add(w, p)
           t == Kem!poly_add(s, f)
<1>1. v = Kem!poly_reduce(t)
  BY DEF SumOf, InverseOf, ProductOf, TimesKey, KeyIn, SenderNtt
<1>2. \A j \in Kem!Index : Between(w[j], 3328)
  BY AccNarrow
<1>3. Kem!Within(p, 2)
  BY SenderRanges
<1>4. \A j \in Kem!Index : Between(f[j], 1665)
  BY MessageRange
<1> HIDE DEF pk, v, w, p, f
<1>5. Kem!Within(w, 3328)
  BY <1>2, WithinMeans
<1>6. \A j \in Kem!Index : s[j] = w[j] + p[j]
  BY <1>3, <1>5, NoisySum
<1>7. \A j \in Kem!Index : t[j] = Kem!Wrap16(s[j] + f[j])
  BY DEF Kem!poly_add
<1>8. \A j \in Kem!Index : Between(p[j], 2)
  BY <1>3, WithinMeans
<1> HIDE DEF s, t
<1>9. ASSUME NEW j \in Kem!Index PROVE t[j] = w[j] + p[j] + f[j] /\ Short(t[j])
  <2> DEFINE n == w[j] + p[j] + f[j]
  <2>1. Between(w[j], 3328) /\ Between(p[j], 2) /\ Between(f[j], 1665)
    BY <1>2, <1>4, <1>8
  <2>2. Short(n)
    BY <2>1 DEF Between, Short
  <2>3. t[j] = Kem!Wrap16(n)
    BY <1>6, <1>7
  <2> HIDE DEF n
  <2>4. t[j] = n
    BY <2>2, <2>3, Wrap16Fits
  <2> QED
    BY <2>2, <2>4 DEF n
<1>10. ShortPoly(t)
  BY <1>9 DEF ShortPoly
<1>11. \A j \in Kem!Index : Cong(v[j], w[j] + p[j] + f[j])
  BY <1>1, <1>9, <1>10, ReduceCong
<1>12. IntPoly(v)
  BY <1>1, <1>10, ReduceWithin, WithinIsInt
<1>13. Kem!Within(Kem!poly_decompress(Kem!poly_compress(v)), 3329)
  BY <1>12, CompressOctets, DecompressWithin
<1> QED
  BY <1>11, <1>12, <1>13 DEF v, w, p, f, pk

\* What the gateway decrypts is the message and the noise.
LEMMA DecryptionNoise ==
  ASSUME SamplersTyped, MatrixReduced, NEW coins, NEW m, NEW j \in Kem!Index
  PROVE  Cong(DecryptedPoly(CiphertextOf(m, PkOf(coins)), KeypairOf(coins).sk)[j],
              Kem!poly_frommsg(m)[j] + Noise(coins, m)[j])
<1> DEFINE pk == PkOf(coins)
           A == MatrixOf(coins)
           T == KeyIn(pk)
           S == SecretIn(KeypairOf(coins).sk)
           E == ErrorNtt(coins)
           R == SenderNtt(m, pk)
           U == Kem!polyvec_ntt(Kem!polyvec_decompress(CiphertextOf(m, pk).b))
           D == Kem!polyvec_ntt(NoiseU(m, pk))
           v == SumOf(m, pk).v
           w == Kem!poly_decompress(CiphertextOf(m, pk).v)
           p == EppOf(Drawn(m, pk))
           f == Kem!poly_frommsg(m)
<1>1. /\ VecSmall(A[0]) /\ VecSmall(A[1]) /\ VecSmall(E)
  BY KeyRanges
<1>2. VecSmall(R) /\ Kem!Within(p, 2)
  BY SenderRanges
<1>3. \A i \in {0, 1} :
         /\ Same(T[i], Three(Ring(A[i][0], S[0]), Ring(A[i][1], S[1]), E[i]))
         /\ Small(T[i]) /\ Small(S[i])
  BY KeyInRing
<1>4. \A i \in {0, 1} :
         /\ Same(U[i], Three(Ring(A[0][i], R[0]), Ring(A[1][i], R[1]), D[i]))
         /\ Small(U[i]) /\ Small(D[i])
  BY FirstPartInRing
<1>5. VecSmall(T) /\ VecSmall(S) /\ VecSmall(U) /\ VecSmall(D)
  BY <1>3, <1>4 DEF VecSmall
<1>6. w = Kem!poly_decompress(Kem!poly_compress(v))
  BY DEF CiphertextOf, Kem!pack_ciphertext
<1>7. /\ \A i \in Kem!Index :
            Cong(v[i], Kem!invntt(Kem!polyvec_basemul_acc_montgomery(T, R))[i] + p[i] + f[i])
      /\ IntPoly(v) /\ Kem!Within(w, 3329)
  BY <1>2, <1>5, <1>6, SecondPart
<1>8. IntPoly(p) /\ IntPoly(f)
  BY <1>2, WithinIsInt, MessageRange DEF IntPoly, Between
<1>9. DecryptedPoly(CiphertextOf(m, PkOf(coins)), KeypairOf(coins).sk)
        = Kem!poly_reduce(Kem!poly_sub(w, Kem!invntt(Kem!polyvec_basemul_acc_montgomery(S, U))))
  BY DEF DecryptedPoly
<1>10. Noise(coins, m)[j] = NoiseOf(p, w, v, E, R, S, D, j)
  BY DEF Noise
<1>11. InRing(A, T, S, E, R, U, D)
  BY <1>3, <1>4 DEF InRing
<1>12. Combined(v, T, R, p, f)
  BY <1>7 DEF Combined
<1> HIDE DEF pk, A, T, S, E, R, U, D, v, w, p, f
<1>13. Cong(Kem!poly_reduce(Kem!poly_sub(w, Kem!invntt(Kem!polyvec_basemul_acc_montgomery(S, U))))[j],
            f[j] + NoiseOf(p, w, v, E, R, S, D, j))
  BY <1>1, <1>2, <1>5, <1>7, <1>8, <1>11, <1>12, DecryptionInRing
<1> QED
  BY <1>9, <1>10, <1>13 DEF f

LEMMA NoiseInt ==
  ASSUME SamplersTyped, MatrixReduced, NEW coins, NEW m, NEW j \in Kem!Index
  PROVE  Noise(coins, m)[j] \in Int
<1> DEFINE pk == PkOf(coins)
           S == SecretIn(KeypairOf(coins).sk)
           D == Kem!polyvec_ntt(NoiseU(m, pk))
           R == SenderNtt(m, pk)
           E == ErrorNtt(coins)
           v == SumOf(m, pk).v
           w == Kem!poly_decompress(CiphertextOf(m, pk).v)
           p == EppOf(Drawn(m, pk))
           a == Kem!invntt(Kem!polyvec_basemul_acc_montgomery(E, R))[j]
           b == Kem!invntt(Kem!polyvec_basemul_acc_montgomery(S, D))[j]
<1>1. VecSmall(E) /\ VecSmall(R) /\ Kem!Within(p, 2)
  BY KeyRanges, SenderRanges
<1>2. VecSmall(S) /\ VecSmall(D) /\ VecSmall(KeyIn(pk))
  BY KeyInRing, FirstPartInRing DEF VecSmall
<1>3. Between(a, 3328) /\ Between(b, 3328)
  BY <1>1, <1>2, AccNarrow
<1>4. w = Kem!poly_decompress(Kem!poly_compress(v))
  BY DEF CiphertextOf, Kem!pack_ciphertext
<1>5. IntPoly(v) /\ Kem!Within(w, 3329)
  <2>1. VecSmall(KeyIn(PkOf(coins))) /\ VecSmall(SenderNtt(m, PkOf(coins)))
    BY <1>1, <1>2
  <2> QED
    BY <1>4, <2>1, SecondPart
<1>6. v[j] \in Int /\ w[j] \in Int /\ p[j] \in Int
  BY <1>1, <1>5, WithinIsInt DEF IntPoly
<1>7. Noise(coins, m)[j] = (p[j] + (w[j] - v[j])) + a - b
  BY DEF Noise, NoiseOf
<1> HIDE DEF a, b, v, w, p
<1> QED
  BY <1>3, <1>6, <1>7 DEF Between

-----------------------------------------------------------------------------
(* The bits of a message come back if the noise is small.                  *)

\* A coefficient decodes to a one if it is farther from 0 than from q/2.
LEMMA ToBitIs ==
  ASSUME NEW u, Between(u, 1664)
  PROVE  Kem!ToBit(u) = IF -832 <= u /\ u <= 832 THEN 0 ELSE 1
<1> DEFINE t == 2 * u + 1665
<1>1. u \in Int /\ -1664 <= u /\ u <= 1664 /\ t \in Int /\ -1663 <= t /\ t <= 4993
  BY DEF Between
<1>2. ASSUME NEW x \in Int, 0 <= x, x <= 4993
      PROVE  Kem!ScaledDown(x, 80635, 4) = IF x <= 3329 THEN 0 ELSE 1
  <2> DEFINE a1 == x \div 4096
             a0 == x % 4096
             low == (a0 * 2811) \div 4096
             mid == a1 * 2811 + a0 * 19 + low
             top == mid \div 4096
  <2>1. Kem!ScaledDown(x, 80635, 4) = (a1 * 19 + top) \div 16
    BY DEF Kem!ScaledDown
  <2>2. CASE x <= 4095
    <3>1. a1 = 0 /\ a0 = x
      BY <1>2, <2>2
    <3> HIDE DEF a1, a0
    <3>2. low = (x * 2811) \div 4096 /\ mid = x * 19 + low
      BY <1>2, <3>1
    <3>3. low \in Int /\ 4096 * low <= x * 2811 /\ x * 2811 < 4096 * low + 4096
      BY <1>2, <3>2
    <3> HIDE DEF low, mid
    <3>4. top \in Int /\ 4096 * top <= mid /\ mid < 4096 * top + 4096 /\ mid \in Int
      BY <1>2, <3>2, <3>3
    <3> HIDE DEF top
    <3>5. x <= 3329 => 0 <= top /\ top <= 15
      BY <1>2, <3>2, <3>3, <3>4
    <3>6. x > 3329 => 16 <= top /\ top <= 31
      BY <1>2, <2>2, <3>2, <3>3, <3>4
    <3> QED
      BY <1>2, <2>1, <3>1, <3>4, <3>5, <3>6
  <2>3. CASE x > 4095
    <3>1. a1 = 1 /\ a0 = x - 4096
      BY <1>2, <2>3
    <3> HIDE DEF a1, a0
    <3>2. low \in Int /\ 4096 * low <= a0 * 2811 /\ a0 * 2811 < 4096 * low + 4096
      BY <1>2, <3>1
    <3> HIDE DEF low
    <3>3. top \in Int /\ 4096 * top <= mid /\ mid < 4096 * top + 4096 /\ mid = 2811 + a0 * 19 + low
      BY <1>2, <3>1, <3>2
    <3> HIDE DEF mid, top
    <3>4. 0 <= top /\ top <= 12
      BY <1>2, <2>3, <3>1, <3>2, <3>3
    <3> QED
      BY <1>2, <2>1, <2>3, <3>1, <3>3, <3>4
  <2> QED
    BY <1>2, <2>2, <2>3
<1>3. Kem!ToBit(u) = IF t >= 0 THEN Kem!ScaledDown(t, 80635, 4) % 2
                     ELSE (-1 - Kem!ScaledDown(-t, 80635, 4)) % 2
  BY DEF Kem!ToBit
<1>4. CASE t >= 0
  <2>1. Kem!ScaledDown(t, 80635, 4) = IF t <= 3329 THEN 0 ELSE 1
    <3> HIDE DEF t
    <3> QED
      BY <1>1, <1>2, <1>4
  <2> QED
    BY <1>1, <1>3, <1>4, <2>1
<1>5. CASE t < 0
  <2> DEFINE x == -t
  <2>1. x \in Int /\ 0 <= x /\ x <= 1663
    BY <1>1, <1>5
  <2>2. Kem!ScaledDown(x, 80635, 4) = 0
    <3> HIDE DEF x
    <3> QED
      BY <1>2, <2>1
  <2> QED
    BY <1>1, <1>3, <1>5, <2>2
<1> QED
  BY <1>1, <1>4, <1>5

\* The residue of x is so near to 0 that a coefficient with the bit b, and x
\* added, still decodes to b: within 832 of 0, or one less above for a one.
Tolerable(x, b) == (x + 832) % 3329 <= 1664 - b

LEMMA BitReturns ==
  ASSUME NEW b \in {0, 1}, NEW u, Between(u, 1664), NEW x \in Int, Cong(u, Kem!FromBit(b) + x)
  PROVE  Kem!ToBit(u) = b <=> Tolerable(x, b)
<1>1. u \in Int /\ -1664 <= u /\ u <= 1664
  BY DEF Between
<1>2. Kem!ToBit(u) = IF -832 <= u /\ u <= 832 THEN 0 ELSE 1
  BY ToBitIs
<1>3. CASE b = 0
  <2>1. Kem!FromBit(b) = 0
    BY <1>3 DEF Kem!FromBit
  <2>2. (u - x) % 3329 = 0
    BY <2>1 DEF Cong
  <2> QED
    BY <1>1, <1>2, <1>3, <2>2 DEF Tolerable
<1>4. CASE b = 1
  <2>1. Kem!FromBit(b) = 1665
    BY <1>4 DEF Kem!FromBit, Kem!Q
  <2>2. (u - (1665 + x)) % 3329 = 0
    BY <2>1 DEF Cong
  <2> QED
    BY <1>1, <1>2, <1>4, <2>2 DEF Tolerable
<1> QED
  BY <1>3, <1>4

\* A byte is its bits.
LEMMA ByteIsBits ==
  ASSUME NEW x \in Int, 0 <= x, x <= 255,
         NEW t0 \in 0..1, NEW t1 \in 0..1, NEW t2 \in 0..1, NEW t3 \in 0..1,
         NEW t4 \in 0..1, NEW t5 \in 0..1, NEW t6 \in 0..1, NEW t7 \in 0..1
  PROVE  x = t0 + t1 * 2 + t2 * 4 + t3 * 8 + t4 * 16 + t5 * 32 + t6 * 64 + t7 * 128
         <=> /\ t0 = x % 2 /\ t1 = (x \div 2) % 2 /\ t2 = (x \div 4) % 2 /\ t3 = (x \div 8) % 2
             /\ t4 = (x \div 16) % 2 /\ t5 = (x \div 32) % 2 /\ t6 = (x \div 64) % 2
             /\ t7 = (x \div 128) % 2
<1> DEFINE x1 == x \div 2  x2 == x1 \div 2  x3 == x2 \div 2  x4 == x3 \div 2
           x5 == x4 \div 2  x6 == x5 \div 2  x7 == x6 \div 2
<1>1. /\ x \div 4 = x2 /\ x \div 8 = x3 /\ x \div 16 = x4 /\ x \div 32 = x5
      /\ x \div 64 = x6 /\ x \div 128 = x7
  OBVIOUS
<1>2. /\ x1 \in Int /\ x = 2 * x1 + (x % 2) /\ x2 \in Int /\ x1 = 2 * x2 + (x1 % 2)
      /\ x3 \in Int /\ x2 = 2 * x3 + (x2 % 2) /\ x4 \in Int /\ x3 = 2 * x4 + (x3 % 2)
      /\ x5 \in Int /\ x4 = 2 * x5 + (x4 % 2) /\ x6 \in Int /\ x5 = 2 * x6 + (x5 % 2)
      /\ x7 \in Int /\ x6 = 2 * x7 + (x6 % 2) /\ x7 = x7 % 2
      /\ x % 2 \in 0..1 /\ x1 % 2 \in 0..1 /\ x2 % 2 \in 0..1 /\ x3 % 2 \in 0..1
      /\ x4 % 2 \in 0..1 /\ x5 % 2 \in 0..1 /\ x6 % 2 \in 0..1 /\ x7 % 2 \in 0..1
  OBVIOUS
<1> DEFINE y0 == x % 2  y1 == x1 % 2  y2 == x2 % 2  y3 == x3 % 2
           y4 == x4 % 2  y5 == x5 % 2  y6 == x6 % 2  y7 == x7 % 2
<1>3. /\ x = y0 + y1 * 2 + y2 * 4 + y3 * 8 + y4 * 16 + y5 * 32 + y6 * 64 + y7 * 128
      /\ y0 \in 0..1 /\ y1 \in 0..1 /\ y2 \in 0..1 /\ y3 \in 0..1
      /\ y4 \in 0..1 /\ y5 \in 0..1 /\ y6 \in 0..1 /\ y7 \in 0..1
  <2> HIDE DEF x1, x2, x3, x4, x5, x6, x7
  <2> QED
    BY <1>2
<1> HIDE DEF y0, y1, y2, y3, y4, y5, y6, y7
<1>4. x = t0 + t1 * 2 + t2 * 4 + t3 * 8 + t4 * 16 + t5 * 32 + t6 * 64 + t7 * 128
      <=> /\ t0 = y0 /\ t1 = y1 /\ t2 = y2 /\ t3 = y3 /\ t4 = y4 /\ t5 = y5 /\ t6 = y6 /\ t7 = y7
  BY <1>3
<1> QED
  BY <1>1, <1>4 DEF y0, y1, y2, y3, y4, y5, y6, y7

\* The bits of byte n of a message are those of x.
HasBits(m, n, x) ==
    /\ Kem!Bit(m, 8 * n) = x % 2 /\ Kem!Bit(m, 8 * n + 1) = (x \div 2) % 2
    /\ Kem!Bit(m, 8 * n + 2) = (x \div 4) % 2 /\ Kem!Bit(m, 8 * n + 3) = (x \div 8) % 2
    /\ Kem!Bit(m, 8 * n + 4) = (x \div 16) % 2 /\ Kem!Bit(m, 8 * n + 5) = (x \div 32) % 2
    /\ Kem!Bit(m, 8 * n + 6) = (x \div 64) % 2 /\ Kem!Bit(m, 8 * n + 7) = (x \div 128) % 2

LEMMA BitsOfByte ==
  ASSUME NEW m, NEW n \in 0..31, m[n] \in 0..255
  PROVE  HasBits(m, n, m[n])
<1> DEFINE x == m[n]
<1>1. Kem!Bit(m, 8 * n) = x % 2
  <2>1. (8 * n) \div 8 = n /\ (8 * n) % 8 = 0 /\ 2^0 = 1
    OBVIOUS
  <2>2. Kem!Bit(m, 8 * n) = (x \div 1) % 2
    BY <2>1 DEF Kem!Bit
  <2> QED
    BY <2>2
<1>2. Kem!Bit(m, 8 * n + 1) = (x \div 2) % 2
  <2>1. (8 * n + 1) \div 8 = n /\ (8 * n + 1) % 8 = 1 /\ 2^1 = 2
    OBVIOUS
  <2>2. Kem!Bit(m, 8 * n + 1) = (x \div 2) % 2
    BY <2>1 DEF Kem!Bit
  <2> QED
    BY <2>2
<1>3. Kem!Bit(m, 8 * n + 2) = (x \div 4) % 2
  <2>1. (8 * n + 2) \div 8 = n /\ (8 * n + 2) % 8 = 2 /\ 2^2 = 4
    OBVIOUS
  <2>2. Kem!Bit(m, 8 * n + 2) = (x \div 4) % 2
    BY <2>1 DEF Kem!Bit
  <2> QED
    BY <2>2
<1>4. Kem!Bit(m, 8 * n + 3) = (x \div 8) % 2
  <2>1. (8 * n + 3) \div 8 = n /\ (8 * n + 3) % 8 = 3 /\ 2^3 = 8
    OBVIOUS
  <2>2. Kem!Bit(m, 8 * n + 3) = (x \div 8) % 2
    BY <2>1 DEF Kem!Bit
  <2> QED
    BY <2>2
<1>5. Kem!Bit(m, 8 * n + 4) = (x \div 16) % 2
  <2>1. (8 * n + 4) \div 8 = n /\ (8 * n + 4) % 8 = 4 /\ 2^4 = 16
    OBVIOUS
  <2>2. Kem!Bit(m, 8 * n + 4) = (x \div 16) % 2
    BY <2>1 DEF Kem!Bit
  <2> QED
    BY <2>2
<1>6. Kem!Bit(m, 8 * n + 5) = (x \div 32) % 2
  <2>1. (8 * n + 5) \div 8 = n /\ (8 * n + 5) % 8 = 5 /\ 2^5 = 32
    OBVIOUS
  <2>2. Kem!Bit(m, 8 * n + 5) = (x \div 32) % 2
    BY <2>1 DEF Kem!Bit
  <2> QED
    BY <2>2
<1>7. Kem!Bit(m, 8 * n + 6) = (x \div 64) % 2
  <2>1. (8 * n + 6) \div 8 = n /\ (8 * n + 6) % 8 = 6 /\ 2^6 = 64
    OBVIOUS
  <2>2. Kem!Bit(m, 8 * n + 6) = (x \div 64) % 2
    BY <2>1 DEF Kem!Bit
  <2> QED
    BY <2>2
<1>8. Kem!Bit(m, 8 * n + 7) = (x \div 128) % 2
  <2>1. (8 * n + 7) \div 8 = n /\ (8 * n + 7) % 8 = 7 /\ 2^7 = 128
    OBVIOUS
  <2>2. Kem!Bit(m, 8 * n + 7) = (x \div 128) % 2
    BY <2>1 DEF Kem!Bit
  <2> QED
    BY <2>2
<1> QED
  BY <1>1, <1>2, <1>3, <1>4, <1>5, <1>6, <1>7, <1>8 DEF HasBits

\* A message comes back if each of its bits does.
LEMMA MessageReturns ==
  ASSUME NEW m \in [0..31 -> 0..255], NEW a, Kem!Within(a, 1664)
  PROVE  Kem!poly_tomsg(a) = m <=> \A j \in Kem!Index : Kem!ToBit(a[j]) = Kem!Bit(m, j)
<1> DEFINE T(j) == Kem!ToBit(a[j])
           B(j) == Kem!Bit(m, j)
           M == Kem!poly_tomsg(a)
<1>1. ASSUME NEW j \in Kem!Index PROVE T(j) \in 0..1
  <2>1. Between(a[j], 1664)
    BY WithinMeans
  <2>2. T(j) = 0 \/ T(j) = 1
    BY <2>1, ToBitIs
  <2> QED
    BY <2>2
<1>2. ASSUME NEW n \in 0..31
      PROVE  /\ 8 * n \in Kem!Index
             /\ \A i \in 0..7 : 8 * n + i \in Kem!Index
  BY DEF Kem!Index
<1>3. ASSUME NEW n \in 0..31
      PROVE  M[n] = T(8 * n) + T(8 * n + 1) * 2 + T(8 * n + 2) * 4 + T(8 * n + 3) * 8
                    + T(8 * n + 4) * 16 + T(8 * n + 5) * 32 + T(8 * n + 6) * 64 + T(8 * n + 7) * 128
  <2> DEFINE U(i) == T(8 * n + i) * 2^i
  <2>1. M[n] = U(0) + U(1) + U(2) + U(3) + U(4) + U(5) + U(6) + U(7)
    BY DEF Kem!poly_tomsg
  <2>2. 8 * n + 0 = 8 * n
    OBVIOUS
  <2>3. U(0) = T(8 * n)
    <3>1. T(8 * n) \in 0..1 /\ 2^0 = 1
      BY <1>1, <1>2
    <3> HIDE DEF T
    <3> QED
      BY <2>2, <3>1
  <2>4. U(1) = T(8 * n + 1) * 2
    <3>1. T(8 * n + 1) \in 0..1 /\ 2^1 = 2
      BY <1>1, <1>2
    <3> HIDE DEF T
    <3> QED
      BY <2>2, <3>1
  <2>5. U(2) = T(8 * n + 2) * 4
    <3>1. T(8 * n + 2) \in 0..1 /\ 2^2 = 4
      BY <1>1, <1>2
    <3> HIDE DEF T
    <3> QED
      BY <2>2, <3>1
  <2>6. U(3) = T(8 * n + 3) * 8
    <3>1. T(8 * n + 3) \in 0..1 /\ 2^3 = 8
      BY <1>1, <1>2
    <3> HIDE DEF T
    <3> QED
      BY <2>2, <3>1
  <2>7. U(4) = T(8 * n + 4) * 16
    <3>1. T(8 * n + 4) \in 0..1 /\ 2^4 = 16
      BY <1>1, <1>2
    <3> HIDE DEF T
    <3> QED
      BY <2>2, <3>1
  <2>8. U(5) = T(8 * n + 5) * 32
    <3>1. T(8 * n + 5) \in 0..1 /\ 2^5 = 32
      BY <1>1, <1>2
    <3> HIDE DEF T
    <3> QED
      BY <2>2, <3>1
  <2>9. U(6) = T(8 * n + 6) * 64
    <3>1. T(8 * n + 6) \in 0..1 /\ 2^6 = 64
      BY <1>1, <1>2
    <3> HIDE DEF T
    <3> QED
      BY <2>2, <3>1
  <2>10. U(7) = T(8 * n + 7) * 128
    <3>1. T(8 * n + 7) \in 0..1 /\ 2^7 = 128
      BY <1>1, <1>2
    <3> HIDE DEF T
    <3> QED
      BY <2>2, <3>1
  <2> HIDE DEF U
  <2> QED
    BY <2>1, <2>3, <2>4, <2>5, <2>6, <2>7, <2>8, <2>9, <2>10
<1>4. ASSUME NEW n \in 0..31
      PROVE  M[n] = m[n] <=>
               /\ T(8 * n) = B(8 * n) /\ T(8 * n + 1) = B(8 * n + 1)
               /\ T(8 * n + 2) = B(8 * n + 2) /\ T(8 * n + 3) = B(8 * n + 3)
               /\ T(8 * n + 4) = B(8 * n + 4) /\ T(8 * n + 5) = B(8 * n + 5)
               /\ T(8 * n + 6) = B(8 * n + 6) /\ T(8 * n + 7) = B(8 * n + 7)
  <2> DEFINE x == m[n]
             t0 == T(8 * n)      t1 == T(8 * n + 1)  t2 == T(8 * n + 2)  t3 == T(8 * n + 3)
             t4 == T(8 * n + 4)  t5 == T(8 * n + 5)  t6 == T(8 * n + 6)  t7 == T(8 * n + 7)
  <2>1. x \in Int /\ 0 <= x /\ x <= 255 /\ x \in 0..255
    OBVIOUS
  <2>2. /\ t0 \in 0..1 /\ t1 \in 0..1 /\ t2 \in 0..1 /\ t3 \in 0..1
        /\ t4 \in 0..1 /\ t5 \in 0..1 /\ t6 \in 0..1 /\ t7 \in 0..1
    BY <1>1, <1>2
  <2>3. M[n] = t0 + t1 * 2 + t2 * 4 + t3 * 8 + t4 * 16 + t5 * 32 + t6 * 64 + t7 * 128
    BY <1>3
  <2>4. /\ B(8 * n) = x % 2 /\ B(8 * n + 1) = (x \div 2) % 2
        /\ B(8 * n + 2) = (x \div 4) % 2 /\ B(8 * n + 3) = (x \div 8) % 2
        /\ B(8 * n + 4) = (x \div 16) % 2 /\ B(8 * n + 5) = (x \div 32) % 2
        /\ B(8 * n + 6) = (x \div 64) % 2 /\ B(8 * n + 7) = (x \div 128) % 2
    <3>1. m[n] \in 0..255
      OBVIOUS
    <3>2. HasBits(m, n, m[n])
      BY <3>1, BitsOfByte
    <3> QED
      BY <3>2 DEF HasBits
  <2> HIDE DEF x, t0, t1, t2, t3, t4, t5, t6, t7, B, M
  <2>5. x = t0 + t1 * 2 + t2 * 4 + t3 * 8 + t4 * 16 + t5 * 32 + t6 * 64 + t7 * 128
         <=> /\ t0 = x % 2 /\ t1 = (x \div 2) % 2 /\ t2 = (x \div 4) % 2 /\ t3 = (x \div 8) % 2
             /\ t4 = (x \div 16) % 2 /\ t5 = (x \div 32) % 2 /\ t6 = (x \div 64) % 2
             /\ t7 = (x \div 128) % 2
    BY <2>1, <2>2, ByteIsBits
  <2>6. M[n] = x <=>
          /\ t0 = B(8 * n) /\ t1 = B(8 * n + 1) /\ t2 = B(8 * n + 2) /\ t3 = B(8 * n + 3)
          /\ t4 = B(8 * n + 4) /\ t5 = B(8 * n + 5) /\ t6 = B(8 * n + 6) /\ t7 = B(8 * n + 7)
    BY <2>3, <2>4, <2>5
  <2> QED
    BY <2>6 DEF x, t0, t1, t2, t3, t4, t5, t6, t7
<1>5. M = m <=> \A n \in 0..31 : M[n] = m[n]
  <2>1. M = [n \in 0..31 |-> M[n]]
    BY DEF Kem!poly_tomsg
  <2>2. m = [n \in 0..31 |-> m[n]]
    OBVIOUS
  <2> HIDE DEF M
  <2> QED
    BY <2>1, <2>2
<1>6. ASSUME \A n \in 0..31 : M[n] = m[n], NEW j \in Kem!Index PROVE T(j) = B(j)
  <2> DEFINE n == j \div 8
             i == j % 8
  <2>1. n \in 0..31 /\ i \in 0..7 /\ j = 8 * n + i
    BY DEF Kem!Index
  <2> HIDE DEF n, i
  <2>2. /\ T(8 * n) = B(8 * n) /\ T(8 * n + 1) = B(8 * n + 1)
        /\ T(8 * n + 2) = B(8 * n + 2) /\ T(8 * n + 3) = B(8 * n + 3)
        /\ T(8 * n + 4) = B(8 * n + 4) /\ T(8 * n + 5) = B(8 * n + 5)
        /\ T(8 * n + 6) = B(8 * n + 6) /\ T(8 * n + 7) = B(8 * n + 7)
    BY <1>4, <1>6, <2>1
  <2>3. \/ j = 8 * n \/ j = 8 * n + 1 \/ j = 8 * n + 2 \/ j = 8 * n + 3
        \/ j = 8 * n + 4 \/ j = 8 * n + 5 \/ j = 8 * n + 6 \/ j = 8 * n + 7
    BY <2>1
  <2> HIDE DEF T, B
  <2> QED
    BY <2>2, <2>3
<1>7. ASSUME \A j \in Kem!Index : T(j) = B(j), NEW n \in 0..31 PROVE M[n] = m[n]
  <2>1. /\ T(8 * n) = B(8 * n) /\ T(8 * n + 1) = B(8 * n + 1)
        /\ T(8 * n + 2) = B(8 * n + 2) /\ T(8 * n + 3) = B(8 * n + 3)
        /\ T(8 * n + 4) = B(8 * n + 4) /\ T(8 * n + 5) = B(8 * n + 5)
        /\ T(8 * n + 6) = B(8 * n + 6) /\ T(8 * n + 7) = B(8 * n + 7)
    <3> HIDE DEF T, B
    <3> QED
      BY <1>2, <1>7
  <2> QED
    BY <1>4, <2>1
<1> HIDE DEF M
<1>8. M = m <=> \A j \in Kem!Index : T(j) = B(j)
  <2> HIDE DEF T, B
  <2> QED
    BY <1>5, <1>6, <1>7
<1> QED
  BY <1>8 DEF M

\* No coefficient of the noise is so great that its bit is lost.
Quiet(coins, m) == \A j \in Kem!Index : Tolerable(Noise(coins, m)[j], Kem!Bit(m, j))

LEMMA BitIsBit ==
  ASSUME NEW m \in [0..31 -> 0..255], NEW j \in Kem!Index PROVE Kem!Bit(m, j) \in {0, 1}
<1>1. j \in Int /\ 0 <= j /\ j \div 8 \in 0..31
  BY DEF Kem!Index
<1>2. Octet(m[j \div 8])
  <2> DEFINE k == j \div 8
             y == m[k]
  <2>1. k \in 0..31
    BY <1>1
  <2> HIDE DEF k
  <2>2. y \in 0..255
    BY <2>1
  <2>3. y \in Int /\ 0 <= y /\ y <= 255
    <3> HIDE DEF y
    <3> QED
      BY <2>2
  <2>4. Octet(y)
    BY <2>3 DEF Octet
  <2> QED
    BY <2>4 DEF k
<1>3. Between(Kem!Bit(m, j), 1) /\ 0 <= Kem!Bit(m, j)
  BY <1>1, <1>2, BitRange
<1> QED
  BY <1>3 DEF Between

\* The gateway decrypts to the message that was encrypted if the noise is
\* tolerable in every coefficient, and only then (indcpa_enc, indcpa_dec and
\* indcpa_keypair, through packing, compression and both transforms).
THEOREM DecryptsIfQuiet ==
  ASSUME SamplersTyped, MatrixReduced, NEW coins, NEW m \in [0..31 -> 0..255]
  PROVE  Decrypted(CiphertextOf(m, PkOf(coins)), KeypairOf(coins).sk) = m <=> Quiet(coins, m)
<1> DEFINE a == DecryptedPoly(CiphertextOf(m, PkOf(coins)), KeypairOf(coins).sk)
<1>1. Kem!Within(a, 1664)
  <2> DEFINE S == SecretIn(KeypairOf(coins).sk)
             U == Kem!polyvec_ntt(Kem!polyvec_decompress(CiphertextOf(m, PkOf(coins)).b))
             w == Kem!poly_decompress(CiphertextOf(m, PkOf(coins)).v)
             x == Kem!invntt(Kem!polyvec_basemul_acc_montgomery(S, U))
  <2>1. VecSmall(S) /\ VecSmall(U) /\ VecSmall(KeyIn(PkOf(coins)))
    BY KeyInRing, FirstPartInRing DEF VecSmall
  <2>2. w = Kem!poly_decompress(Kem!poly_compress(SumOf(m, PkOf(coins)).v))
    BY DEF CiphertextOf, Kem!pack_ciphertext
  <2>3. VecSmall(SenderNtt(m, PkOf(coins)))
    BY SenderRanges
  <2>4. Kem!Within(w, 3329)
    BY <2>1, <2>2, <2>3, SecondPart
  <2>5. a = Kem!poly_reduce(Kem!poly_sub(w, x))
    BY DEF DecryptedPoly
  <2>6. \A j \in Kem!Index : Between(x[j], 3328)
    BY <2>1, AccNarrow
  <2> HIDE DEF a, w, x
  <2>7. IntPoly(w) /\ IntPoly(x)
    BY <2>4, <2>6, WithinIsInt DEF IntPoly, Between
  <2> QED
    BY <2>5, <2>7, AddShort, ReduceWithin
<1>2. \A j \in Kem!Index : Cong(a[j], Kem!poly_frommsg(m)[j] + Noise(coins, m)[j])
  BY DecryptionNoise
<1> HIDE DEF a
<1>3. ASSUME NEW j \in Kem!Index
      PROVE  Kem!ToBit(a[j]) = Kem!Bit(m, j) <=> Tolerable(Noise(coins, m)[j], Kem!Bit(m, j))
  <2> DEFINE b == Kem!Bit(m, j)
             u == a[j]
             x == Noise(coins, m)[j]
  <2>1. b \in {0, 1} /\ Between(u, 1664) /\ x \in Int
    BY <1>1, BitIsBit, WithinMeans, NoiseInt
  <2>2. Cong(u, Kem!FromBit(b) + x)
    BY <1>2, MessageRange
  <2> HIDE DEF b, u, x
  <2>3. Kem!ToBit(u) = b <=> Tolerable(x, b)
    BY <2>1, <2>2, BitReturns
  <2> QED
    BY <2>3 DEF b, u, x
<1>4. Kem!poly_tomsg(a) = m <=> \A j \in Kem!Index : Kem!ToBit(a[j]) = Kem!Bit(m, j)
  BY <1>1, MessageReturns
<1>5. Kem!poly_tomsg(a) = m <=> Quiet(coins, m)
  BY <1>3, <1>4 DEF Quiet
<1> QED
  BY <1>5 DEF a, Decrypted

-----------------------------------------------------------------------------
(* What every step of ML-KEM has computed: a keypair is one of coins, the  *)
(* message that is encrypted again is the one that was decrypted, and the  *)
(* secret that is found follows from keypair and ciphertext.               *)

\* The steps of the keypair that is made from coins.
SampledKey(coins) ==
    [stage |-> "keypair noise", seed |-> Kem!Left(KeySeeds(coins)), z |-> Kem!Right(coins),
     a |-> MatrixOf(coins), skpv |-> SecretOf(coins), e |-> ErrorOf(coins)]
TransformedKey(coins) ==
    [stage |-> "keypair ntt", seed |-> Kem!Left(KeySeeds(coins)), z |-> Kem!Right(coins),
     a |-> MatrixOf(coins), skpv |-> SecretNtt(coins), e |-> ErrorNtt(coins)]

\* The steps of the decryption of c with sk.
UnpackedC(c) ==
    [stage |-> "dec unpacked", b |-> Kem!polyvec_decompress(c.b), v |-> Kem!poly_decompress(c.v)]
TransformedC(c) ==
    [stage |-> "dec ntt", b |-> Kem!polyvec_ntt(Kem!polyvec_decompress(c.b)),
     v |-> Kem!poly_decompress(c.v)]
MultipliedC(c, sk) ==
    [stage |-> "dec product", v |-> Kem!poly_decompress(c.v),
     mp |-> Kem!polyvec_basemul_acc_montgomery(SecretIn(sk),
                Kem!polyvec_ntt(Kem!polyvec_decompress(c.b)))]
SubtractedC(c, sk) == [stage |-> "dec message", mp |-> DecryptedPoly(c, sk)]

\* The encryption of what c is decrypted to with the keypair k.
Reencrypted(c, k) == CiphertextOf(Decrypted(c, k.sk), k.pk)

\* The secret that is found for c with the keypair k.
FoundOf(c, k) ==
    IF c = Reencrypted(c, k) THEN Kem!Left(Drawn(Decrypted(c, k.sk), k.pk))
    ELSE Kem!rkprf(k.sk.z, c)

KeyJob ==
    /\ job.stage = "keypair noise" => \E coins \in Coins : job = SampledKey(coins)
    /\ job.stage = "keypair ntt" => \E coins \in Coins : job = TransformedKey(coins)
OpenJob ==
    /\ job.stage = "dec unpacked" => job = UnpackedC(ct)
    /\ job.stage = "dec ntt" => job = TransformedC(ct)
    /\ job.stage = "dec product" => job = MultipliedC(ct, keypair.sk)
    /\ job.stage = "dec message" => job = SubtractedC(ct, keypair.sk)
MessageJob ==
    job.stage \in Stages =>
        /\ job.who = "sender" => job.m \in Messages
        /\ job.who = "gateway" => job.m = Decrypted(ct, keypair.sk)
JobTraced == KeyJob /\ OpenJob /\ MessageJob

KeyTraced ==
    /\ keypair # <<>> => \E coins \in Coins : keypair = KeypairOf(coins)
    /\ given # <<>> => keypair # <<>> /\ \E coins \in Coins : given = PkOf(coins)
SentTraced ==
    ct # <<>> =>
        /\ given # <<>>
        /\ \E m \in Messages : sent.ss = Kem!Left(Drawn(m, given)) /\ sent.ct = CiphertextOf(m, given)
        /\ ct = sent.ct \/ ct \in Changes(sent.ct)
FoundTraced == ss # <<>> => ct # <<>> /\ ss = FoundOf(ct, keypair)

TraceInv == JobTraced /\ KeyTraced /\ SentTraced /\ FoundTraced

LEMMA TraceInit == Kem!Init => TraceInv
BY DEF Kem!Init, Kem!Idle, Kem!None, TraceInv, JobTraced, KeyJob, OpenJob, MessageJob, Stages,
       KeyTraced, SentTraced, FoundTraced

\* A step of the job only.
LEMMA TraceJob ==
  ASSUME TraceInv, JobTraced', UNCHANGED <<keypair, given, sent, ct, ss>>
  PROVE  TraceInv'
BY DEF TraceInv, KeyTraced, SentTraced, FoundTraced

LEMMA TraceIdle == ASSUME job' = Kem!Idle PROVE JobTraced'
BY DEF Kem!Idle, JobTraced, KeyJob, OpenJob, MessageJob, Stages

LEMMA TraceKeypairNoise == ASSUME TraceInv, Kem!KeypairNoise PROVE TraceInv'
<1>1. PICK coins \in Coins :
        LET g == Kem!hash_g(Kem!Left(coins), <<"k">>)
        IN  job' = [stage |-> "keypair noise", seed |-> Kem!Left(g), z |-> Kem!Right(coins),
                    a |-> Kem!gen_matrix(Kem!Left(g), FALSE),
                    skpv |-> [i \in Kem!Vec |-> Kem!cbd3(Prf(Kem!Right(g), i))],
                    e |-> [i \in Kem!Vec |-> Kem!cbd3(Prf(Kem!Right(g), 2 + i))]]
  BY DEF Kem!KeypairNoise
<1>2. job' = SampledKey(coins)
  BY <1>1 DEF SampledKey, KeySeeds, MatrixOf, SecretOf, ErrorOf
<1>3. job'.stage = "keypair noise"
  BY <1>1
<1>4. JobTraced'
  BY <1>2, <1>3 DEF JobTraced, KeyJob, OpenJob, MessageJob, Stages
<1> QED
  BY <1>4, TraceJob DEF Kem!KeypairNoise

LEMMA TraceKeypairNtt == ASSUME TraceInv, Kem!KeypairNtt PROVE TraceInv'
<1>1. /\ job.stage = "keypair noise" /\ UNCHANGED <<keypair, given, sent, ct, ss>>
      /\ job' = [job EXCEPT !.stage = "keypair ntt",
                            !.skpv = Kem!polyvec_ntt(@), !.e = Kem!polyvec_ntt(@)]
  BY DEF Kem!KeypairNtt
<1>2. PICK coins \in Coins : job = SampledKey(coins)
  BY <1>1 DEF TraceInv, JobTraced, KeyJob
<1>3. job' = TransformedKey(coins)
  BY <1>1, <1>2 DEF SampledKey, TransformedKey, SecretNtt, ErrorNtt
<1>4. job'.stage = "keypair ntt"
  BY <1>3 DEF TransformedKey
<1>5. JobTraced'
  BY <1>3, <1>4 DEF JobTraced, KeyJob, OpenJob, MessageJob, Stages
<1> QED
  BY <1>1, <1>5, TraceJob

LEMMA TracePack == ASSUME BindInv, TraceInv, Kem!KeypairPack PROVE TraceInv'
<1>1. job.stage = "keypair ntt" /\ job' = Kem!Idle /\ ss' = <<>> /\ UNCHANGED <<given, sent, ct>>
  BY DEF Kem!KeypairPack, Kem!None
<1>2. PICK coins \in Coins : job = TransformedKey(coins)
  BY <1>1 DEF TraceInv, JobTraced, KeyJob
<1>3. keypair' = KeypairOf(coins)
  <2> DEFINE pk == PackedKey(job.a, job.skpv, job.e, job.seed)
  <2>1. keypair' = [pk |-> pk, sk |-> [s |-> PackedSecret(job.skpv), pk |-> pk,
                                       h |-> Kem!hash_h(pk), z |-> job.z]]
    BY DEF Kem!KeypairPack, PackedKey, PackedSecret, KeyPoly, TimesSecret
  <2>2. /\ job.a = MatrixOf(coins) /\ job.skpv = SecretNtt(coins) /\ job.e = ErrorNtt(coins)
        /\ job.seed = Kem!Left(KeySeeds(coins)) /\ job.z = Kem!Right(coins)
    BY <1>2 DEF TransformedKey
  <2>3. pk = PkOf(coins)
    BY <2>2 DEF PkOf
  <2> HIDE DEF pk
  <2> QED
    BY <2>1, <2>2, <2>3 DEF KeypairOf
<1>4. keypair' # <<>>
  BY <1>3 DEF KeypairOf
<1>5. JobTraced'
  BY <1>1, TraceIdle
<1> QED
  BY <1>1, <1>3, <1>4, <1>5 DEF TraceInv, KeyTraced, SentTraced, FoundTraced

LEMMA TraceGive == ASSUME TraceInv, Kem!Give PROVE TraceInv'
<1>1. /\ job = Kem!Idle /\ keypair # <<>> /\ UNCHANGED <<job, keypair>> /\ given' = keypair.pk
      /\ sent' = <<>> /\ ct' = <<>> /\ ss' = <<>>
  BY DEF Kem!Give, Kem!None
<1>2. PICK coins \in Coins : keypair = KeypairOf(coins)
  BY <1>1 DEF TraceInv, KeyTraced
<1>3. keypair.pk = PkOf(coins)
  BY <1>2 DEF KeypairOf
<1>4. JobTraced'
  BY <1>1, TraceIdle
<1> QED
  BY <1>1, <1>2, <1>3, <1>4 DEF TraceInv, KeyTraced, SentTraced, FoundTraced

\* What the first stage of an encryption says of who and what.
LEMMA EncryptionSays ==
  ASSUME NEW who, NEW m, NEW pk, job' = Encryption(who, m, pk)
  PROVE  job'.stage = "enc noise" /\ job'.who = who /\ job'.m = m
BY DEF Encryption

LEMMA TraceEncapsulate == ASSUME TraceInv, Kem!Encapsulate PROVE TraceInv'
<1>1. PICK m \in Messages : job' = Encryption("sender", m, given)
  <2>1. \E m \in Messages : job' = Kem!Encrypting("sender", m, given, Kem!hash_h(given))
    BY DEF Kem!Encapsulate
  <2> QED
    BY <2>1, EncryptingIs
<1>2. job'.stage = "enc noise" /\ job'.who = "sender" /\ job'.m = m
  BY <1>1, EncryptionSays
<1>3. JobTraced'
  BY <1>2 DEF JobTraced, KeyJob, OpenJob, MessageJob, Stages
<1> QED
  BY <1>3, TraceJob DEF Kem!Encapsulate

LEMMA TraceReencrypt == ASSUME BindInv, TraceInv, Kem!DecReencrypt PROVE TraceInv'
<1>1. /\ job.stage = "dec message" /\ UNCHANGED <<keypair, given, sent, ct, ss>>
      /\ job' = Kem!Encrypting("gateway", Kem!poly_tomsg(job.mp), keypair.sk.pk, keypair.sk.h)
  BY DEF Kem!DecReencrypt
<1>2. KeyFits
  BY <1>1 DEF BindInv, Opening
<1>3. job' = Encryption("gateway", Kem!poly_tomsg(job.mp), keypair.pk)
  BY <1>1, <1>2, EncryptingIs DEF KeyFits
<1>4. job = SubtractedC(ct, keypair.sk)
  BY <1>1 DEF TraceInv, JobTraced, OpenJob
<1>5. Kem!poly_tomsg(job.mp) = Decrypted(ct, keypair.sk)
  BY <1>4 DEF SubtractedC, Decrypted
<1>6. job'.stage = "enc noise" /\ job'.who = "gateway" /\ job'.m = Decrypted(ct, keypair.sk)
  BY <1>3, <1>5, EncryptionSays
<1>7. JobTraced'
  BY <1>1, <1>6 DEF JobTraced, KeyJob, OpenJob, MessageJob, Stages
<1> QED
  BY <1>1, <1>7, TraceJob

\* A stage of an encryption keeps the message.
LEMMA StageKeeps ==
  ASSUME BindInv, Kem!EncNtt \/ Kem!EncMultiply \/ Kem!EncInverse \/ Kem!EncAdd
  PROVE  /\ job.stage \in Stages /\ job'.stage \in Stages
         /\ job'.who = job.who /\ job'.m = job.m
         /\ UNCHANGED <<keypair, given, sent, ct, ss>>
<1>1. CASE Kem!EncNtt
  <2>1. /\ job.stage = "enc noise" /\ UNCHANGED <<keypair, given, sent, ct, ss>>
        /\ job' = [job EXCEPT !.stage = "enc ntt", !.sp = Kem!polyvec_ntt(@)]
    BY <1>1 DEF Kem!EncNtt
  <2>2. PICK who, m, pk : job = Encryption(who, m, pk)
    BY <2>1 DEF BindInv, IsStage, Stages
  <2>3. job'.stage = "enc ntt" /\ job'.who = job.who /\ job'.m = job.m
    BY <2>1, <2>2 DEF Encryption
  <2> QED
    BY <2>1, <2>3 DEF Stages
<1>2. CASE Kem!EncMultiply
  BY <1>2 DEF Kem!EncMultiply, Stages
<1>3. CASE Kem!EncInverse
  <2>1. /\ job.stage = "enc product" /\ UNCHANGED <<keypair, given, sent, ct, ss>>
        /\ job' = [job EXCEPT !.stage = "enc inverse",
                              !.b = Kem!polyvec_invntt_tomont(@), !.v = Kem!invntt(@)]
    BY <1>3 DEF Kem!EncInverse
  <2>2. PICK who, m, pk, b, v : job = Rest("enc product", who, m, pk, b, v)
    BY <2>1 DEF BindInv, IsStage, Stages
  <2>3. job'.stage = "enc inverse" /\ job'.who = job.who /\ job'.m = job.m
    BY <2>1, <2>2 DEF Rest
  <2> QED
    BY <2>1, <2>3 DEF Stages
<1>4. CASE Kem!EncAdd
  <2>1. /\ job.stage = "enc inverse" /\ UNCHANGED <<keypair, given, sent, ct, ss>>
        /\ job' = [job EXCEPT !.stage = "enc sum",
                      !.b = Kem!polyvec_reduce(Kem!polyvec_add(@, job.ep)),
                      !.v = Kem!poly_reduce(Kem!poly_add(Kem!poly_add(@, job.epp), Kem!poly_frommsg(job.m)))]
    BY <1>4 DEF Kem!EncAdd
  <2>2. PICK who, m, pk, b, v : job = Rest("enc inverse", who, m, pk, b, v)
    BY <2>1 DEF BindInv, IsStage, Stages
  <2>3. job'.stage = "enc sum" /\ job'.who = job.who /\ job'.m = job.m
    BY <2>1, <2>2 DEF Rest
  <2> QED
    BY <2>1, <2>3 DEF Stages
<1> QED
  BY <1>1, <1>2, <1>3, <1>4

LEMMA TraceStage ==
  ASSUME BindInv, TraceInv, Kem!EncNtt \/ Kem!EncMultiply \/ Kem!EncInverse \/ Kem!EncAdd
  PROVE  TraceInv'
<1>1. /\ job.stage \in Stages /\ job'.stage \in Stages
      /\ job'.who = job.who /\ job'.m = job.m
      /\ UNCHANGED <<keypair, given, sent, ct, ss>>
  BY StageKeeps
<1>2. MessageJob'
  BY <1>1 DEF TraceInv, JobTraced, MessageJob
<1>3. KeyJob' /\ OpenJob'
  BY <1>1 DEF KeyJob, OpenJob, Stages
<1> QED
  BY <1>1, <1>2, <1>3, TraceJob DEF JobTraced

LEMMA TraceEncPack == ASSUME BindInv, TraceInv, Kem!EncPack PROVE TraceInv'
<1> DEFINE c == Kem!pack_ciphertext(job.b, job.v)
<1>1. job.stage = "enc sum" /\ job' = Kem!Idle /\ UNCHANGED <<keypair, given>>
  BY DEF Kem!EncPack
<1>2. job.stage \in Stages /\ JobTraced'
  BY <1>1, TraceIdle DEF Stages
<1>3. KeyTraced'
  BY <1>1 DEF TraceInv, KeyTraced
<1>4. CASE job.who = "sender" /\ sent' = [ct |-> c, ss |-> Kem!Left(job.kr)] /\ ct' = c /\ UNCHANGED ss
  <2>1. sent = <<>> /\ given # <<>> /\ IsStage(job, given) /\ job.m \in Messages /\ ss' = <<>>
    BY <1>2, <1>4 DEF BindInv, TraceInv, JobTraced, MessageJob
  <2>2. PICK m : c = CiphertextOf(m, given) /\ job.kr = Drawn(m, given) /\ job.m = m
    BY <1>1, <2>1, PackedIs
  <2> HIDE DEF c
  <2>3. sent'.ct = c /\ sent'.ss = Kem!Left(job.kr)
    BY <1>4
  <2>4. SentTraced'
    BY <1>1, <1>4, <2>1, <2>2, <2>3 DEF SentTraced
  <2> QED
    BY <1>2, <1>3, <2>1, <2>4 DEF TraceInv, FoundTraced
<1>5. CASE /\ job.who = "gateway" /\ UNCHANGED <<sent, ct>>
           /\ ss' = IF Kem!verify(ct, c) THEN Kem!rkprf(keypair.sk.z, ct) ELSE Kem!Left(job.kr)
  <2>1. ct # <<>> /\ IsStage(job, keypair.pk) /\ job.m = Decrypted(ct, keypair.sk)
    BY <1>2, <1>5 DEF BindInv, TraceInv, JobTraced, MessageJob
  <2>2. PICK m : c = CiphertextOf(m, keypair.pk) /\ job.kr = Drawn(m, keypair.pk) /\ job.m = m
    BY <1>1, <2>1, PackedIs
  <2> HIDE DEF c
  <2>3. c = Reencrypted(ct, keypair) /\ job.kr = Drawn(Decrypted(ct, keypair.sk), keypair.pk)
    BY <2>1, <2>2 DEF Reencrypted
  <2>4. ss' = FoundOf(ct, keypair)
    BY <1>5, <2>3 DEF FoundOf, Kem!verify
  <2>5. FoundTraced'
    BY <1>1, <1>5, <2>1, <2>4 DEF FoundTraced
  <2> QED
    BY <1>1, <1>2, <1>3, <1>5, <2>5 DEF TraceInv, SentTraced
<1> QED
  BY <1>4, <1>5 DEF Kem!EncPack

LEMMA TraceChange == ASSUME TraceInv, Kem!Change PROVE TraceInv'
<1>1. /\ job = Kem!Idle /\ ct # <<>> /\ ct = sent.ct /\ ss = <<>> /\ ct' \in Changes(ct)
      /\ UNCHANGED <<job, keypair, given, sent, ss>>
  BY DEF Kem!Change, Kem!None
<1>2. JobTraced'
  BY <1>1, TraceIdle
<1> QED
  BY <1>1, <1>2 DEF TraceInv, KeyTraced, SentTraced, FoundTraced

LEMMA TraceDecapsulate == ASSUME TraceInv, Kem!Decapsulate PROVE TraceInv'
<1>1. job' = UnpackedC(ct) /\ UNCHANGED <<keypair, given, sent, ct, ss>>
  BY DEF Kem!Decapsulate, UnpackedC
<1>2. job'.stage = "dec unpacked"
  BY <1>1 DEF UnpackedC
<1>3. JobTraced'
  BY <1>1, <1>2 DEF JobTraced, KeyJob, OpenJob, MessageJob, Stages
<1> QED
  BY <1>1, <1>3, TraceJob

LEMMA TraceDecNtt == ASSUME TraceInv, Kem!DecNtt PROVE TraceInv'
<1>1. /\ job.stage = "dec unpacked" /\ UNCHANGED <<keypair, given, sent, ct, ss>>
      /\ job' = [job EXCEPT !.stage = "dec ntt", !.b = Kem!polyvec_ntt(@)]
  BY DEF Kem!DecNtt
<1>2. job = UnpackedC(ct)
  BY <1>1 DEF TraceInv, JobTraced, OpenJob
<1>3. job' = TransformedC(ct)
  BY <1>1, <1>2 DEF UnpackedC, TransformedC
<1>4. job'.stage = "dec ntt"
  BY <1>3 DEF TransformedC
<1>5. JobTraced'
  BY <1>1, <1>3, <1>4 DEF JobTraced, KeyJob, OpenJob, MessageJob, Stages
<1> QED
  BY <1>1, <1>5, TraceJob

LEMMA TraceDecMultiply == ASSUME TraceInv, Kem!DecMultiply PROVE TraceInv'
<1>1. /\ job.stage = "dec ntt" /\ UNCHANGED <<keypair, given, sent, ct, ss>>
      /\ job' = [stage |-> "dec product", v |-> job.v,
                 mp |-> Kem!polyvec_basemul_acc_montgomery(SecretIn(keypair.sk), job.b)]
  BY DEF Kem!DecMultiply, SecretIn
<1>2. job.v = Kem!poly_decompress(ct.v) /\ job.b = Kem!polyvec_ntt(Kem!polyvec_decompress(ct.b))
  <2>1. job = TransformedC(ct)
    BY <1>1 DEF TraceInv, JobTraced, OpenJob
  <2> QED
    BY <2>1 DEF TransformedC
<1>3. job' = MultipliedC(ct, keypair.sk)
  BY <1>1, <1>2 DEF MultipliedC
<1>4. job'.stage = "dec product"
  BY <1>1
<1>5. JobTraced'
  BY <1>1, <1>3, <1>4 DEF JobTraced, KeyJob, OpenJob, MessageJob, Stages
<1> QED
  BY <1>1, <1>5, TraceJob

LEMMA TraceDecSubtract == ASSUME TraceInv, Kem!DecSubtract PROVE TraceInv'
<1>1. /\ job.stage = "dec product" /\ UNCHANGED <<keypair, given, sent, ct, ss>>
      /\ job' = [stage |-> "dec message", mp |-> Kem!poly_reduce(Kem!poly_sub(job.v, Kem!invntt(job.mp)))]
  BY DEF Kem!DecSubtract
<1>2. /\ job.v = Kem!poly_decompress(ct.v)
      /\ job.mp = Kem!polyvec_basemul_acc_montgomery(SecretIn(keypair.sk),
                      Kem!polyvec_ntt(Kem!polyvec_decompress(ct.b)))
  <2>1. job = MultipliedC(ct, keypair.sk)
    BY <1>1 DEF TraceInv, JobTraced, OpenJob
  <2> QED
    BY <2>1 DEF MultipliedC
<1>3. job' = SubtractedC(ct, keypair.sk)
  BY <1>1, <1>2 DEF SubtractedC, DecryptedPoly
<1>4. job'.stage = "dec message"
  BY <1>1
<1>5. JobTraced'
  BY <1>1, <1>3, <1>4 DEF JobTraced, KeyJob, OpenJob, MessageJob, Stages
<1> QED
  BY <1>1, <1>5, TraceJob

LEMMA TraceStep == BindInv /\ TraceInv /\ [Kem!Next]_kemVars => TraceInv'
<1> SUFFICES ASSUME BindInv, TraceInv, [Kem!Next]_kemVars PROVE TraceInv'
  OBVIOUS
<1>1. CASE Kem!Next
  BY <1>1, TraceKeypairNoise, TraceKeypairNtt, TracePack, TraceGive, TraceEncapsulate, TraceStage,
     TraceEncPack, TraceChange, TraceDecapsulate, TraceDecNtt, TraceDecMultiply, TraceDecSubtract,
     TraceReencrypt DEF Kem!Next
<1>2. CASE UNCHANGED kemVars
  BY <1>2 DEF kemVars, TraceInv, JobTraced, KeyJob, OpenJob, MessageJob, KeyTraced, SentTraced,
              FoundTraced
<1> QED
  BY <1>1, <1>2

LEMMA TraceAlways == Spec => []TraceInv
<1>1. Init => TraceInv
  BY TraceInit DEF Init
<1>2. BindInv /\ TraceInv /\ [Next]_vars => TraceInv'
  BY TraceStep, KemMoves
<1> QED
  BY <1>1, <1>2, BindAlways, PTL DEF Spec

\* The secret that the gateway finds follows from its keypair and from the
\* ciphertext: that of the message which the ciphertext is decrypted to if the
\* encryption of this message is the ciphertext, otherwise the pseudo-random
\* one, and nothing else (crypto_kem_dec with verify and cmov, every step of
\* indcpa_dec and indcpa_enc between).
SecretFollows == ss # <<>> => ss = FoundOf(ct, keypair)

THEOREM SecretsFollow == Spec => []SecretFollows
<1>1. TraceInv => SecretFollows
  BY DEF TraceInv, FoundTraced, SecretFollows
<1> QED
  BY <1>1, TraceAlways, PTL

\* With its own keypair and an unchanged ciphertext the gateway finds the
\* sender's secret if the noise of the message is tolerable in each of its 256
\* coefficients, and only then: all the rest of the arithmetic (transforms,
\* Montgomery and Barrett reductions, packing) is exact.
QuietlyAgree ==
    ss # <<>> /\ given = keypair.pk /\ ct = sent.ct =>
        \E coins \in Coins, m \in Messages :
            /\ keypair = KeypairOf(coins)
            /\ sent.ct = CiphertextOf(m, keypair.pk)
            /\ sent.ss = Kem!Left(Drawn(m, keypair.pk))
            /\ ss = sent.ss <=> Quiet(coins, m)

LEMMA TraceAgrees ==
  ASSUME SamplersTyped, MatrixReduced, TraceInv PROVE QuietlyAgree
<1> SUFFICES ASSUME ss # <<>>, given = keypair.pk, ct = sent.ct
             PROVE  \E coins \in Coins, m \in Messages :
                       /\ keypair = KeypairOf(coins)
                       /\ sent.ct = CiphertextOf(m, keypair.pk)
                       /\ sent.ss = Kem!Left(Drawn(m, keypair.pk))
                       /\ ss = sent.ss <=> Quiet(coins, m)
  BY DEF QuietlyAgree
<1>1. ct # <<>> /\ given # <<>> /\ keypair # <<>> /\ ss = FoundOf(ct, keypair)
  BY DEF TraceInv, FoundTraced, SentTraced, KeyTraced
<1>2. PICK coins \in Coins : keypair = KeypairOf(coins)
  BY <1>1 DEF TraceInv, KeyTraced
<1>3. PICK m \in Messages :
         sent.ss = Kem!Left(Drawn(m, keypair.pk)) /\ sent.ct = CiphertextOf(m, keypair.pk)
  BY <1>1 DEF TraceInv, SentTraced
<1>4. keypair.pk = PkOf(coins) /\ keypair.sk = KeypairOf(coins).sk
  BY <1>2 DEF KeypairOf
<1>5. m \in [0..31 -> 0..255]
  BY RoutineAssumption DEF Kem!KemAssumption
<1> DEFINE n == Decrypted(ct, keypair.sk)
<1>6. n = m <=> Quiet(coins, m)
  BY <1>3, <1>4, <1>5, DecryptsIfQuiet
<1>7. ss = IF ct = CiphertextOf(n, keypair.pk) THEN Kem!Left(Drawn(n, keypair.pk))
           ELSE Kem!rkprf(keypair.sk.z, ct)
  BY <1>1 DEF FoundOf, Reencrypted
<1> HIDE DEF n
<1>8. n = m => ss = sent.ss
  BY <1>3, <1>7
<1>9. ss = sent.ss => n = m
  BY <1>3, <1>7, RejectionDiffers, SecretsDiffer
<1> QED
  BY <1>2, <1>3, <1>6, <1>8, <1>9

THEOREM SecretsAgreeIffQuiet == ASSUME SamplersTyped, MatrixReduced PROVE Spec => []QuietlyAgree
<1>1. TraceInv => QuietlyAgree
  BY TraceAgrees
<1> QED
  BY <1>1, TraceAlways, PTL

\* Both boards have the same secret, for any coins and messages whose noise is
\* tolerable (crypto_kem_enc against crypto_kem_dec).
THEOREM SecretsAgreeIfQuiet ==
  ASSUME SamplersTyped, MatrixReduced, \A coins \in Coins, m \in Messages : Quiet(coins, m)
  PROVE  Spec => []SecretsAgree
<1>1. TraceInv => SecretsAgree
  <2> SUFFICES ASSUME TraceInv, ss # <<>>, given = keypair.pk, ct = sent.ct PROVE ss = sent.ss
    BY DEF SecretsAgree, Kem!SecretsAgree, Kem!None
  <2> QED
    BY TraceAgrees DEF QuietlyAgree
<1> QED
  BY <1>1, TraceAlways, PTL

\* No ciphertext that was changed, or made for another public key, is the
\* encryption of what it is decrypted to.
NeverReencrypted ==
    \A coins \in Coins, other \in Coins, m \in Messages :
        LET c == CiphertextOf(m, PkOf(other))
        IN  /\ PkOf(other) # PkOf(coins) => c # Reencrypted(c, KeypairOf(coins))
            /\ \A d \in Changes(c) : d # c => d # Reencrypted(d, KeypairOf(coins))

\* With another keypair or a changed ciphertext the gateway finds a secret
\* made of its own z, if no such ciphertext is a proper one for the gateway
\* (the comparison with the re-encryption and cmov in crypto_kem_dec).
THEOREM RejectsIfNeverReencrypted ==
  ASSUME NeverReencrypted PROVE Spec => []RejectsImplicitly
<1>1. TraceInv => RejectsImplicitly
  <2> SUFFICES ASSUME TraceInv, ss # <<>>, given # keypair.pk \/ ct # sent.ct
               PROVE  ss = Kem!rkprf(keypair.sk.z, ct)
    BY DEF RejectsImplicitly, Kem!RejectsImplicitly, Kem!None
  <2>1. ct # <<>> /\ given # <<>> /\ keypair # <<>> /\ ss = FoundOf(ct, keypair)
    BY DEF TraceInv, FoundTraced, SentTraced, KeyTraced
  <2>2. PICK coins \in Coins : keypair = KeypairOf(coins)
    BY <2>1 DEF TraceInv, KeyTraced
  <2>3. PICK other \in Coins : given = PkOf(other)
    BY <2>1 DEF TraceInv, KeyTraced
  <2>4. PICK m \in Messages : sent.ct = CiphertextOf(m, PkOf(other))
    BY <2>1, <2>3 DEF TraceInv, SentTraced
  <2>5. ct = sent.ct \/ ct \in Changes(sent.ct)
    BY <2>1 DEF TraceInv, SentTraced
  <2>6. keypair.pk = PkOf(coins)
    BY <2>2 DEF KeypairOf
  <2>7. CASE ct = sent.ct
    <3>1. PkOf(other) # PkOf(coins)
      BY <2>3, <2>6, <2>7
    <3>2. ct # Reencrypted(ct, keypair)
      BY <2>2, <2>4, <2>7, <3>1 DEF NeverReencrypted
    <3> QED
      BY <2>1, <3>2 DEF FoundOf
  <2>8. CASE ct # sent.ct
    <3>1. ct # Reencrypted(ct, keypair)
      BY <2>2, <2>4, <2>5, <2>8 DEF NeverReencrypted
    <3> QED
      BY <2>1, <3>1 DEF FoundOf
  <2> QED
    BY <2>7, <2>8
<1> QED
  BY <1>1, TraceAlways, PTL
=============================================================================
