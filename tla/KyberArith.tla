----------------------------- MODULE KyberArith -----------------------------
(***************************************************************************)
(* The arithmetic of the ML-KEM code on one coefficient: reductions on     *)
(* 16-bit integers, compression, the coding of a message bit and the noise *)
(* distributions.  >> is a division that rounds down, as the compilers of  *)
(* the boards shift negative numbers.                                      *)
(***************************************************************************)
EXTENDS Integers

Q == 3329           \* KYBER_Q
QInv == -3327       \* QINV, q^-1 mod 2^16

\* What an int16_t keeps of an integer.
Wrap16(x) == ((x + 32768) % 65536) - 32768

\* A number congruent to a/2^16; Wrap16 of the product with QInv is the
\* assignment to the int16_t t.
montgomery_reduce(a) ==
    LET t == Wrap16(Wrap16(a) * QInv)
    IN  Wrap16((a - t * Q) \div 65536)

\* Mutant of barrett_reduce: the quotient is not rounded.
barrett_reduce_unrounded(a) == Wrap16(a - Wrap16((20159 * a) \div 67108864) * Q)

\* The representative of a of least magnitude; v is 20159.
barrett_reduce(a) ==
    LET t == (20159 * a + 33554432) \div 67108864
    IN  Wrap16(a - Wrap16(t * Q))

fqmul(a, b) == montgomery_reduce(a * b)

\* a += (a >> 15) & KYBER_Q
Positive(a) == IF a < 0 THEN a + Q ELSE a

\* a*b >> (24 + s) for a, b < 2^24, in limbs that keep every product small.
ScaledDown(a, b, s) ==
    LET a1 == a \div 4096   a0 == a % 4096
        b1 == b \div 4096   b0 == b % 4096
        mid == a1 * b0 + a0 * b1 + (a0 * b0) \div 4096
    IN  (a1 * b1 + mid \div 4096) \div 2^s

\* A coefficient in 10 bits; d0 is 64 bits wide.
Compress10(u) == ScaledDown(Positive(u) * 1024 + 1665, 1290167, 8) % 1024
Decompress10(t) == (t * Q + 512) \div 1024

\* A coefficient in 4 bits.  The 32 bits of d0 do not hold the product, but
\* the bit that is lost is masked off anyway.
Compress4(u) == ScaledDown(Positive(u) * 16 + 1665, 80635, 4) % 16
Decompress4(t) == (t * Q + 8) \div 16

\* A message bit as a coefficient, and a coefficient as a message bit.  t is
\* unsigned: a negative coefficient stands for 2^32 more, and 2^32 * 80635 is
\* zero in its 32 bits.
FromBit(b) == IF b = 1 THEN (Q + 1) \div 2 ELSE 0
ToBit(u) ==
    LET t == 2 * u + 1665
    IN  IF t >= 0 THEN ScaledDown(t, 80635, 4) % 2
        ELSE (-1 - ScaledDown(-t, 80635, 4)) % 2
=============================================================================
