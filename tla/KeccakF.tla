------------------------------ MODULE KeccakF ------------------------------
(***************************************************************************)
(* KeccakF1600_StatePermute of fips202.c, two rounds for each pass of its  *)
(* loop, beside the permutation as FIPS 202 defines it.  A lane is the set *)
(* of its bits that are 1, counted from the lowest; lane 5*y + x is called *)
(* after the y-th of b, g, k, m, s and the x-th of a, e, i, o, u.          *)
(***************************************************************************)
EXTENDS Integers

CONSTANT Samples        \* states to permute

VARIABLES
    round,      \* rounds done
    lanes,      \* Aba to Asu
    reference   \* the state after as many rounds of the definition

Bit64 == 0..63
Lane == 0..24

Xor(a, b) == (a \ b) \cup (b \ a)
Rol(a, n) == {(i + n) % 64 : i \in a}

\* The bits of KeccakF_RoundConstants.
RoundConstants == <<
    {0}, {1, 7, 15}, {1, 3, 7, 15, 63}, {15, 31, 63},
    {0, 1, 3, 7, 15}, {0, 31}, {0, 7, 15, 31, 63}, {0, 3, 15, 63},
    {1, 3, 7}, {3, 7}, {0, 3, 15, 31}, {1, 3, 31},
    {0, 1, 3, 7, 15, 31}, {0, 1, 3, 7, 63}, {0, 3, 7, 15, 63}, {0, 1, 15, 63},
    {1, 15, 63}, {7, 63}, {1, 3, 15}, {1, 3, 31, 63},
    {0, 7, 15, 31, 63}, {7, 15, 63}, {0, 31}, {3, 15, 31, 63} >>

\* Mutant of Moves: two rotations of the third row are swapped.
MovesSwapped == <<
    << 0,  0>>, << 6, 44>>, <<12, 43>>, <<18, 21>>, <<24, 14>>,
    << 3, 28>>, << 9, 20>>, <<10,  3>>, <<16, 45>>, <<22, 61>>,
    << 1,  1>>, << 7,  6>>, <<13,  8>>, <<19, 25>>, <<20, 18>>,
    << 4, 27>>, << 5, 36>>, <<11, 10>>, <<17, 15>>, <<23, 56>>,
    << 2, 62>>, << 8, 55>>, <<14, 39>>, <<15, 41>>, <<21,  2>> >>

\* The lanes that BCa to BCu are taken from and how far each is rotated, five
\* for each row of new lanes.
Moves == <<
    << 0,  0>>, << 6, 44>>, <<12, 43>>, <<18, 21>>, <<24, 14>>,
    << 3, 28>>, << 9, 20>>, <<10,  3>>, <<16, 45>>, <<22, 61>>,
    << 1,  1>>, << 7,  6>>, <<13, 25>>, <<19,  8>>, <<20, 18>>,
    << 4, 27>>, << 5, 36>>, <<11, 10>>, <<17, 15>>, <<23, 56>>,
    << 2, 62>>, << 8, 55>>, <<14, 39>>, <<15, 41>>, <<21,  2>> >>

\* BCa to BCu of prepareTheta.
Column(a, x) == Xor(Xor(Xor(Xor(a[x], a[x + 5]), a[x + 10]), a[x + 15]), a[x + 20])

\* One half of the loop: from the lanes a, round n, counted from 0.
RoundOf(a, n) ==
    LET c == [x \in 0..4 |-> Column(a, x)]
        d == [x \in 0..4 |-> Xor(c[(x + 4) % 5], Rol(c[(x + 1) % 5], 1))]
        bc == [l \in Lane |->
                  LET move == Moves[l + 1]
                  IN  Rol(Xor(a[move[1]], d[move[1] % 5]), move[2])]
        after(l, k) == (5 * (l \div 5)) + ((l + k) % 5)
        e == [l \in Lane |-> Xor(bc[l], bc[after(l, 2)] \ bc[after(l, 1)])]
    IN  [e EXCEPT ![0] = Xor(@, RoundConstants[n + 1])]

-----------------------------------------------------------------------------
(* FIPS 202: the state as a function of x and y.                           *)

Theta(a) ==
    LET c == [x \in 0..4 |-> Xor(a[x][0], Xor(a[x][1], Xor(a[x][2], Xor(a[x][3], a[x][4]))))]
    IN  [x \in 0..4 |-> [y \in 0..4 |-> Xor(a[x][y], Xor(c[(x - 1) % 5], Rol(c[(x + 1) % 5], 1)))]]

\* The place at which a walk from (1, 0) over (x, y) -> (y, 2x + 3y) is after
\* t steps.
Walk[t \in 0..23] ==
    IF t = 0 THEN <<1, 0>>
    ELSE LET p == Walk[t - 1] IN <<p[2], (2 * p[1] + 3 * p[2]) % 5>>

Offset(x, y) ==
    LET t == CHOOSE t \in 0..23 : Walk[t] = <<x, y>>
    IN  ((t + 1) * (t + 2)) \div 2

Rho(a) ==
    [x \in 0..4 |-> [y \in 0..4 |-> IF x = 0 /\ y = 0 THEN a[x][y] ELSE Rol(a[x][y], Offset(x, y))]]

Pi(a) == [x \in 0..4 |-> [y \in 0..4 |-> a[(x + 3 * y) % 5][x]]]

Chi(a) == [x \in 0..4 |-> [y \in 0..4 |-> Xor(a[x][y], a[(x + 2) % 5][y] \ a[(x + 1) % 5][y])]]

\* The shift register that the round constants are made with: a step of it,
\* i steps after r, and its state at the start of round n.
Clock(r) ==
    LET shifted == {i + 1 : i \in r}
    IN  IF 8 \in shifted THEN Xor(shifted \ {8}, {0, 4, 5, 6}) ELSE shifted

After[i \in 0..7] == [r \in SUBSET (0..7) |-> IF i = 0 THEN r ELSE Clock(After[i - 1][r])]

Register[n \in 0..23] == IF n = 0 THEN {0} ELSE After[7][Register[n - 1]]

Constant(n) == {2 ^ j - 1 : j \in {i \in 0..6 : 0 \in After[i][Register[n]]}}

Iota(a, n) == [a EXCEPT ![0][0] = Xor(@, Constant(n))]

Definition(a, n) == Iota(Chi(Pi(Rho(Theta(a)))), n)

\* The states are lanes of 64 bits.  The table of constants is that of the
\* register: a computation, which TLC carries out.
KeccakAssumption ==
    /\ Samples \subseteq [Lane -> SUBSET Bit64]
    /\ \A n \in 0..23 : RoundConstants[n + 1] = Constant(n)

-----------------------------------------------------------------------------
Init ==
    /\ round = 0
    /\ lanes \in Samples
    /\ reference = [x \in 0..4 |-> [y \in 0..4 |-> lanes[5 * y + x]]]

\* A pass of the loop.
Pass ==
    /\ round < 24
    /\ round' = round + 2
    /\ lanes' = RoundOf(RoundOf(lanes, round), round + 1)
    /\ reference' = Definition(Definition(reference, round), round + 1)

Next == Pass

Spec == Init /\ [][Next]_<<round, lanes, reference>>

\* The unrolled rounds, with their renamed lanes, written-out rotations and
\* table of constants, compute the permutation of FIPS 202
\* (KeccakF1600_StatePermute).
PermutesAsDefined == \A x, y \in 0..4 : lanes[5 * y + x] = reference[x][y]
=============================================================================
