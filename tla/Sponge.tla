------------------------------- MODULE Sponge -------------------------------
(***************************************************************************)
(* The sponge behind SHAKE and SHA3 in fips202.c: an input absorbed in     *)
(* pieces or at once, an output squeezed in pieces or in blocks, one       *)
(* action for each pass of a loop.  A byte of the state is the set of what *)
(* was xored into it since the last permutation, and the permutation keeps *)
(* all that was there before, so states are equal only if the same bytes   *)
(* went to the same places.                                                *)
(***************************************************************************)
EXTENDS Integers, Sequences

CONSTANTS
    Rate,           \* bytes of a block: SHAKE128_RATE, SHAKE256_RATE, ...
    MaxInput,       \* bytes of input at most
    MaxOutput       \* bytes of output at most

SpongeAssumption == Rate \in Nat \ {0} /\ MaxInput \in Nat /\ MaxOutput \in Nat

VARIABLES
    total,      \* length of the input, whose byte n is the number n
    absorbed,   \* how many bytes of it are in the state
    todo,       \* bytes that the current call has still to absorb or squeeze
    past,       \* the state: the blocks before the last permutation,
    block,      \*   and what was xored into it since
    pos,        \* state->pos
    mode,       \* "new", "absorbing" or "squeezing"
    out         \* the bytes squeezed

vars == <<total, absorbed, todo, past, block, pos, mode, out>>

Place == 0..(Rate - 1)
Zero == [i \in Place |-> {}]
Xor(x, y) == (x \ y) \cup (y \ x)

\* The domain byte p and the last bit of the padding.
Domain == -1
End == -2

Init ==
    /\ total \in 0..MaxInput
    /\ absorbed = 0 /\ todo = 0
    /\ past = <<>> /\ block = Zero
    /\ pos = 0
    /\ mode = "new"
    /\ out = <<>>

-----------------------------------------------------------------------------
\* Block b with n bytes of the input, the first of them first, xored in from
\* position at.
WithBytes(b, at, first, n) ==
    [i \in Place |-> IF i \in at..(at + n - 1) THEN Xor(b[i], {first + i - at}) ELSE b[i]]

\* shake128_init, shake256_init.
InitState ==
    /\ mode = "new"
    /\ mode' = "absorbing"
    /\ UNCHANGED <<total, absorbed, todo, past, block, pos, out>>

\* A call of shake128_absorb or shake256_absorb with the next bytes.
AbsorbCall ==
    /\ mode = "absorbing" /\ todo = 0
    /\ \E n \in 1..(total - absorbed) : todo' = n
    /\ UNCHANGED <<total, absorbed, past, block, pos, mode, out>>

\* Mutant of Fills: a block that is filled to the last byte is not permuted.
FillsBeyond(at, n) == at + n > Rate

\* The condition of the loop of keccak_absorb.
Fills(at, n) == at + n >= Rate

AbsorbBlock ==
    /\ mode = "absorbing" /\ todo > 0
    /\ Fills(pos, todo)
    /\ past' = Append(past, WithBytes(block, pos, absorbed, Rate - pos))
    /\ block' = Zero
    /\ absorbed' = absorbed + (Rate - pos)
    /\ todo' = todo - (Rate - pos)
    /\ pos' = 0
    /\ UNCHANGED <<total, mode, out>>

AbsorbRest ==
    /\ mode = "absorbing" /\ todo > 0
    /\ ~Fills(pos, todo)
    /\ block' = WithBytes(block, pos, absorbed, todo)
    /\ absorbed' = absorbed + todo
    /\ pos' = pos + todo
    /\ todo' = 0
    /\ UNCHANGED <<total, past, mode, out>>

Padded(b, at) ==
    LET c == [b EXCEPT ![at] = Xor(@, {Domain})]
    IN  [c EXCEPT ![Rate - 1] = Xor(@, {End})]

\* keccak_finalize, and state->pos = RATE.
Finalize ==
    /\ mode = "absorbing" /\ todo = 0 /\ absorbed = total
    /\ block' = Padded(block, pos)
    /\ pos' = Rate
    /\ mode' = "squeezing"
    /\ UNCHANGED <<total, absorbed, todo, past, out>>

\* keccak_absorb_once: whole blocks, then the rest with the padding.
AbsorbOnce ==
    /\ mode = "new"
    /\ past' = [k \in 1..(total \div Rate) |-> WithBytes(Zero, 0, (k - 1) * Rate, Rate)]
    /\ block' = Padded(WithBytes(Zero, 0, total - (total % Rate), total % Rate), total % Rate)
    /\ absorbed' = total
    /\ pos' = Rate
    /\ mode' = "squeezing"
    /\ UNCHANGED <<total, todo, out>>

-----------------------------------------------------------------------------
\* A byte of the permuted state: all that was absorbed before, and its place.
Bytes(state, from, n) == [i \in 1..n |-> [past |-> state, at |-> from + i - 1]]

\* A call of shake128_squeeze or shake256_squeeze.
SqueezeCall ==
    /\ mode = "squeezing" /\ todo = 0
    /\ \E n \in 1..(MaxOutput - Len(out)) : todo' = n
    /\ UNCHANGED <<total, absorbed, past, block, pos, mode, out>>

\* A pass of keccak_squeeze: at the end of a block the next one is permuted.
SqueezeSome ==
    /\ mode = "squeezing" /\ todo > 0
    /\ LET from == IF pos = Rate THEN 0 ELSE pos
           n == IF from + todo < Rate THEN todo ELSE Rate - from
       IN  /\ past' = IF pos = Rate THEN Append(past, block) ELSE past
           /\ block' = IF pos = Rate THEN Zero ELSE block
           /\ out' = out \o Bytes(past', from, n)
           /\ pos' = from + n
           /\ todo' = todo - n
    /\ UNCHANGED <<total, absorbed, mode>>

\* A pass of keccak_squeezeblocks, which its callers call between blocks.
SqueezeBlock ==
    /\ mode = "squeezing" /\ todo = 0 /\ pos = Rate
    /\ Len(out) + Rate <= MaxOutput
    /\ past' = Append(past, block)
    /\ block' = Zero
    /\ out' = out \o Bytes(past', 0, Rate)
    /\ UNCHANGED <<total, absorbed, todo, pos, mode>>

Next ==
    \/ InitState \/ AbsorbCall \/ AbsorbBlock \/ AbsorbRest \/ Finalize \/ AbsorbOnce
    \/ SqueezeCall \/ SqueezeSome \/ SqueezeBlock

Spec == Init /\ [][Next]_vars

-----------------------------------------------------------------------------
(* Properties *)

\* Block k of the padded input, counted from 0; behind the padding, nothing.
InputBlock(k) ==
    LET last == total \div Rate
    IN  [i \in Place |->
           LET n == k * Rate + i
           IN  (IF n < total THEN {n} ELSE {})
               \cup (IF n = total THEN {Domain} ELSE {})
               \cup (IF k = last /\ i = Rate - 1 THEN {End} ELSE {})]

\* However the input is cut into calls, and the output into calls and blocks,
\* byte m of the output is the one that the padded input determines; so what
\* one board hashes in pieces (rkprf) or at once (prf, the matrix), the other
\* finds as well.
OutputIsTheStream ==
    \A m \in 1..Len(out) :
        out[m] = [past |-> [k \in 1..(total \div Rate + 1 + (m - 1) \div Rate) |-> InputBlock(k - 1)],
                  at |-> (m - 1) % Rate]
=============================================================================
