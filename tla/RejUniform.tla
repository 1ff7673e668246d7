----------------------------- MODULE RejUniform -----------------------------
(***************************************************************************)
(* gen_matrix for one polynomial: blocks of the stream are squeezed, and   *)
(* rej_uniform takes the candidates below q from each, two at a time, as   *)
(* long as coefficients are missing.                                       *)
(***************************************************************************)
EXTENDS Integers, Sequences, FiniteSets

CONSTANTS
    N,              \* KYBER_N, coefficients of a polynomial
    Bound,          \* KYBER_Q
    Candidates,     \* values of 12 bits that the stream may hold
    Pairs,          \* groups of three bytes in a block, two candidates in each
    FirstBlocks,    \* GEN_MATRIX_NBLOCKS, blocks squeezed at once at first
    MaxBlocks       \* blocks squeezed

SamplingAssumption ==
    /\ Bound \in Nat /\ Candidates \subseteq Nat
    /\ {N, Pairs, FirstBlocks, MaxBlocks} \subseteq Nat

VARIABLES
    stream,     \* history: all the candidates squeezed so far
    buf,        \* those of the call of rej_uniform, from pos on
    coeffs,     \* the coefficients so far, ctr of them
    sampling    \* "before", "within" or "between" calls, or "done"

vars == <<stream, buf, coeffs, sampling>>

Init ==
    /\ stream = <<>> /\ buf = <<>> /\ coeffs = <<>>
    /\ sampling = "before"

ctr == Len(coeffs)

\* xof_squeezeblocks, and the call of rej_uniform with what it gave.
Squeeze ==
    LET n == IF sampling = "before" THEN FirstBlocks ELSE 1
    IN  /\ sampling \in {"before", "between"}
        /\ Len(stream) + 2 * Pairs * n <= 2 * Pairs * MaxBlocks
        /\ buf' \in [1..(2 * Pairs * n) -> Candidates]
        /\ stream' = stream \o buf'
        /\ sampling' = "within"
        /\ UNCHANGED coeffs

\* Mutant of Taking: the second candidate is taken without a look at ctr.
TakingBoth(cs, val0, val1) ==
    cs \o (IF val0 < Bound THEN <<val0>> ELSE <<>>) \o (IF val1 < Bound THEN <<val1>> ELSE <<>>)

\* The coefficients with those of two candidates that are taken.
Taking(cs, val0, val1) ==
    LET one == IF val0 < Bound THEN Append(cs, val0) ELSE cs
    IN  IF Len(one) < N /\ val1 < Bound THEN Append(one, val1) ELSE one

\* A pass of the loop of rej_uniform.
Sample ==
    /\ sampling = "within"
    /\ ctr < N /\ buf # <<>>
    /\ coeffs' = Taking(coeffs, buf[1], buf[2])
    /\ buf' = SubSeq(buf, 3, Len(buf))
    /\ UNCHANGED <<stream, sampling>>

\* rej_uniform returns; what is left of the block is given up.
Return ==
    /\ sampling = "within"
    /\ ctr >= N \/ buf = <<>>
    /\ sampling' = IF ctr < N THEN "between" ELSE "done"
    /\ buf' = <<>>
    /\ UNCHANGED <<stream, coeffs>>

Next == Squeeze \/ Sample \/ Return

Spec == Init /\ [][Next]_vars

-----------------------------------------------------------------------------
(* Properties *)

\* How many of the first p candidates of a stream are below q.
Good(s, p) == Cardinality({c \in 1..p : s[c] < Bound})

\* The coefficients never run past the array, and they are the first of the
\* stream that are below q, none of them skipped or taken twice at the end of
\* a block: both boards derive the same matrix from a seed.
SamplesInOrder ==
    /\ ctr <= N
    /\ \A i \in 1..ctr :
          \E p \in 1..Len(stream) :
             coeffs[i] = stream[p] /\ stream[p] < Bound /\ Good(stream, p) = i
    /\ sampling = "done" => ctr = N
    /\ sampling = "between" => ctr = Good(stream, Len(stream))
=============================================================================
