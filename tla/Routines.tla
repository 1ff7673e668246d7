------------------------------ MODULE Routines ------------------------------
(***************************************************************************)
(* The C routines that the boards share, each on its own: coap_parse on    *)
(* what coap_build_simple wrote and on arbitrary bytes, ML-KEM with sample *)
(* streams in place of SHAKE, the sponge of SHAKE and its permutation, and *)
(* the sampling of the matrix.  A behaviour is one of a single routine;    *)
(* the others rest.                                                        *)
(***************************************************************************)
EXTENDS Integers, Sequences

CONSTANTS
    MaxUri, Datagrams, Texts,                                   \* of CoapCodec
    Coins, Messages, Xof(_, _, _), Prf(_, _), Changes(_), MaxKeypairs,  \* of MlKem
    Rate, MaxInput, MaxOutput,                                  \* of Sponge
    Samples,                                                    \* of KeccakF
    N, Bound, Candidates, Pairs, FirstBlocks, MaxBlocks         \* of RejUniform

VARIABLES
    routine,    \* "coap", "kem", "sponge", "permutation" or "sampling"
    datagram, offset, last_opt_num, uri, touched, result,
    text, segment, opt_num, written, options, writing,
    job, keypair, made, given, sent, ct, ss,
    total, absorbed, todo, past, block, pos, mode, out,
    round, lanes, reference,
    stream, buf, coeffs, sampling

coapVars == <<datagram, offset, last_opt_num, uri, touched, result,
              text, segment, opt_num, written, options, writing>>
kemVars == <<job, keypair, made, given, sent, ct, ss>>
spongeVars == <<total, absorbed, todo, past, block, pos, mode, out>>
permutationVars == <<round, lanes, reference>>
samplingVars == <<stream, buf, coeffs, sampling>>
vars == <<routine, coapVars, kemVars, spongeVars, permutationVars, samplingVars>>

-----------------------------------------------------------------------------
Codec == INSTANCE CoapCodec
Kem == INSTANCE MlKem
Permutation == INSTANCE KeccakF
Hash == INSTANCE Sponge
Matrix == INSTANCE RejUniform

ASSUME RoutineAssumption ==
    /\ Codec!CodecAssumption
    /\ Kem!KemAssumption
    /\ Permutation!KeccakAssumption
    /\ Hash!SpongeAssumption
    /\ Matrix!SamplingAssumption

-----------------------------------------------------------------------------
Init ==
    /\ routine \in {"coap", "kem", "sponge", "permutation", "sampling"}
    /\ Codec!CodecInit
    /\ routine # "coap" => datagram = Codec!NoDatagram /\ writing = "nothing"
    /\ Kem!Init
    /\ Hash!Init /\ (routine # "sponge" => total = 0)
    /\ Permutation!Init /\ (routine # "permutation" => lanes = [l \in 0..24 |-> {}])
    /\ Matrix!Init

CoapStep ==
    /\ routine = "coap" /\ Codec!CodecNext
    /\ UNCHANGED <<routine, kemVars, spongeVars, permutationVars, samplingVars>>

KemStep ==
    /\ routine = "kem" /\ Kem!Next
    /\ UNCHANGED <<routine, coapVars, spongeVars, permutationVars, samplingVars>>

SpongeStep ==
    /\ routine = "sponge" /\ Hash!Next
    /\ UNCHANGED <<routine, coapVars, kemVars, permutationVars, samplingVars>>

PermutationStep ==
    /\ routine = "permutation" /\ Permutation!Next
    /\ UNCHANGED <<routine, coapVars, kemVars, spongeVars, samplingVars>>

SamplingStep ==
    /\ routine = "sampling" /\ Matrix!Next
    /\ UNCHANGED <<routine, coapVars, kemVars, spongeVars, permutationVars>>

Next == CoapStep \/ KemStep \/ SpongeStep \/ PermutationStep \/ SamplingStep

Spec == Init /\ [][Next]_vars

-----------------------------------------------------------------------------
(* Properties: those of the routines *)

InBounds == Codec!InBounds
ReadsWhatWasWritten == Codec!ReadsWhatWasWritten
EveryOptionAdvances == Codec!EveryOptionAdvances
SecretsAgree == Kem!SecretsAgree
RejectsImplicitly == Kem!RejectsImplicitly
Reduced == Kem!Reduced
OutputIsTheStream == Hash!OutputIsTheStream
PermutesAsDefined == Permutation!PermutesAsDefined
SamplesInOrder == Matrix!SamplesInOrder
=============================================================================
