----------------------------- MODULE GatewayBoard -----------------------------
(***************************************************************************)
(* The receiver board with what its one task does besides the protocol:    *)
(* the saves of its key store (GatewayStore) and the reports to the PC     *)
(* (Telemetry).  Both run inside task_gateway, so neither starts while the *)
(* other has not returned, and a power cut ends whichever is running.      *)
(* Both variants of the telemetry client are taken, the sender's too: they *)
(* differ in the fallback only.                                            *)
(***************************************************************************)
EXTENDS Naturals

CONSTANTS MaxKeys, MaxCount,                                \* of GatewayStore
          Hosts, NoHost, Router, Tries, MaxFails, MaxMoves  \* of Telemetry

VARIABLES
    step, caller, opened, store, flash, said, made, damaged,
    fallback, call, tries, ready, host, fails,
    at, advertised, answering, collecting, moves, lost

keystore == <<step, caller, opened, store, flash, said, made, damaged>>
telemetry == <<fallback, call, tries, ready, host, fails,
               at, advertised, answering, collecting, moves, lost>>
vars == <<keystore, telemetry>>

K == INSTANCE GatewayStore WITH pc <- step, ready <- opened
T == INSTANCE Telemetry

ASSUME BoardAssumption == K!StoreAssumption /\ T!TelemetryAssumption

TypeOK == K!TypeOK /\ T!TypeOK

Init == K!Init /\ T!Init

\* Events are reported before the task starts, with the pairing code, and
\* while it listens: never in the middle of a save.
Reporting == step \in {"load", "reset", "listening"}

StoreStep ==
    /\ call = "idle"
    /\ \/ K!PowerOn \/ K!Load \/ K!LoadFails \/ K!Generate \/ K!GenerateFails
       \/ K!Reset \/ K!Accept
       \/ K!Open \/ K!Set \/ K!Commit \/ K!Verify \/ K!Continue
    /\ UNCHANGED telemetry

EventStep ==
    /\ Reporting
    /\ T!Client
    /\ UNCHANGED keystore

PowerCut == K!PowerCut /\ T!Restart

Surroundings ==
    \/ K!Decay /\ UNCHANGED telemetry
    \/ T!PC /\ UNCHANGED keystore

Next == StoreStep \/ EventStep \/ PowerCut \/ Surroundings

Spec == Init /\ [][Next]_vars

\* The task goes on; a handler reports something between any two saves.
FairSpec ==
    /\ Spec
    /\ WF_vars(StoreStep)
    /\ SF_vars(EventStep)

-----------------------------------------------------------------------------
(* Properties: those of the parts, for the board as a whole *)

KeepsRegister == K!KeepsRegister
SaveTellsTruth == K!SaveTellsTruth
ListensWithStoredKey == K!ListensWithStoredKey
LossBound == T!LossBound

\* A gateway that runs on and a PC that stays reachable under the address its
\* discovery server advertises: events arrive again and again, whatever was
\* lost before, and although saves and events hold each other up.
TelemetryResumes ==
    <>[](K!HasStore /\ T!Reachable /\ advertised = at) => []<>T!Delivers

ExistingKeyKept == K!ExistingKeyKept
=============================================================================
