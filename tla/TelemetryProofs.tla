--------------------------- MODULE TelemetryProofs ---------------------------
(***************************************************************************)
(* Proofs about Telemetry, for every number of broadcasts and of failures  *)
(* that a discovery and a host are given.                                  *)
(***************************************************************************)
EXTENDS Telemetry, TLAPS

\* What the client's variables say of each other.
ClientInv ==
    /\ ready <=> host # NoHost
    /\ call \in {"first", "again"} => ~ready
    /\ call = "again" => fails = 0

\* Events are lost while the client posts to a wrong host, each of them a
\* failure, and perhaps one more in a discovery begun while the PC could not
\* be reached; once it can, the next discovery finds it.
LossInv ==
    Reachable /\ advertised = at =>
        /\ lost <= MaxFails
        /\ lost > 0 =>
              \/ host = at
              \/ ready /\ lost <= fails
              \/ ~ready /\ (call = "idle" \/ tries > 0)

TelemetryInv == TypeOK /\ ClientInv /\ LossInv

LEMMA TelemetryInit == ASSUME TelemetryAssumption PROVE Init => TelemetryInv
<1> SUFFICES ASSUME Init PROVE TelemetryInv
  OBVIOUS
<1>1. MaxFails \in Nat \ {0} /\ Tries \in Nat \ {0} /\ MaxMoves \in Nat /\ LostCap \in Nat
  BY DEF TelemetryAssumption, LostCap
<1>2. ready \in BOOLEAN /\ answering \in BOOLEAN /\ collecting \in BOOLEAN
  BY DEF Init
<1>3. tries \in 0..Tries /\ fails \in 0..MaxFails /\ moves \in 0..MaxMoves /\ lost \in 0..LostCap
  BY <1>1 DEF Init
<1>4. TypeOK
  BY <1>1, <1>2, <1>3 DEF Init, TypeOK, Calls
<1>5. ClientInv
  BY DEF Init, ClientInv
<1>6. LossInv
  BY <1>1 DEF Init, LossInv
<1> QED
  BY <1>4, <1>5, <1>6 DEF TelemetryInv

LEMMA TelemetryStep ==
  ASSUME TelemetryAssumption PROVE TelemetryInv /\ [Next]_vars => TelemetryInv'
<1> SUFFICES ASSUME TelemetryInv, [Next]_vars PROVE TelemetryInv'
  OBVIOUS
<1> USE DEF TelemetryInv
<1>1. /\ MaxFails \in Nat \ {0} /\ Tries \in Nat \ {0} /\ MaxMoves \in Nat
      /\ NoHost \notin Hosts \cup {Router} /\ LostCap \in Nat /\ LostCap > MaxFails
  BY DEF TelemetryAssumption, LostCap
<1>2. /\ fails \in 0..MaxFails /\ tries \in 0..Tries /\ lost \in 0..LostCap
      /\ at \in Hosts /\ advertised \in Hosts
  BY DEF TypeOK
<1>3. CASE Call
  <2>1. TypeOK'
    <3>1. CASE ~ready \/ host = NoHost
      BY <1>1, <1>2, <1>3, <3>1 DEF Call, TypeOK, Calls, pc
    <3>2. CASE ready /\ host # NoHost /\ TooManyFails
      <4>1. /\ call' = "again" /\ tries' = Tries /\ ready' = FALSE /\ host' = NoHost /\ fails' = 0
            /\ UNCHANGED <<fallback, pc, lost>>
        BY <1>3, <3>2 DEF Call
      <4>2. tries' \in 0..Tries /\ fails' \in 0..MaxFails
        BY <1>1, <4>1
      <4> QED
        BY <4>1, <4>2 DEF TypeOK, Calls, pc
    <3>3. CASE ready /\ host # NoHost /\ ~TooManyFails
      BY <1>1, <1>2, <1>3, <3>3 DEF Call, TooManyFails, TypeOK, Calls, pc
    <3> QED
      BY <3>1, <3>2, <3>3
  <2>2. ClientInv'
    BY <1>1, <1>2, <1>3 DEF Call, TooManyFails, TypeOK, ClientInv, Calls, pc
  <2>3. LossInv'
    BY <1>1, <1>2, <1>3 DEF Call, TooManyFails, ClientInv, LossInv, Reachable, pc
  <2> QED
    BY <2>1, <2>2, <2>3
<1>4. CASE Answered
  BY <1>1, <1>2, <1>4 DEF Answered, Found, TypeOK, ClientInv, LossInv, Reachable, Calls, pc
<1>5. CASE Unanswered
  BY <1>1, <1>2, <1>5 DEF Unanswered, TypeOK, ClientInv, LossInv, Reachable, Calls, pc
<1>6. CASE NotFound
  <2>1. ~ready /\ host = NoHost /\ host # at /\ tries = 0 /\ call # "idle"
    BY <1>1, <1>2, <1>6 DEF NotFound, ClientInv
  <2>2. Reachable /\ advertised = at => lost = 0
    BY <1>2, <2>1 DEF LossInv
  <2>3. CASE fallback # NoHost
    <3>1. Found(fallback) /\ UNCHANGED <<lost, fallback, pc>> /\ fallback = Router
      BY <1>6, <2>3 DEF NotFound, TypeOK
    <3> QED
      BY <1>1, <1>2, <1>6, <2>2, <3>1
         DEF NotFound, Found, TypeOK, ClientInv, LossInv, Reachable, Calls, pc
  <2>4. CASE fallback = NoHost
    BY <1>1, <1>2, <1>6, <2>1, <2>2, <2>4
       DEF NotFound, Lose, TypeOK, ClientInv, LossInv, Reachable, Calls, pc
  <2> QED
    BY <2>3, <2>4
<1>7. CASE Post
  <2>1. ready /\ host # NoHost /\ fails < MaxFails /\ call = "post"
    BY <1>7 DEF Post, TypeOK
  <2> QED
    BY <1>1, <1>2, <1>7, <2>1
       DEF Post, Counted, Lose, TypeOK, ClientInv, LossInv, Reachable, Calls, pc
<1>8. CASE Restart
  <2>1. TypeOK'
    <3>1. tries' \in 0..Tries /\ fails' \in 0..MaxFails /\ lost' \in 0..LostCap
      BY <1>1, <1>8 DEF Restart
    <3> QED
      BY <1>8, <3>1 DEF Restart, TypeOK, Calls, pc
  <2> QED
    BY <1>1, <1>8, <2>1 DEF Restart, ClientInv, LossInv
<1>9. CASE PC
  <2>1. UNCHANGED client /\ lost' = 0
    BY <1>9 DEF PC
  <2>2. at' \in Hosts /\ advertised' \in Hosts /\ {answering', collecting'} \subseteq BOOLEAN
        /\ moves' \in 0..MaxMoves
    <3>1. {answering, collecting} \subseteq BOOLEAN /\ moves \in 0..MaxMoves
      BY DEF TypeOK
    <3>2. CASE Move
      BY <1>1, <1>2, <3>1, <3>2 DEF Move
    <3>3. CASE ServerStarts \/ ServerStops
      BY <1>2, <3>1, <3>3 DEF ServerStarts, ServerStops
    <3>4. CASE CollectorChanges
      BY <1>2, <3>1, <3>4 DEF CollectorChanges
    <3> QED
      BY <1>9, <3>2, <3>3, <3>4 DEF PC
  <2> QED
    BY <1>1, <1>2, <2>1, <2>2 DEF client, TypeOK, ClientInv, LossInv
<1>10. CASE UNCHANGED vars
  BY <1>10 DEF vars, client, pc, TypeOK, ClientInv, LossInv, Reachable
<1> QED
  BY <1>3, <1>4, <1>5, <1>6, <1>7, <1>8, <1>9, <1>10 DEF Next, Client

LEMMA TelemetryInvariant == ASSUME TelemetryAssumption PROVE Spec => []TelemetryInv
BY TelemetryInit, TelemetryStep, PTL DEF Spec

\* A PC that can be reached and is advertised under its address never loses
\* more events in a row than the client takes for a sign that the host is
\* gone (splunk_send_event).
THEOREM LossIsBounded == ASSUME TelemetryAssumption PROVE Spec => []LossBound
<1>1. TelemetryInv => LossBound
  BY DEF TelemetryInv, LossInv, LossBound
<1> QED
  BY <1>1, TelemetryInvariant, PTL
=============================================================================
