------------------------------ MODULE Telemetry ------------------------------
(***************************************************************************)
(* The telemetry client of a board, splunk_discover and splunk_send_event, *)
(* with the PC that it reports to: a Splunk event collector, and the       *)
(* discovery server that tells boards its address.  The function blocks    *)
(* its task, so an event is a run of steps during which the PC may move,   *)
(* stop or start.                                                          *)
(*                                                                         *)
(* The two boards differ in what follows a discovery without answer: the   *)
(* receiver gives the event up, the sender takes the default gateway of    *)
(* its Wi-Fi for the host.                                                 *)
(***************************************************************************)
EXTENDS Naturals

CONSTANTS
    Hosts,          \* addresses the PC may have
    NoHost,         \* the empty g_splunk_host
    Router,         \* the default gateway of the Wi-Fi
    Tries,          \* SPLUNK_DISCOVER_TRIES
    MaxFails,       \* SPLUNK_MAX_CONSECUTIVE_FAILS
    MaxMoves        \* bound on the changes of the PC's address

TelemetryAssumption ==
    /\ NoHost \notin Hosts \cup {Router}
    /\ Tries \in Nat \ {0}
    /\ MaxFails \in Nat \ {0}
    /\ MaxMoves \in Nat

VARIABLES
    fallback,       \* what an unanswered discovery falls back on, or NoHost
    call,           \* where splunk_send_event is; see Calls
    tries,          \* broadcasts left in the discovery
    ready,          \* g_splunk_ready
    host,           \* g_splunk_host
    fails,          \* g_splunk_fail_count
    at,             \* the PC's address
    advertised,     \* the address the discovery server read at its start
    answering,      \* whether discovery requests reach it and are answered
    collecting,     \* whether the collector accepts events
    moves,          \* how often the PC has moved
    lost            \* history: events lost in a row since board or PC changed

client == <<fallback, call, tries, ready, host, fails>>
pc == <<at, advertised, answering, collecting, moves>>
vars == <<client, pc, lost>>

Calls == {"idle", "first", "again", "post"}

\* Beyond this many the count of lost events says no more.
LostCap == MaxFails + 2

TypeOK ==
    /\ fallback \in {NoHost, Router}
    /\ call \in Calls
    /\ tries \in 0..Tries
    /\ ready \in BOOLEAN
    /\ host \in Hosts \cup {NoHost, Router}
    /\ fails \in 0..MaxFails
    /\ call = "post" => ready /\ host # NoHost /\ fails < MaxFails
    /\ {at, advertised} \subseteq Hosts
    /\ {answering, collecting} \subseteq BOOLEAN
    /\ moves \in 0..MaxMoves
    /\ lost \in 0..LostCap

Init ==
    /\ fallback \in {NoHost, Router}
    /\ call = "idle"
    /\ tries = 0
    /\ ready = FALSE
    /\ host = NoHost
    /\ fails = 0
    /\ at \in Hosts
    /\ advertised = at
    /\ answering = TRUE
    /\ collecting = TRUE
    /\ moves = 0
    /\ lost = 0

-----------------------------------------------------------------------------
(* splunk_send_event *)

Lose == lost' = IF lost < LostCap THEN lost + 1 ELSE lost

\* Mutant of TooManyFails: one failure more before the host is given up.
TooManyFailsLate == fails > MaxFails

TooManyFails == fails >= MaxFails

\* A call with a token configured: without a host it looks for one first, and
\* after MaxFails failures in a row it forgets the one it has.
Call ==
    /\ call = "idle"
    /\ IF ~ready \/ host = NoHost
       THEN /\ call' = "first" /\ tries' = Tries
            /\ UNCHANGED <<ready, host, fails>>
       ELSE IF TooManyFails
       THEN /\ call' = "again" /\ tries' = Tries
            /\ ready' = FALSE /\ host' = NoHost /\ fails' = 0
       ELSE /\ call' = "post"
            /\ UNCHANGED <<tries, ready, host, fails>>
    /\ UNCHANGED <<fallback, pc, lost>>

\* The host is known, and the event is built and posted to it.
Found(where) ==
    /\ host' = where
    /\ ready' = TRUE
    /\ fails' = IF call = "first" THEN 0 ELSE fails
    /\ tries' = 0
    /\ call' = "post"

\* A broadcast is answered by the discovery server.
Answered ==
    /\ call \in {"first", "again"}
    /\ tries > 0
    /\ answering
    /\ Found(advertised)
    /\ UNCHANGED <<fallback, pc, lost>>

\* No socket, no answer in three seconds, or not an answer to use.  Of the
\* broadcasts of a discovery that could be answered the last one is.
Unanswered ==
    /\ call \in {"first", "again"}
    /\ tries > 0
    /\ answering => tries > 1
    /\ tries' = tries - 1
    /\ UNCHANGED <<fallback, call, ready, host, fails, pc, lost>>

\* The discovery is over without an answer.
NotFound ==
    /\ call \in {"first", "again"}
    /\ tries = 0
    /\ IF fallback # NoHost
       THEN Found(fallback) /\ UNCHANGED lost
       ELSE call' = "idle" /\ Lose /\ UNCHANGED <<tries, ready, host, fails>>
    /\ UNCHANGED <<fallback, pc>>

\* Mutant of Counted: a failure is not counted.
CountedNot(n) == n

Counted(n) == n + 1

\* getaddrinfo, connect, send and recv: the collector confirms the event or
\* there is a failure to count.
Post ==
    /\ call = "post"
    /\ call' = "idle"
    /\ IF host = at /\ collecting
       THEN fails' = 0 /\ lost' = 0
       ELSE fails' = Counted(fails) /\ Lose
    /\ UNCHANGED <<fallback, tries, ready, host, pc>>

Client == Call \/ Answered \/ Unanswered \/ NotFound \/ Post

\* A restart of the board forgets the host.
Restart ==
    /\ call' = "idle"
    /\ tries' = 0
    /\ ready' = FALSE
    /\ host' = NoHost
    /\ fails' = 0
    /\ lost' = 0
    /\ UNCHANGED <<fallback, pc>>

-----------------------------------------------------------------------------
(* The PC *)

\* The PC gets another address.  The discovery server keeps advertising the
\* one it read when it was started.
Move ==
    /\ moves < MaxMoves
    /\ moves' = moves + 1
    /\ at' \in Hosts \ {at}
    /\ UNCHANGED <<advertised, answering, collecting>>

\* The discovery server is started again, or requests get through again.
ServerStarts == answering' = TRUE /\ advertised' = at /\ UNCHANGED <<at, collecting, moves>>

ServerStops == answering /\ answering' = FALSE /\ UNCHANGED <<at, advertised, collecting, moves>>

CollectorChanges == collecting' = ~collecting /\ UNCHANGED <<at, advertised, answering, moves>>

PC ==
    /\ Move \/ ServerStarts \/ ServerStops \/ CollectorChanges
    /\ pc' # pc
    /\ lost' = 0
    /\ UNCHANGED client

Next == Client \/ PC \/ Restart

Spec == Init /\ [][Next]_vars

\* The board goes on running, and reports again and again.
FairSpec == Spec /\ WF_vars(Client)

-----------------------------------------------------------------------------
(* Properties *)

Reachable == answering /\ collecting

\* A PC that can be reached, and whose discovery server knows its address,
\* loses at most MaxFails events of a board: those posted to the last host,
\* or to the fallback, before the board looks for the host again
\* (g_splunk_fail_count in splunk_send_event).
LossBound == Reachable /\ advertised = at => lost <= MaxFails

\* An event has just been delivered.
Delivers == call = "idle" /\ host = at /\ fails = 0 /\ lost = 0

\* Once the PC stays reachable and properly advertised, events of a board that
\* keeps running arrive again, whatever was lost or fell back before.
TelemetryResumes ==
    <>[](Reachable /\ advertised = at) /\ <>[][~Restart]_vars => []<>Delivers

\* The same for a PC that got another address while its discovery server ran
\* on: the client "re-runs discovery once to handle IP changes".
HandlesAddressChange ==
    <>[]Reachable /\ <>[][~Restart]_vars => []<>Delivers
=============================================================================
