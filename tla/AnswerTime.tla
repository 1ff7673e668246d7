------------------------------ MODULE AnswerTime ------------------------------
(***************************************************************************)
(* How long the gateway takes to answer a request, in seconds of waiting   *)
(* for the network: it reports to Splunk in the middle of its handlers, and*)
(* most of the reports come before the answer (Telemetry, task_gateway).   *)
(* The sender waits for an answer for so long and no longer.               *)
(***************************************************************************)
EXTENDS Naturals

CONSTANTS Hosts, NoHost, Router, Tries, MaxFails, MaxMoves, \* of Telemetry
          DiscoverTimeout,  \* SPLUNK_DISCOVER_TIMEOUT
          ConnTimeout       \* SPLUNK_CONN_TIMEOUT

VARIABLES
    fallback, call, tries, ready, host, fails,
    at, advertised, answering, collecting, moves, lost,
    request,        \* what is being handled: a kind of request or "none"
    events,         \* events still to be reported before the answer
    waited          \* seconds since the request arrived

telemetry == <<fallback, call, tries, ready, host, fails,
               at, advertised, answering, collecting, moves, lost>>
vars == <<telemetry, request, events, waited>>

T == INSTANCE Telemetry

Requests == {"meta", "pk", "data"}

\* Events reported before the answer of a request that is served: for a
\* message DATA_REQUEST, KEM_DECAP_OK, HKDF_DONE, AEAD_DECRYPT_OK and
\* MSG_DECRYPTED.
EventsBefore == [meta |-> 1, pk |-> 1, data |-> 5]

\* The sender's last wait is over: five seconds for the one broadcast that
\* asks for metadata, three times six for the others.
Patience == [meta |-> 5, pk |-> 18, data |-> 18]

Init ==
    /\ T!Init
    /\ fallback = NoHost
    /\ request = "none"
    /\ events = 0
    /\ waited = 0

Arrives ==
    /\ request = "none"
    /\ request' \in Requests
    /\ events' = EventsBefore[request']
    /\ waited' = 0
    /\ UNCHANGED telemetry

\* A broadcast without answer takes its whole timeout, and a post to a host
\* that is not there the one of the connection.
Cost ==
    IF call \in {"first", "again"} /\ tries' < tries /\ call' # "post" THEN DiscoverTimeout
    ELSE IF call = "post" /\ fails' > fails THEN ConnTimeout
    ELSE 0

Reports ==
    /\ request # "none" /\ events > 0
    /\ T!Client
    /\ waited' = waited + Cost
    /\ events' = IF call # "idle" /\ call' = "idle" THEN events - 1 ELSE events
    /\ UNCHANGED request

Answers ==
    /\ request # "none" /\ events = 0
    /\ request' = "none"
    /\ UNCHANGED <<telemetry, events, waited>>

\* The PC comes and goes between two requests.
PCChanges ==
    /\ request = "none"
    /\ T!PC
    /\ UNCHANGED <<request, events, waited>>

Next == Arrives \/ Reports \/ Answers \/ PCChanges

Spec == Init /\ [][Next]_vars

\* A request that the gateway serves is answered while its sender waits, with
\* telemetry working or not: splunk_send_event is "best-effort, non-blocking
\* for the CoAP loop".
AnsweredInTime == request # "none" => waited <= Patience[request]
=============================================================================
