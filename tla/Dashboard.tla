------------------------------ MODULE Dashboard ------------------------------
(***************************************************************************)
(* The dashboard: a page that asks the backend for an overview every five  *)
(* seconds, and the backend, which makes an overview from searches of the  *)
(* Splunk index, one after the other.  A request takes as long as it       *)
(* takes, so that several can be under way; the index grows meanwhile.     *)
(* What a search answers is the number of events that were indexed then.   *)
(***************************************************************************)
EXTENDS Integers, Sequences

CONSTANTS
    Slots,          \* the requests that can be under way at once
    Searches,       \* searches of an overview, the one for the counts first
    MaxTroubles     \* bound on troubles

VARIABLES
    index,          \* the events that Splunk has indexed
    splunk,         \* whether Splunk answers
    backend,        \* whether the backend answers
    requests,       \* of each slot, the overview in the making, or Free
    troubles,       \* how often one of the two stopped or started, or a call
                    \* of Splunk failed that could have succeeded
    overview        \* what the page shows, or Nothing

vars == <<index, splunk, backend, troubles, requests, overview>>

Free == [at |-> "free"]
Lost == [at |-> "lost"]
Nothing == [at |-> "nothing"]
Failed == -1

Init ==
    /\ splunk \in BOOLEAN /\ backend = TRUE /\ troubles = 0
    /\ requests = [r \in Slots |-> Free]
    /\ overview = Nothing

-----------------------------------------------------------------------------
(* The backend *)

\* A call of Splunk's interface succeeds only while Splunk is up; a timeout
\* or an HTTP error can fail it even then.
Calls(succeeds) ==
    LET failure == splunk /\ ~succeeds
    IN  /\ succeeds => splunk
        /\ failure => troubles < MaxTroubles
        /\ troubles' = IF failure THEN troubles + 1 ELSE troubles

\* status, the first thing an overview asks.
Status(r) ==
    /\ requests[r].at = "sent" /\ backend
    /\ \E ok \in BOOLEAN :
          /\ Calls(ok)
          /\ requests' = [requests EXCEPT ![r] = [at |-> "searching", ok |-> ok, answers |-> <<>>]]
    /\ UNCHANGED <<index, splunk, backend, overview>>

\* Mutant of Noted: the answers are kept in the wrong order.
NotedFirst(answers, answer) == <<answer>> \o answers

Noted(answers, answer) == Append(answers, answer)

\* search: the job is posted, polled and its results are fetched.
Search(r) ==
    /\ requests[r].at = "searching"
    /\ Len(requests[r].answers) < Searches
    /\ \E found \in BOOLEAN :
          /\ Calls(found)
          /\ requests' = [requests EXCEPT ![r].answers =
                            Noted(@, IF found THEN Len(index) ELSE Failed)]
    /\ UNCHANGED <<index, splunk, backend, overview>>

-----------------------------------------------------------------------------
(* The page *)

\* Mutant of Asks: while an answer is awaited no other request is sent.
AsksOnce == overview = Nothing

\* The timer asks again whatever is under way; so does the button, at most
\* when loading lets it.
Asks == TRUE

\* load: a request is sent.
Load(r) ==
    /\ requests[r] = Free
    /\ Asks
    /\ requests' = [requests EXCEPT ![r] = [at |-> "sent"]]
    /\ UNCHANGED <<index, splunk, backend, troubles, overview>>

\* getOverview returns, and what it returns is shown.
Show(r) ==
    /\ requests[r].at = "searching"
    /\ Len(requests[r].answers) = Searches
    /\ overview' = [at |-> "shown", ok |-> requests[r].ok, answers |-> requests[r].answers]
    /\ requests' = [requests EXCEPT ![r] = Free]
    /\ UNCHANGED <<index, splunk, backend, troubles>>

\* getOverview throws: the page shows that the backend is offline.
ShowOffline(r) ==
    /\ requests[r] = Lost \/ (requests[r].at = "sent" /\ ~backend)
    /\ overview' = Nothing
    /\ requests' = [requests EXCEPT ![r] = Free]
    /\ UNCHANGED <<index, splunk, backend, troubles>>

\* Splunk stops or starts.
SplunkChanges ==
    /\ troubles < MaxTroubles
    /\ troubles' = troubles + 1
    /\ splunk' = ~splunk
    /\ UNCHANGED <<index, backend, requests, overview>>

\* The backend stops or starts; the requests under way end when it stops.
BackendChanges ==
    /\ troubles < MaxTroubles
    /\ troubles' = troubles + 1
    /\ backend' = ~backend
    /\ requests' = [r \in Slots |-> IF backend /\ requests[r] # Free THEN Lost ELSE requests[r]]
    /\ UNCHANGED <<index, splunk, overview>>

Request(r) == Status(r) \/ Search(r) \/ Show(r) \/ ShowOffline(r)

Next == SplunkChanges \/ BackendChanges \/ \E r \in Slots : Load(r) \/ Request(r)

-----------------------------------------------------------------------------
(* Properties *)

TypeOK ==
    /\ {splunk, backend} \subseteq BOOLEAN /\ troubles \in 0..MaxTroubles
    /\ \A r \in Slots : requests[r].at \in {"free", "sent", "searching", "lost"}
    /\ \A r \in Slots : requests[r].at = "searching" => backend
    /\ overview.at \in {"nothing", "shown"}

\* The parts of an overview were read one after the other, so a later part
\* has every event that an earlier one has, and none that Splunk has not
\* indexed: totals and governance evidence never count an event that the
\* table of recent events had not been able to show (overview in app.py).
PartsAreOrdered ==
    overview # Nothing =>
        \A i \in DOMAIN overview.answers :
            /\ overview.answers[i] <= Len(index)
            /\ \A j \in 1..i : overview.answers[i] # Failed => overview.answers[j] <= overview.answers[i]

\* Everything on the page is as Splunk has it.
UpToDate ==
    overview # Nothing /\ overview.ok /\ \A i \in 1..Searches : overview.answers[i] = Len(index)
=============================================================================
