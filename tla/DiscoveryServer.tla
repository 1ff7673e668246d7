--------------------------- MODULE DiscoveryServer ---------------------------
(***************************************************************************)
(* Discovery servers on one LAN, splunk_discovery_server.py.  Each answers *)
(* the request of a board to the board itself and by a broadcast to the    *)
(* port that all the servers listen on, its own included; with --proactive *)
(* a thread broadcasts the same answer again and again.  Broadcasts reach  *)
(* some of the servers or, where sendto fails, none of them.               *)
(***************************************************************************)
EXTENDS Naturals, Sequences, FiniteSets

CONSTANTS
    Servers,        \* the PCs that run the program
    MaxRequests,    \* bound on the requests of boards
    MaxAdverts,     \* bound on the adverts of each broadcasting thread
    MaxQueue        \* datagrams that the socket of a server holds

VARIABLES
    running,        \* the servers that have not ended
    proactive,      \* the servers started with --proactive
    asked,          \* requests that boards have broadcast
    replies,        \* unicast answers to boards, counted up to MaxReplies
    adverts,        \* of each server, the adverts its thread has sent
    inbox           \* of each server, the datagrams that wait in its socket

vars == <<running, proactive, asked, replies, adverts, inbox>>

\* One more than there should ever be.
MaxReplies == Cardinality(Servers) * MaxRequests + 1

TypeOK ==
    /\ running \subseteq Servers /\ proactive \subseteq Servers
    /\ asked \in 0..MaxRequests
    /\ replies \in 0..MaxReplies
    /\ adverts \in [Servers -> 0..MaxAdverts]
    /\ inbox \in [Servers -> Seq({"request", "advert"})]
    /\ \A s \in Servers : Len(inbox[s]) <= MaxQueue
    /\ \A s \in Servers \ running : inbox[s] = <<>>

Init ==
    /\ running = Servers
    /\ proactive \in SUBSET Servers
    /\ asked = 0 /\ replies = 0
    /\ adverts = [s \in Servers |-> 0]
    /\ inbox = [s \in Servers |-> <<>>]

\* A broadcast datagram in the sockets that hear it and have room for it.
Broadcast(boxes, datagram, hearers) ==
    [s \in Servers |-> IF s \in hearers /\ Len(boxes[s]) < MaxQueue
                       THEN Append(boxes[s], datagram) ELSE boxes[s]]

\* A board looks for a collector.
Request ==
    /\ asked < MaxRequests
    /\ asked' = asked + 1
    /\ \E hearers \in SUBSET running : inbox' = Broadcast(inbox, "request", hearers)
    /\ UNCHANGED <<running, proactive, replies, adverts>>

\* A sendto of broadcast_loop, which goes to its two targets in turn and does
\* not mind a failure.
Advertise(s) ==
    /\ s \in running \cap proactive
    /\ adverts[s] < MaxAdverts
    /\ adverts' = [adverts EXCEPT ![s] = @ + 1]
    /\ \E hearers \in SUBSET running : inbox' = Broadcast(inbox, "advert", hearers)
    /\ UNCHANGED <<running, proactive, asked, replies>>

\* Mutant of IsAdvert: the answers of servers pass for requests.
IsAdvertNever(datagram) == FALSE

\* The text starts with MAGIC_PREFIX.
IsAdvert(datagram) == datagram = "advert"

\* The answer to the board, and the same answer as a broadcast.
Answer(boxes) ==
    /\ replies' = IF replies < MaxReplies THEN replies + 1 ELSE replies
    /\ \E hearers \in SUBSET running : inbox' = Broadcast(boxes, "advert", hearers)
    /\ UNCHANGED running

\* The answer to the board cannot be sent: the exception ends the program,
\* its socket and its thread.
End(s) ==
    /\ running' = running \ {s}
    /\ inbox' = [inbox EXCEPT ![s] = <<>>]
    /\ UNCHANGED replies

\* A pass of the loop of main.
Receive(s) ==
    /\ inbox[s] # <<>>
    /\ LET left == [inbox EXCEPT ![s] = Tail(@)]
       IN  IF IsAdvert(Head(inbox[s]))
           THEN inbox' = left /\ UNCHANGED <<running, replies>>
           ELSE Answer(left) \/ End(s)
    /\ UNCHANGED <<proactive, asked, adverts>>

Next == Request \/ \E s \in Servers : Advertise(s) \/ Receive(s)

Spec == Init /\ [][Next]_vars /\ \A s \in Servers : WF_vars(Receive(s))

-----------------------------------------------------------------------------
(* Properties *)

\* However many servers hear each other, each answers a request once at most:
\* answers do not answer answers (the check of MAGIC_PREFIX).
NoEcho == replies <= Cardinality(Servers) * asked

\* Once boards are content and the threads have sent their adverts, the LAN
\* is quiet again.
FallsSilent == <>[](\A s \in Servers : inbox[s] = <<>>)
=============================================================================
