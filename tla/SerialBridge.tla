---------------------------- MODULE SerialBridge ----------------------------
(***************************************************************************)
(* serial_to_hec.py: the lines of a board's serial port, parsed, gathered  *)
(* in batches and posted to the Splunk event collector.                    *)
(***************************************************************************)
EXTENDS Naturals, Sequences, FiniteSets

CONSTANTS
    MaxLines,       \* bound on the lines read
    BatchSize       \* --batch-size

VARIABLES
    lines,          \* history: what the lines read turned out to be
    batch,          \* batch_raw: how much it holds and the events among it
    index,          \* the events that Splunk has indexed, by their lines
    bridge          \* "reading", "failed" or "ended"

vars == <<lines, batch, index, bridge>>

\* What a line turns out to be: an event of its own; one with no event_type,
\* which is gathered but left out of the payload; or a log line that is not
\* in the map, or no line that parse_line can parse.
Kinds == {"event", "unspecified", "unusable"}

TypeOK ==
    /\ lines \in Seq(Kinds) /\ Len(lines) <= MaxLines
    /\ batch \in [size : 0..(BatchSize - 1), events : Seq(1..MaxLines)]
    /\ index \in Seq(1..MaxLines)
    /\ bridge \in {"reading", "failed", "ended"}

Empty == [size |-> 0, events |-> <<>>]

Init == lines = <<>> /\ batch = Empty /\ index = <<>> /\ bridge = "reading"

\* Mutant of Posted: events without a type are posted as well.
PostedAll(kind) == kind # "unusable"

\* The events of a batch that canonicalize does not leave out of the payload.
Posted(kind) == kind = "event"

\* A batch after a line of some kind.
Gather(kind) ==
    [size |-> IF kind = "unusable" THEN batch.size ELSE batch.size + 1,
     events |-> IF Posted(kind) THEN Append(batch.events, Len(lines) + 1) ELSE batch.events]

\* send_batch: an empty payload is not posted.  An error status or a timeout
\* raises, and nothing catches it: the program ends, whether or not Splunk
\* had taken the events.
Post(payload, then) ==
    \/ /\ index' = index \o payload
       /\ bridge' = then
    \/ /\ payload # <<>>
       /\ bridge' = "failed"
       /\ index' \in {index, index \o payload}

Full(gathered) == gathered.size >= BatchSize

\* A line is read, and a batch that is full is posted.
ReadLine ==
    /\ bridge = "reading"
    /\ Len(lines) < MaxLines
    /\ \E kind \in Kinds :
         /\ lines' = Append(lines, kind)
         /\ IF Full(Gather(kind))
            THEN Post(Gather(kind).events, "reading") /\ batch' = Empty
            ELSE batch' = Gather(kind) /\ UNCHANGED <<index, bridge>>

\* The end of an input file: what is left is posted.
EndOfInput ==
    /\ bridge = "reading"
    /\ Post(batch.events, "ended")
    /\ batch' = Empty
    /\ UNCHANGED lines

Next == ReadLine \/ EndOfInput

Spec == Init /\ [][Next]_vars

-----------------------------------------------------------------------------
(* Properties *)

\* The lines with an event that Splunk does not have.
Missing == {n \in DOMAIN lines : lines[n] = "event" /\ \A i \in DOMAIN index : index[i] # n}

\* Splunk indexes the events of the lines, and nothing else, in their order,
\* none of them twice and none left out before another: an event is missing
\* only if its batch failed or is not full yet, fewer than BatchSize of them.
IndexedInOrder ==
    /\ \A i, j \in DOMAIN index : i < j => index[i] < index[j]
    /\ \A i \in DOMAIN index : index[i] \in DOMAIN lines /\ lines[index[i]] = "event"
    /\ \A i \in DOMAIN index, n \in Missing : index[i] < n
    /\ bridge = "ended" => Missing = {}
    /\ bridge = "reading" => Cardinality(Missing) < BatchSize
=============================================================================
