------------------------------ MODULE CoapCodec ------------------------------
(***************************************************************************)
(* What coap_build_simple of one board writes, coap_parse of the other     *)
(* reads; it reads datagrams of arbitrary bytes, too.                      *)
(***************************************************************************)
EXTENDS CoapParse, CoapBuild

codecVars == <<vars, buildVars>>

CodecAssumption == CoapAssumption /\ BuildAssumption

NoDatagram == [bytes |-> <<>>, token_len |-> 0]
NoText == [segments |-> <<>>, payload |-> <<>>, room |-> 0]

\* Nothing is written; an arbitrary datagram arrives.
Silent ==
    /\ text = NoText
    /\ segment = 1 /\ opt_num = 0
    /\ written = <<>> /\ options = <<>>
    /\ writing = "nothing"

CodecInit ==
    \/ Init /\ Silent
    \/ ParseInit(NoDatagram) /\ BuildInit

Write == BuildNext /\ UNCHANGED vars

\* What was written arrives.
Send ==
    /\ writing = "done"
    /\ writing' = "sent"
    /\ datagram' = [bytes |-> written, token_len |-> 0]
    /\ UNCHANGED <<offset, last_opt_num, uri, touched, result>>
    /\ UNCHANGED <<text, segment, opt_num, written, options>>

Read ==
    /\ writing \in {"nothing", "sent"}
    /\ Next
    /\ UNCHANGED buildVars

CodecNext == Write \/ Send \/ Read

CodecSpec == CodecInit /\ [][CodecNext]_codecVars

\* The path as far as uri_path holds it.
Cut(path) == SubSeq(path, 1, IF Len(path) < MaxUri THEN Len(path) ELSE MaxUri - 1)

\* A message whose segments are shorter than 256 bytes is not rejected; its
\* payload is read as it was written, and so is its path, as far as there is
\* room for it (coap_build_simple of one board against coap_parse of the
\* other: deltas between options, extended lengths, the marker, slashes that
\* are dropped and put back).
ReadsWhatWasWritten ==
    writing = "sent" /\ (\A i \in DOMAIN text.segments : Len(text.segments[i]) < 256) =>
        /\ result # "rejected"
        /\ result = "parsed" =>
              /\ payload = text.payload
              /\ uri = Cut(Joined(Len(options)))
=============================================================================
