------------------------------ MODULE CoapBuild ------------------------------
(***************************************************************************)
(* coap_build_simple: how the boards write the options and the payload of  *)
(* a message, one action for each segment of the path.  A path is given as *)
(* what is between its slashes, some of which may be next to each other;   *)
(* the four bytes of the header are left out.                              *)
(***************************************************************************)
EXTENDS CoapFormat

CONSTANT
    Texts           \* what is written: segments, payload, and the room for it

\* The length of a segment is a uint16_t.
BuildAssumption ==
    \A t \in Texts :
        /\ t.segments \in Seq(Seq(Byte)) /\ t.payload \in Seq(Byte) /\ t.room \in Nat
        /\ \A i \in DOMAIN t.segments : Len(t.segments[i]) < 65536

VARIABLES
    text,           \* the text that is written
    segment,        \* the segment of its path that is next
    opt_num,        \* last_opt_num: the number of the last option written
    written,        \* the bytes written
    options,        \* history: for each option its value, the bytes up to its
                    \* end, and the path up to there
    writing         \* "nothing", "path", "done", "failed", or "sent"

buildVars == <<text, segment, opt_num, written, options, writing>>

BuildInit ==
    /\ text \in Texts
    /\ segment = 1
    /\ opt_num = 0
    /\ written = <<>>
    /\ options = <<>>
    /\ writing = "path"

-----------------------------------------------------------------------------
\* The nibble and the extension bytes that encode a delta or a length.
Encoded(n) ==
    CASE n < 13 -> [nibble |-> n, ext |-> <<>>]
      [] 13 <= n /\ n < 269 -> [nibble |-> 13, ext |-> <<n - 13>>]
      [] OTHER -> [nibble |-> 14, ext |-> <<(n - 269) \div 256, (n - 269) % 256>>]

Option(delta, value) ==
    LET d == Encoded(delta)
        l == Encoded(Len(value))
    IN  <<16 * d.nibble + l.nibble>> \o d.ext \o l.ext \o value

\* Mutant of Delta: an option bears its whole number.
DeltaWhole(last) == UriPath

\* An option says how far its number is from that of the one before.
Delta(last) == UriPath - last

\* The path to which the first n options amount.
Joined(n) == IF n = 0 THEN <<>> ELSE options[n].path

\* A path and one more segment.
Behind(path, value) == IF path = <<>> THEN value ELSE path \o <<Slash>> \o value

Fail ==
    /\ writing' = "failed"
    /\ UNCHANGED <<text, segment, opt_num, written, options>>

\* Slashes next to each other, or at either end, are skipped.
SkipSlash ==
    /\ writing = "path"
    /\ segment <= Len(text.segments)
    /\ text.segments[segment] = <<>>
    /\ segment' = segment + 1
    /\ UNCHANGED <<text, opt_num, written, options, writing>>

WriteSegment ==
    /\ writing = "path"
    /\ segment <= Len(text.segments)
    /\ text.segments[segment] # <<>>
    /\ LET value == text.segments[segment]
           option == Option(Delta(opt_num), value)
           end == Len(written) + Len(option)
       IN  IF end > text.room THEN Fail
           ELSE /\ written' = written \o option
                /\ opt_num' = UriPath
                /\ segment' = segment + 1
                /\ options' = Append(options,
                      [value |-> value, end |-> end,
                       path |-> Behind(Joined(Len(options)), value)])
                /\ UNCHANGED <<text, writing>>

WritePayload ==
    /\ writing = "path"
    /\ segment > Len(text.segments)
    /\ IF text.payload # <<>> /\ Len(written) + 1 + Len(text.payload) > text.room THEN Fail
       ELSE /\ written' = IF text.payload = <<>> THEN written
                          ELSE written \o <<Marker>> \o text.payload
            /\ writing' = "done"
            /\ UNCHANGED <<text, segment, opt_num, options>>

BuildNext == SkipSlash \/ WriteSegment \/ WritePayload
=============================================================================
